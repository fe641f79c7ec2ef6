---------------------------- MODULE RawLineProofs ----------------------------
(***************************************************************************)
(* Proofs about the line editor, for every alphabet, every history the     *)
(* program gives and every size of it: indices stay inside what was        *)
(* allocated, the terminal shows the line until a history key is refused,  *)
(* and the buffers, the copy of the history and the notes of every round   *)
(* are the column of lines of LineEditor.                                  *)
(***************************************************************************)
EXTENDS MCRawLine, Loops, SequenceTheorems, TLAPS

-----------------------------------------------------------------------------
(* Sequences. *)

LEMMA PrefixOf ==
    ASSUME NEW S, NEW q \in Seq(S), NEW k \in Int
    PROVE  /\ Prefix(q, k) \in Seq(S)
           /\ Len(Prefix(q, k)) = IF k <= 0 THEN 0 ELSE IF k < Len(q) THEN k ELSE Len(q)
           /\ \A i \in 1 .. Len(Prefix(q, k)) : Prefix(q, k)[i] = q[i]
<1> DEFINE e == IF k < Len(q) THEN k ELSE Len(q)
<1>1. e \in Int /\ Len(q) \in Nat /\ \A i \in 1 .. e : q[i] \in S
  BY LenProperties, ElementOfSeq
<1>2. Prefix(q, k) = SubSeq(q, 1, e)
  BY DEF Prefix, LineMin
<1> HIDE DEF e
<1>3. /\ SubSeq(q, 1, e) \in Seq(S)
      /\ Len(SubSeq(q, 1, e)) = IF 1 <= e THEN e - 1 + 1 ELSE 0
      /\ \A i \in 1 .. e - 1 + 1 : SubSeq(q, 1, e)[i] = q[1 + i - 1]
  BY <1>1, SubSeqProperties
<1> QED BY <1>1, <1>2, <1>3 DEF e

(* A line is put before the history, which is cut to its size. *)
LEMMA PushOf ==
    ASSUME NEW S, NEW h \in Seq(S), NEW str \in S, NEW m \in Nat, Len(h) <= m
    PROVE  /\ Push(h, str, m) \in Seq(S) /\ Len(Push(h, str, m)) <= m
           /\ m > 0 => Len(Push(h, str, m)) > 0
           /\ Push(h, str, m) =
                IF h # <<>> /\ h[1] = str THEN h
                ELSE [i \in 1 .. (IF Len(h) < m THEN Len(h) + 1 ELSE m)
                         |-> IF i = 1 THEN str ELSE h[i - 1]]
<1>0. Len(h) \in Nat /\ (h # <<>> => Len(h) > 0)
  BY EmptySeq, LenProperties
<1>1. CASE h # <<>> /\ h[1] = str
  BY <1>0, <1>1 DEF Push
<1>2. CASE ~(h # <<>> /\ h[1] = str)
  <2> DEFINE q == <<str>> \o h
  <2>1. <<str>> \in Seq(S) /\ Len(<<str>>) = 1 /\ <<str>>[1] = str
    OBVIOUS
  <2>2. /\ q \in Seq(S) /\ Len(q) = 1 + Len(h)
        /\ \A i \in 1 .. 1 + Len(h) : q[i] = IF i <= 1 THEN <<str>>[i] ELSE h[i - 1]
    BY <2>1, ConcatProperties
  <2>3. Push(h, str, m) = Prefix(q, m)
    BY <1>2 DEF Push
  <2> HIDE DEF q
  <2>4. /\ Prefix(q, m) \in Seq(S)
        /\ Len(Prefix(q, m)) = IF m <= 0 THEN 0 ELSE IF m < Len(q) THEN m ELSE Len(q)
        /\ \A i \in 1 .. Len(Prefix(q, m)) : Prefix(q, m)[i] = q[i]
    BY <2>2, PrefixOf
  <2> DEFINE len == IF Len(h) < m THEN Len(h) + 1 ELSE m
  <2>5. Len(Prefix(q, m)) = len
    BY <2>2, <2>4, <1>0
  <2>6. Prefix(q, m) = [i \in 1 .. len |-> IF i = 1 THEN str ELSE h[i - 1]]
    <3>1. Prefix(q, m) = [i \in 1 .. len |-> Prefix(q, m)[i]]
      BY <2>4, <2>5, LenProperties
    <3>2. \A i \in 1 .. len : Prefix(q, m)[i] = IF i = 1 THEN str ELSE h[i - 1]
      BY <2>1, <2>2, <2>4, <2>5, <1>0
    <3> HIDE DEF len
    <3> QED BY <3>1, <3>2
  <2> QED BY <2>3, <2>4, <2>5, <2>6, <1>0, <1>2
<1> QED BY <1>1, <1>2

(* A history read back keeps every piece that is not empty, the last one     *)
(* first, and of equal ones in a row one.                                   *)
Sources(s, i, h, f) ==
    /\ f \in [1 .. Len(h) -> 1 .. i]
    /\ \A k \in 1 .. Len(h) : h[k] = s[f[k]] /\ s[f[k]] # <<>>
    /\ \A k \in 2 .. Len(h) : f[k] < f[k - 1]
ReadBack(s, i, h) ==
    /\ Len(h) <= i
    /\ \A j \in 1 .. i : s[j] # <<>> => \E k \in 1 .. Len(h) : h[k] = s[j]
    /\ \A k \in 2 .. Len(h) : h[k] # h[k - 1]
    /\ \E f : Sources(s, i, h, f)

LEMMA PieceAdded ==
    ASSUME NEW S, NEW s \in Seq(S), NEW m \in Nat, Len(s) <= m,
           NEW i \in 1 .. Len(s), NEW h \in Seq(S), ReadBack(s, i - 1, h)
    PROVE  LET q == IF s[i] = <<>> THEN h ELSE Push(h, s[i], m)
           IN  q \in Seq(S) /\ ReadBack(s, i, q)
<1> DEFINE q == IF s[i] = <<>> THEN h ELSE Push(h, s[i], m)
<1>1. /\ Len(s) \in Nat /\ Len(h) \in Nat /\ s[i] \in S /\ Len(h) < i /\ i <= m
      /\ i - 1 \in Nat /\ 1 .. i - 1 \subseteq 1 .. i
  BY LenProperties, ElementOfSeq DEF ReadBack
<1>2. \A j \in 1 .. i : s[j] # <<>> /\ j # i => \E k \in 1 .. Len(h) : h[k] = s[j]
  BY <1>1 DEF ReadBack
<1>3. \A k \in 2 .. Len(h) : h[k] # h[k - 1]
  BY DEF ReadBack
<1>4. PICK f : Sources(s, i - 1, h, f)
  BY DEF ReadBack
<1>5. Sources(s, i, h, f)
  <2>1. f \in [1 .. Len(h) -> 1 .. i]
    BY <1>1, <1>4 DEF Sources
  <2> QED BY <1>4, <2>1 DEF Sources
<1>6. ASSUME q = h, s[i] # <<>> => Len(h) > 0 /\ h[1] = s[i] PROVE ReadBack(s, i, q)
  <2>1. \A j \in 1 .. i : s[j] # <<>> => \E k \in 1 .. Len(h) : h[k] = s[j]
    BY <1>1, <1>2, <1>6
  <2>2. Len(h) <= i
    BY <1>1
  <2>3. ReadBack(s, i, h)
    BY <1>3, <1>5, <2>1, <2>2 DEF ReadBack
  <2> HIDE DEF q
  <2> QED BY <1>6, <2>3
<1>7. CASE s[i] = <<>>
  BY <1>6, <1>7
<1>8. CASE s[i] # <<>> /\ h # <<>> /\ h[1] = s[i]
  <2>1. Len(h) > 0
    BY <1>1, <1>8, EmptySeq
  <2> QED BY <1>6, <1>8, <2>1 DEF Push
<1>9. CASE s[i] # <<>> /\ ~(h # <<>> /\ h[1] = s[i])
  <2>1. q \in Seq(S) /\ q = [k \in 1 .. Len(h) + 1 |-> IF k = 1 THEN s[i] ELSE h[k - 1]]
    <3>1. /\ Len(h) <= m /\ Len(h) < m /\ Push(h, s[i], m) \in Seq(S)
          /\ Push(h, s[i], m) = [k \in 1 .. (IF Len(h) < m THEN Len(h) + 1 ELSE m)
                                     |-> IF k = 1 THEN s[i] ELSE h[k - 1]]
      <4>1. Len(h) <= m /\ Len(h) < m
        BY <1>1
      <4>2. \A v \in S : /\ Push(h, v, m) \in Seq(S)
                         /\ Push(h, v, m) =
                              IF h # <<>> /\ h[1] = v THEN h
                              ELSE [k \in 1 .. (IF Len(h) < m THEN Len(h) + 1 ELSE m)
                                       |-> IF k = 1 THEN v ELSE h[k - 1]]
        BY <4>1, PushOf
      <4> DEFINE r == [k \in 1 .. (IF Len(h) < m THEN Len(h) + 1 ELSE m)
                          |-> IF k = 1 THEN s[i] ELSE h[k - 1]]
      <4>3. Push(h, s[i], m) \in Seq(S) /\ Push(h, s[i], m) = IF h # <<>> /\ h[1] = s[i] THEN h ELSE r
        BY <1>1, <4>2
      <4> HIDE DEF r
      <4>4. Push(h, s[i], m) = r
        BY <1>9, <4>3
      <4> QED BY <4>1, <4>3, <4>4 DEF r
    <3> QED BY <1>9, <3>1
  <2> HIDE DEF q
  <2>2. /\ Len(q) = Len(h) + 1 /\ q[1] = s[i]
        /\ \A k \in 2 .. Len(q) : q[k] = h[k - 1] /\ k - 1 \in 1 .. Len(h)
        /\ \A k \in 1 .. Len(h) : k + 1 \in 1 .. Len(q) /\ q[k + 1] = h[k]
    <3>1. Len(q) = Len(h) + 1
      BY <1>1, <2>1, LenProperties
    <3> QED BY <1>1, <2>1, <3>1
  <2>3. \A j \in 1 .. i : s[j] # <<>> => \E k \in 1 .. Len(q) : q[k] = s[j]
    <3>1. ASSUME NEW j \in 1 .. i, s[j] # <<>> PROVE \E k \in 1 .. Len(q) : q[k] = s[j]
      <4>1. CASE j = i
        BY <1>1, <2>2, <4>1
      <4>2. CASE j # i
        BY <1>2, <2>2, <3>1, <4>2
      <4> QED BY <4>1, <4>2
    <3> QED BY <3>1
  <2>4. \A k \in 2 .. Len(q) : q[k] # q[k - 1]
    <3>1. ASSUME NEW k \in 2 .. Len(q) PROVE q[k] # q[k - 1]
      <4>1. CASE k = 2
        <5>1. h # <<>>
          BY <1>1, <2>2, <3>1, EmptySeq
        <5> QED BY <1>9, <2>2, <4>1, <5>1
      <4>2. CASE k # 2
        <5>1. k - 1 \in 2 .. Len(h) /\ k - 1 \in 2 .. Len(q)
          BY <1>1, <2>2, <4>2
        <5> QED BY <1>3, <2>2, <5>1
      <4> QED BY <4>1, <4>2
    <3> QED BY <3>1
  <2> DEFINE g == [k \in 1 .. Len(q) |-> IF k = 1 THEN i ELSE f[k - 1]]
  <2>5. g \in [1 .. Len(q) -> 1 .. i]
    <3>1. ASSUME NEW k \in 1 .. Len(q) PROVE (IF k = 1 THEN i ELSE f[k - 1]) \in 1 .. i
      <4>1. k # 1 => k \in 2 .. Len(q) /\ k - 1 \in 1 .. Len(h)
        BY <1>1, <2>2
      <4>2. i \in 1 .. i
        BY <1>1
      <4>3. \A j \in 1 .. Len(h) : f[j] \in 1 .. i
        <5>1. f \in [1 .. Len(h) -> 1 .. i]
          BY <1>5 DEF Sources
        <5> QED BY <5>1
      <4> QED BY <4>1, <4>2, <4>3
    <3> QED BY <3>1
  <2>6. \A k \in 1 .. Len(q) : q[k] = s[g[k]] /\ s[g[k]] # <<>>
    <3>1. ASSUME NEW k \in 1 .. Len(q) PROVE q[k] = s[g[k]] /\ s[g[k]] # <<>>
      <4>1. CASE k = 1
        BY <1>9, <2>2, <4>1
      <4>2. CASE k # 1
        <5>1. k \in 2 .. Len(q) /\ k - 1 \in 1 .. Len(h) /\ q[k] = h[k - 1] /\ g[k] = f[k - 1]
          BY <1>1, <2>2, <4>2
        <5> QED BY <1>5, <5>1 DEF Sources
      <4> QED BY <4>1, <4>2
    <3> QED BY <3>1
  <2>7. \A k \in 2 .. Len(q) : g[k] < g[k - 1]
    <3>1. ASSUME NEW k \in 2 .. Len(q) PROVE g[k] < g[k - 1]
      <4>1. k \in 1 .. Len(q) /\ k - 1 \in 1 .. Len(q) /\ k # 1
        BY <1>1, <2>2
      <4>2. g[k] = f[k - 1] /\ g[k - 1] = IF k - 1 = 1 THEN i ELSE f[k - 2]
        BY <4>1
      <4>3. CASE k = 2
        <5>1. 1 \in 1 .. Len(h) /\ f[1] \in 1 .. i - 1
          BY <1>1, <1>4, <2>2, <4>3 DEF Sources
        <5> QED BY <1>1, <4>2, <4>3, <5>1
      <4>4. CASE k # 2
        <5>1. k - 1 \in 2 .. Len(h) /\ (k - 1) - 1 = k - 2
          BY <1>1, <2>2, <4>4
        <5> QED BY <1>5, <4>2, <4>4, <5>1 DEF Sources
      <4> QED BY <4>3, <4>4
    <3> QED BY <3>1
  <2>8. Len(q) <= i
    BY <1>1, <2>2
  <2>9. Sources(s, i, q, g)
    <3> HIDE DEF g
    <3> QED BY <2>5, <2>6, <2>7 DEF Sources
  <2> HIDE DEF g
  <2>10. ReadBack(s, i, q)
    BY <2>3, <2>4, <2>8, <2>9 DEF ReadBack
  <2> QED BY <2>1, <2>10 DEF q
<1> QED BY <1>1, <1>6, <1>7, <1>8, <1>9 DEF Push

LEMMA FromSerialOf ==
    ASSUME NEW S, NEW s \in Seq(S), NEW m \in Nat, Len(s) <= m
    PROVE  FromSerial(s, m) \in Seq(S) /\ ReadBack(s, Len(s), FromSerial(s, m))
<1> DEFINE k == Len(s)
           V == {h \in Seq(S) : Len(h) <= m}
           After(i, h) == IF s[i] = <<>> THEN h ELSE Push(h, s[i], m)
           G == [i \in 1 .. k |-> [h \in V |-> After(i, h)]]
<1>1. k \in Nat /\ <<>> \in V /\ \A i \in 1 .. k : s[i] \in S
  BY EmptySeq, LenProperties, ElementOfSeq
<1>2. \A i \in 1 .. k, h \in V : After(i, h) \in V
  BY <1>1, PushOf
<1>3. G \in Rounds(k, V)
  BY <1>2 DEF Rounds
<1>4. \A i \in 1 .. k, h \in V : G[i][h] = After(i, h)
  OBVIOUS
<1> DEFINE Loop(f) == f = [i \in 0 .. k |-> IF i = 0 THEN <<>> ELSE After(i, f[i - 1])]
<1>5. \E f : Loop(f)
  <2> HIDE DEF G, V, k
  <2>1. PICK f : Runs(k, V, <<>>, G, f)
    BY <1>1, <1>3, LoopStates
  <2>2. \A i \in 1 .. k : f[i] = After(i, f[i - 1])
    BY <2>1, <1>4, <1>1 DEF Runs
  <2>3. f = [i \in 0 .. k |-> IF i = 0 THEN <<>> ELSE After(i, f[i - 1])]
    BY <1>1, <2>1, <2>2 DEF Runs
  <2> QED BY <2>3
<1> DEFINE added == CHOOSE f : Loop(f)
<1>6. Loop(added)
  <2> HIDE DEF Loop
  <2> QED BY <1>5
<1>7. FromSerial(s, m) = added[k]
  BY DEF FromSerial
<1> HIDE DEF added
<1>8. added[0] = <<>> /\ \A i \in 1 .. k : added[i] = After(i, added[i - 1])
  BY <1>1, <1>6
<1> DEFINE T == {i \in 0 .. k : added[i] \in Seq(S) /\ ReadBack(s, i, added[i])}
<1>9. 0 .. k \subseteq T
  <2>1. 0 \in T
    <3>1. 0 \in 0 .. k /\ added[0] = <<>> /\ <<>> \in Seq(S) /\ Len(<<>>) = 0
      BY <1>1, <1>8, EmptySeq
    <3>2. ReadBack(s, 0, <<>>)
      <4>1. Sources(s, 0, <<>>, [j \in 1 .. 0 |-> 1])
        BY <3>1 DEF Sources
      <4> QED BY <3>1, <4>1 DEF ReadBack
    <3> QED BY <3>1, <3>2
  <2>2. ASSUME NEW i \in 0 .. (k - 1), i \in T PROVE i + 1 \in T
    <3>1. /\ i + 1 \in 1 .. k /\ i + 1 \in 0 .. k /\ (i + 1) - 1 = i
          /\ added[i] \in Seq(S) /\ ReadBack(s, i, added[i])
      BY <1>1, <2>2
    <3>2. added[i + 1] = After(i + 1, added[i])
      <4> HIDE DEF After, k, Loop, T
      <4> QED BY <1>8, <3>1
    <3>3. After(i + 1, added[i]) \in Seq(S) /\ ReadBack(s, i + 1, After(i + 1, added[i]))
      BY <3>1, PieceAdded
    <3> HIDE DEF After
    <3> QED BY <3>1, <3>2, <3>3
  <2> HIDE DEF T
  <2> QED BY <1>1, <2>1, <2>2, LoopInduction
<1>10. k \in T
  <2> HIDE DEF T
  <2> QED BY <1>1, <1>9
<1> QED BY <1>7, <1>10

(* _raw_add_char and _raw_del_char on the text of a line. *)
LEMMA InsertAtOf ==
    ASSUME NEW S, NEW q \in Seq(S), NEW k \in 1 .. Len(q) + 1, NEW e \in S
    PROVE  InsertAt(q, k, e) \in Seq(S) /\ Len(InsertAt(q, k, e)) = Len(q) + 1
<1> DEFINE a == SubSeq(q, 1, k - 1)
           b == SubSeq(q, k, Len(q))
<1>0. Len(q) \in Nat /\ k \in Nat /\ \A i \in 1 .. Len(q) : q[i] \in S
  BY LenProperties, ElementOfSeq
<1>1. a \in Seq(S) /\ Len(a) = k - 1
  BY <1>0, SubSeqProperties
<1>2. b \in Seq(S) /\ Len(b) = Len(q) - k + 1
  BY <1>0, SubSeqProperties
<1>3. InsertAt(q, k, e) = (a \o <<e>>) \o b
  BY DEF InsertAt
<1> HIDE DEF a, b
<1>4. a \o <<e>> \in Seq(S) /\ Len(a \o <<e>>) = Len(a) + 1
  <2>1. <<e>> \in Seq(S) /\ Len(<<e>>) = 1
    OBVIOUS
  <2> QED BY <1>1, <2>1, ConcatProperties
<1>5. /\ (a \o <<e>>) \o b \in Seq(S)
      /\ Len((a \o <<e>>) \o b) = Len(a \o <<e>>) + Len(b)
  BY <1>2, <1>4, ConcatProperties
<1>6. Len(a \o <<e>>) + Len(b) = Len(q) + 1
  BY <1>0, <1>1, <1>2, <1>4, SMTT(30)
<1> QED BY <1>3, <1>5, <1>6

LEMMA RemoveAtOf ==
    ASSUME NEW S, NEW q \in Seq(S), NEW k \in 1 .. Len(q)
    PROVE  RemoveAt(q, k) \in Seq(S) /\ Len(RemoveAt(q, k)) = Len(q) - 1
<1> DEFINE a == SubSeq(q, 1, k - 1)
           b == SubSeq(q, k + 1, Len(q))
<1>0. Len(q) \in Nat /\ k \in Nat /\ \A i \in 1 .. Len(q) : q[i] \in S
  BY LenProperties, ElementOfSeq
<1>1. a \in Seq(S) /\ Len(a) = k - 1
  BY <1>0, SubSeqProperties
<1>2. b \in Seq(S) /\ Len(b) = Len(q) - k
  BY <1>0, SubSeqProperties
<1>3. RemoveAt(q, k) = a \o b
  BY DEF RemoveAt
<1> HIDE DEF a, b
<1>4. a \o b \in Seq(S) /\ Len(a \o b) = Len(a) + Len(b)
  BY <1>1, <1>2, ConcatProperties
<1> QED BY <1>0, <1>1, <1>2, <1>3, <1>4

(* The completions of a line that is a prefix of them all have a longest    *)
(* common prefix, which extends the line within one of them.                *)
LEMMA LongestOf ==
    ASSUME NEW S, NEW q \in Seq(S), NEW M, M \subseteq Seq(S), M # {},
           \A w \in M : IsPrefix(q, w)
    PROVE  \E w \in M : \E k \in Len(q) .. Len(w) : LongestCommonPrefix(M) = SubSeq(w, 1, k)
<1> DEFINE C == CommonPrefixes(M)
           longer(a) == \A b \in C : Len(b) <= Len(a)
<1>0. PICK u \in M : u \in Seq(S)
  OBVIOUS
<1>1. /\ Len(u) \in Nat /\ Len(q) \in 0 .. Len(u)
      /\ \A w \in M : w \in Seq(S) /\ Len(w) \in Nat /\ Len(q) <= Len(w) /\ q = SubSeq(w, 1, Len(q))
  <2>1. \A w \in M : w \in Seq(S) /\ Len(w) \in Nat
    BY LenProperties
  <2>2. Len(q) \in Nat /\ SubSeq(q, 1, Len(q)) = q
    BY LenProperties, SubSeqFull
  <2> QED BY <1>0, <2>1, <2>2 DEF IsPrefix
<1>2. q \in C
  BY <1>0, <1>1 DEF CommonPrefixes, Prefixes
<1>3. \A a \in C : \E w \in M : \E k \in 0 .. Len(w) : a = SubSeq(w, 1, k) /\ Len(a) = k
  <2>1. ASSUME NEW a \in C
        PROVE  \E w \in M : \E k \in 0 .. Len(w) : a = SubSeq(w, 1, k) /\ Len(a) = k
    <3>1. PICK w \in M : \E k \in 0 .. Len(w) : a = SubSeq(w, 1, k)
      BY <2>1 DEF CommonPrefixes, Prefixes
    <3>0. PICK k \in 0 .. Len(w) : a = SubSeq(w, 1, k)
      BY <3>1
    <3>2. \A i \in 1 .. k : w[i] \in S
      BY <1>1, ElementOfSeq
    <3>3. Len(SubSeq(w, 1, k)) = IF 1 <= k THEN k - 1 + 1 ELSE 0
      BY <3>2, <1>1, SubSeqProperties
    <3> QED BY <3>0, <3>3, <1>1
  <2> QED BY <2>1
<1>4. \A a \in C : Len(a) \in 0 .. Len(u)
  <2>1. \A a \in C : IsPrefix(a, u)
    BY <1>0 DEF CommonPrefixes
  <2> QED BY <2>1, <1>3, <1>1 DEF IsPrefix
<1>5. \E a \in C : longer(a)
  <2> DEFINE T == {Len(u) - Len(a) : a \in C}
  <2> HIDE DEF C
  <2>1. T \subseteq Nat /\ T # {}
    BY <1>1, <1>2, <1>4
  <2>2. PICK m \in T : \A i \in T : m <= i
    BY <2>1, LeastNat
  <2>3. PICK a \in C : m = Len(u) - Len(a)
    BY <2>2
  <2>4. \A b \in C : Len(u) - Len(a) <= Len(u) - Len(b)
    BY <2>2, <2>3
  <2> QED BY <2>3, <2>4, <1>1, <1>4
<1> DEFINE l == CHOOSE a \in C : longer(a)
<1>6. LongestCommonPrefix(M) = l
  BY DEF LongestCommonPrefix
<1>7. l \in C /\ longer(l)
  <2> HIDE DEF C, longer
  <2> QED BY <1>5
<1> HIDE DEF l
<1>8. PICK w \in M : \E k \in 0 .. Len(w) : l = SubSeq(w, 1, k) /\ Len(l) = k
  BY <1>3, <1>7
<1>9. Len(q) <= Len(l)
  BY <1>2, <1>7
<1>10. PICK k \in 0 .. Len(w) : l = SubSeq(w, 1, k) /\ Len(l) = k
  BY <1>8
<1>11. k \in Len(q) .. Len(w)
  BY <1>1, <1>9, <1>10
<1> QED BY <1>6, <1>10, <1>11

-----------------------------------------------------------------------------
(* The invariant.  Indices stay in bounds because the history only changes  *)
(* its length between inputs, and because the copy that enter gives back    *)
(* for it was made when the input began and is as long.                     *)
Bounded ==
    /\ cursor \in 0 .. Len(line)
    /\ index \in -1 .. (Len(history) - 1)
    /\ Len(history) <= max
HistoryKept ==
    /\ hist = "on" => max > 0
    /\ hist # "on" => history = <<>>
    /\ hist = "on" /\ pc = "reading" => Len(copy) = Len(history)
LineInv == TypeOK /\ Bounded /\ HistoryKept /\ EntryIsLine

LEMMA TextAssumed ==
    /\ AtExits \ {NoLine} \subseteq Text /\ Completions \subseteq Text
    /\ Serials \subseteq Seq(Text) /\ Char \subseteq Letter /\ Sizes \subseteq Nat
BY RawLineAssumption DEF Letter

LEMMA InitLine == Init => LineInv
<1> SUFFICES ASSUME Init PROVE LineInv
  OBVIOUS
<1>1. <<>> \in Text /\ <<>> \in Seq(Text) /\ Len(<<>>) = 0
  BY EmptySeq DEF Text
<1> QED BY <1>1 DEF Init, LineInv, TypeOK, Bounded, HistoryKept, EntryIsLine

(* The end of a round keeps the invariant if the round left a line, a       *)
(* cursor in it and a place of the history.                                 *)
LEMMA DoneKeeps ==
    ASSUME LineInv, pc = "reading", NEW l \in Text, NEW c \in 0 .. Len(l),
           NEW i \in -1 .. (Len(history) - 1), NEW change \in BOOLEAN, NEW leave \in BOOLEAN,
           Done(l, c, i, change, leave), original' \in Text
    PROVE  LineInv'
<1> USE DEF LineInv
<1>1. /\ Len(l) \in Nat /\ Len(history) \in Nat /\ cursor \in Nat /\ column \in Int
      /\ history \in Seq(Text) /\ text \in Text /\ copy \in Seq(Text) /\ max \in Nat
  BY LenProperties DEF TypeOK, Text
<1>2. /\ line' = l /\ cursor' = c
      /\ UNCHANGED <<hist, max, atexit>>
  BY DEF Done
<1>3. text' \in Text /\ column' \in Int
  <2>1. Start \in Int
    BY <1>1 DEF Start
  <2>2. column' \in Int
    BY <1>1, <2>1 DEF Done, Redraw
  <2>3. Prefix(text, Start) \o l \in Text
    BY <1>1, <2>1, PrefixOf, ConcatProperties DEF Text
  <2> QED BY <1>1, <2>2, <2>3 DEF Done, Redraw
<1>4. CASE leave
  <2>1. /\ pc' = "answered" /\ copy' = <<>>
        /\ IF hist = "on" THEN history' = copy /\ index' = -1
                          ELSE history' = history /\ index' = index
    BY <1>4 DEF Done, Leave
  <2>2. <<>> \in Seq(Text)
    BY EmptySeq
  <2>3. CASE hist = "on"
    BY <1>1, <1>2, <1>3, <2>1, <2>2, <2>3, LenProperties
       DEF TypeOK, Bounded, HistoryKept, EntryIsLine
  <2>4. CASE hist # "on"
    BY <1>1, <1>2, <1>3, <2>1, <2>2, <2>4
       DEF TypeOK, Bounded, HistoryKept, EntryIsLine
  <2> QED BY <2>3, <2>4
<1>5. CASE ~leave
  <2>1. pc' = pc /\ copy' = copy /\ index' = i /\ history' = Noted(l, i)
    BY <1>5 DEF Done
  <2>2. /\ history' \in Seq(Text) /\ Len(history') = Len(history)
        /\ i >= 0 => history'[i + 1] = l
    <3>1. CASE i >= 0
      <4>1. i + 1 \in 1 .. Len(history) /\ history' = [history EXCEPT ![i + 1] = l]
        BY <1>1, <2>1, <3>1 DEF Noted
      <4> QED BY <4>1, <1>1, ExceptSeq
    <3>2. CASE ~(i >= 0)
      BY <1>1, <2>1, <3>2 DEF Noted
    <3> QED BY <3>1, <3>2
  <2>3. TypeOK'
    BY <1>1, <1>2, <1>3, <2>1, <2>2 DEF TypeOK
  <2>4. Bounded' /\ EntryIsLine'
    BY <1>1, <1>2, <2>1, <2>2 DEF Bounded, EntryIsLine
  <2>5. HistoryKept'
    <3>1. hist # "on" => history' = history
      BY <2>1 DEF Noted, HistoryKept
    <3> QED BY <1>2, <2>1, <2>2, <3>1 DEF HistoryKept
  <2> QED BY <2>3, <2>4, <2>5
<1> QED BY <1>4, <1>5

LEMMA EditKeeps ==
    ASSUME LineInv, pc = "reading", NEW l \in Text, NEW c \in 0 .. Len(l), Edit(l, c)
    PROVE  LineInv'
<1>1. index \in -1 .. (Len(history) - 1) /\ original' \in Text
  BY DEF LineInv, TypeOK, Bounded, Edit
<1>2. Done(l, c, index, TRUE, FALSE)
  BY DEF Edit
<1> QED BY <1>1, <1>2, DoneKeeps

LEMMA MoveKeeps ==
    ASSUME LineInv, pc = "reading", NEW c \in 0 .. Len(line), Move(c)
    PROVE  LineInv'
<1>1. line \in Text /\ index \in -1 .. (Len(history) - 1) /\ original' \in Text
  BY DEF LineInv, TypeOK, Bounded, Move
<1>2. Done(line, c, index, FALSE, FALSE)
  BY DEF Move
<1> QED BY <1>1, <1>2, DoneKeeps

(* The keys that change the line or move in it. *)
LEMMA EditKeys ==
    ASSUME LineInv, pc = "reading",
           \/ \E ch \in Char : add_char(ch)
           \/ del_char \/ backspace \/ move_cur(-1) \/ move_cur(1) \/ home \/ end
    PROVE  LineInv'
<1>1. line \in Seq(Letter) /\ Len(line) \in Nat /\ cursor \in 0 .. Len(line)
      /\ (line # <<>> => Len(line) > 0)
  BY LenProperties, EmptySeq DEF LineInv, TypeOK, Bounded, Text
<1>2. ASSUME NEW ch \in Char, add_char(ch) PROVE LineInv'
  <2>1. cursor + 1 \in 1 .. Len(line) + 1 /\ ch \in Letter
    BY <1>1, TextAssumed
  <2> DEFINE l == InsertAt(line, cursor + 1, ch)
  <2>2. l \in Text /\ Len(l) = Len(line) + 1
    BY <1>1, <2>1, InsertAtOf, ZenonT(30) DEF Text
  <2>3. Edit(l, cursor + 1)
    BY <1>2 DEF add_char
  <2> HIDE DEF l
  <2>4. cursor + 1 \in 0 .. Len(l)
    BY <1>1, <2>2
  <2> QED BY <2>2, <2>3, <2>4, EditKeeps
<1>3. ASSUME NEW k \in 1 .. Len(line), Edit(RemoveAt(line, k), k - 1) PROVE LineInv'
  <2> DEFINE l == RemoveAt(line, k)
  <2>1. l \in Text /\ Len(l) = Len(line) - 1
    BY <1>1, RemoveAtOf DEF Text
  <2>2. Edit(l, k - 1)
    BY <1>3
  <2> HIDE DEF l
  <2>3. k - 1 \in 0 .. Len(l)
    BY <1>1, <2>1
  <2> QED BY <2>1, <2>2, <2>3, EditKeeps
<1>4. CASE del_char
  <2>1. DelPos + 1 \in 1 .. Len(line) /\ (DelPos + 1) - 1 = DelPos
    BY <1>1, <1>4 DEF del_char, DelPos
  <2>2. Edit(RemoveAt(line, DelPos + 1), DelPos)
    BY <1>4 DEF del_char
  <2> QED BY <1>3, <2>1, <2>2
<1>5. CASE backspace
  <2>1. cursor \in 1 .. Len(line) /\ Edit(RemoveAt(line, cursor), cursor - 1)
    BY <1>1, <1>5 DEF backspace
  <2> QED BY <1>3, <2>1
<1>6. CASE move_cur(-1) \/ move_cur(1) \/ home \/ end
  <2>1. \E c \in 0 .. Len(line) : Move(c)
    BY <1>1, <1>6 DEF move_cur, home, end
  <2> QED BY <2>1, MoveKeeps
<1> QED BY <1>2, <1>4, <1>5, <1>6

(* What a history key moves to. *)
LEMMA RecalledOf ==
    ASSUME LineInv, NEW i \in -1 .. (Len(history) - 1)
    PROVE  /\ Left \in Text /\ Recalled(i) \in Text
           /\ Len(Recalled(i)) \in Nat
<1>1. Left \in Text
  BY DEF LineInv, TypeOK, Left
<1>2. i >= 0 => history[i + 1] \in Text
  BY ElementOfSeq, LenProperties DEF LineInv, TypeOK
<1>3. Recalled(i) \in Text
  BY <1>1, <1>2 DEF Recalled
<1> QED BY <1>1, <1>3, LenProperties DEF Text

LEMMA HistKeys ==
    ASSUME LineInv, pc = "reading", NEW d \in {-1, 1}, hist_move(d)
    PROVE  LineInv'
<1> DEFINE i == index + d
<1>1. CASE i \in -1 .. (Len(history) - 1)
  <2>1. /\ original' = Left
        /\ Done(Recalled(i), Len(Recalled(i)), i, TRUE, FALSE)
    BY <1>1 DEF hist_move
  <2>2. /\ Recalled(i) \in Text /\ Left \in Text
        /\ Len(Recalled(i)) \in 0 .. Len(Recalled(i))
    BY <1>1, RecalledOf
  <2> HIDE DEF i
  <2> QED BY <1>1, <2>1, <2>2, DoneKeeps
<1>2. CASE i \notin -1 .. (Len(history) - 1)
  <2>1. cursor' = Len(line) /\ UNCHANGED <<line, histVars, copy, atexit, pc, termVars>>
    BY <1>2 DEF hist_move
  <2>2. Len(line) \in Nat
    BY LenProperties DEF LineInv, TypeOK, Text
  <2> QED BY <2>1, <2>2
      DEF LineInv, TypeOK, Bounded, HistoryKept, EntryIsLine, histVars, termVars
<1> QED BY <1>1, <1>2

(* Tab extends the line to a prefix of one of its completions. *)
LEMMA CompleteTo ==
    ASSUME LineInv, complete
    PROVE  \E w \in Completions : \E k \in Len(line) .. Len(w) :
              /\ IsPrefix(line, w) /\ SubSeq(w, 1, k) \in Text /\ Len(SubSeq(w, 1, k)) = k
              /\ Edit(SubSeq(w, 1, k), k)
<1>1. line \in Seq(Letter) /\ Matches \subseteq Seq(Letter) /\ Matches \subseteq Completions
  BY TextAssumed DEF LineInv, TypeOK, Matches, Text
<1>2. Matches # {} /\ \A w \in Matches : IsPrefix(line, w)
  BY DEF complete, Matches
<1>3. PICK w \in Matches :
        \E k \in Len(line) .. Len(w) : LongestCommonPrefix(Matches) = SubSeq(w, 1, k)
  BY <1>1, <1>2, LongestOf
<1>4. PICK k \in Len(line) .. Len(w) : LongestCommonPrefix(Matches) = SubSeq(w, 1, k)
  BY <1>3
<1>5. w \in Seq(Letter) /\ Len(w) \in Nat /\ Len(line) \in Nat
  BY <1>1, LenProperties
<1>6. \A j \in 1 .. k : w[j] \in Letter
  BY <1>4, <1>5, ElementOfSeq
<1>7. SubSeq(w, 1, k) \in Text /\ Len(SubSeq(w, 1, k)) = k
  BY <1>4, <1>5, <1>6, SubSeqProperties DEF Text
<1>8. Edit(SubSeq(w, 1, k), k)
  BY <1>4, <1>7 DEF complete
<1> QED BY <1>1, <1>2, <1>4, <1>7, <1>8

LEMMA KeyKeeps == ASSUME LineInv, Key PROVE LineInv'
<1>0. pc = "reading" /\ line \in Text /\ cursor \in 0 .. Len(line) /\ atexit \in AtExits
      /\ index \in -1 .. (Len(history) - 1) /\ original \in Text
  BY DEF Key, LineInv, TypeOK, Bounded
<1>1. CASE (\E ch \in Char : add_char(ch)) \/ del_char \/ backspace
           \/ move_cur(-1) \/ move_cur(1) \/ home \/ end
  BY <1>0, <1>1, EditKeys
<1>2. CASE hist_move(1) \/ hist_move(-1)
  BY <1>0, <1>2, HistKeys
<1>3. CASE complete
  <2>1. PICK w \in Completions : \E k \in Len(line) .. Len(w) :
              /\ SubSeq(w, 1, k) \in Text /\ Len(SubSeq(w, 1, k)) = k
              /\ Edit(SubSeq(w, 1, k), k)
    BY <1>3, CompleteTo
  <2>2. PICK k \in Len(line) .. Len(w) :
              /\ SubSeq(w, 1, k) \in Text /\ Len(SubSeq(w, 1, k)) = k
              /\ Edit(SubSeq(w, 1, k), k)
    BY <2>1
  <2>3. k \in 0 .. Len(SubSeq(w, 1, k))
    BY <2>2, <1>0, LenProperties DEF Text
  <2> QED BY <1>0, <2>2, <2>3, EditKeeps
<1>4. CASE enter
  BY <1>0, <1>4, DoneKeeps DEF enter
<1>5. CASE control_d
  <2>1. CASE atexit # NoLine /\ Done(atexit, 0, index, TRUE, TRUE) /\ UNCHANGED original
    <3>1. atexit \in Text
      BY <1>0, <2>1, TextAssumed
    <3>2. 0 \in 0 .. Len(atexit)
      BY <3>1, LenProperties DEF Text
    <3> QED BY <1>0, <2>1, <3>1, <3>2, DoneKeeps
  <2> QED BY <1>0, <1>1, <1>4, <1>5, <2>1 DEF control_d
<1>6. CASE control_c
  <2>1. <<>> \in Seq(Text)
    BY EmptySeq
  <2> QED BY <2>1, <1>6 DEF control_c, LineInv, TypeOK, Bounded, HistoryKept, EntryIsLine,
                            lineVars, histVars, termVars
<1>7. CASE hist # "on" /\ Crash
  BY <1>7 DEF Crash, LineInv, TypeOK, Bounded, HistoryKept, EntryIsLine,
              lineVars, histVars, termVars
<1> QED BY <1>1, <1>2, <1>3, <1>4, <1>5, <1>6, <1>7 DEF Key

-----------------------------------------------------------------------------
(* The calls of the program. *)
LEMMA CallKeeps == ASSUME LineInv, Call PROVE LineInv'
<1> USE DEF LineInv
<1>0. <<>> \in Text /\ <<>> \in Seq(Text) /\ Len(<<>>) = 0 /\ Len(history) \in Nat
      /\ line \in Text /\ history \in Seq(Text) /\ max \in Nat
  BY EmptySeq, LenProperties DEF Text, TypeOK
<1>1. CASE raw_input
  BY <1>0, <1>1 DEF raw_input, TypeOK, Bounded, HistoryKept, EntryIsLine
<1>2. ASSUME NEW size \in Sizes, raw_hist(TRUE, size) \/ raw_hist(FALSE, size) PROVE LineInv'
  <2>1. size + 1 \in Nat /\ size + 1 > 0
    BY TextAssumed
  <2>2. /\ pc' = "ready" /\ history' = <<>> /\ index' = -1 /\ original' = <<>>
        /\ UNCHANGED <<lineVars, copy, atexit, termVars>>
    BY <1>2 DEF raw_hist
  <2>3. (hist' = "on" /\ max' = size + 1) \/ (hist' = "freed" /\ max' = max)
    BY <1>2 DEF raw_hist
  <2>4. TypeOK'
    BY <1>0, <2>1, <2>2, <2>3 DEF TypeOK, lineVars, termVars
  <2>5. Bounded' /\ HistoryKept' /\ EntryIsLine'
    BY <1>0, <2>1, <2>2, <2>3 DEF Bounded, HistoryKept, EntryIsLine, lineVars
  <2> QED BY <2>4, <2>5
<1>3. CASE raw_hist_add
  <2>1. hist = "on" /\ max > 0
    BY <1>3 DEF raw_hist_add, HistoryKept
  <2>2. /\ Push(history, line, max) \in Seq(Text) /\ Len(Push(history, line, max)) <= max
        /\ Len(Push(history, line, max)) > 0
    BY <1>0, <2>1, PushOf DEF Bounded
  <2>3. history' = Push(history, line, max) /\ index' \in {index, 0} /\ pc' = "ready"
        /\ (index' = index => history' = history \/ index = 0)
    BY <1>3 DEF raw_hist_add
  <2>4. Len(history') \in Nat
    BY <2>2, <2>3, LenProperties
  <2> QED BY <1>0, <1>3, <2>1, <2>2, <2>3, <2>4
          DEF raw_hist_add, TypeOK, Bounded, HistoryKept, EntryIsLine, lineVars, termVars
<1>4. ASSUME NEW s \in Serials \cup {history}, raw_hist_set(s) PROVE LineInv'
  <2> DEFINE m == SerialMax(s, max)
  <2>1. s \in Seq(Text) /\ s # <<>> /\ max > 0 /\ hist = "on"
    BY <1>0, <1>4, TextAssumed DEF raw_hist_set, HistoryKept
  <2>2. Len(s) \in Nat \ {0}
    BY <2>1, EmptySeq
  <2>3. m \in Nat /\ m > 0 /\ Len(s) <= m
    BY <1>0, <2>1, <2>2 DEF SerialMax
  <2>4. max' = m /\ history' = FromSerial(s, m) /\ pc' = "ready"
        /\ index' = IF LastAdded(s) THEN 0 ELSE -1
    BY <1>4 DEF raw_hist_set
  <2> HIDE DEF m
  <2>5. history' \in Seq(Text) /\ ReadBack(s, Len(s), history')
    BY <2>1, <2>3, <2>4, FromSerialOf
  <2>6. /\ Len(history') \in Nat /\ Len(history') <= m
        /\ LastAdded(s) => Len(history') > 0
    BY <2>2, <2>3, <2>5, LenProperties DEF ReadBack, LastAdded, Pieces
  <2> QED BY <1>0, <1>4, <2>1, <2>3, <2>4, <2>5, <2>6
          DEF raw_hist_set, TypeOK, Bounded, HistoryKept, EntryIsLine, lineVars, termVars
<1>5. CASE raw_hist_set_buffer
  BY <1>5 DEF raw_hist_set_buffer, TypeOK, Bounded, HistoryKept, EntryIsLine,
              lineVars, histVars, termVars
<1> QED BY <1>1, <1>2, <1>3, <1>4, <1>5 DEF Call

LEMMA LineAlways == Spec => []LineInv
<1>1. LineInv /\ [Next]_vars => LineInv'
  <2>1. ASSUME LineInv, UNCHANGED vars PROVE LineInv'
    BY <2>1 DEF vars, lineVars, histVars, termVars, LineInv, TypeOK, Bounded, HistoryKept,
                EntryIsLine
  <2> QED BY <2>1, KeyKeeps, CallKeeps DEF Next
<1> QED BY InitLine, <1>1, PTL DEF Spec

(* Whatever is typed, erased, recalled, completed and given as history, the *)
(* cursor stays in the line and the place in the history, which never grows *)
(* beyond its size: no memcpy of _raw_add_char or _raw_del_char and no use  *)
(* of history[index] leaves what was allocated.                             *)
THEOREM LineBounds == Spec => []InBounds
<1>1. LineInv => InBounds
  BY DEF LineInv, Bounded, InBounds
<1> QED BY <1>1, LineAlways, PTL

(* An edited history entry is found as it was left: in every round the      *)
(* entry of the place shown is the line (raw_input's note in the history).  *)
THEOREM EntriesNoted == Spec => []EntryIsLine
<1>1. LineInv => EntryIsLine
  BY DEF LineInv
<1> QED BY <1>1, LineAlways, PTL

-----------------------------------------------------------------------------
(* MCRawLine only adds a record of refused history keys. *)
LEMMA Recorded == MCSpec => Spec
<1>1. MCInit => Init
  BY DEF MCInit
<1>2. [MCNext]_<<vars, astray>> => [Next]_vars
  BY DEF MCNext
<1> QED BY <1>1, <1>2, PTL DEF MCSpec, Spec

(* A redraw that starts from a terminal line that is right leaves one. *)
LEMMA DoneShows ==
    ASSUME LineInv, text = line, column = cursor,
           NEW l \in Text, NEW c, NEW i, NEW change \in BOOLEAN, NEW leave,
           change \/ l = line, Done(l, c, i, change, leave), c \in Int
    PROVE  text' = line' /\ column' = cursor'
<1>1. Start = 0
  BY DEF Start, LineInv, TypeOK
<1>2. Prefix(text, 0) \o l = l
  <2>1. text \in Seq(Letter) /\ Len(text) \in Nat
    BY LenProperties DEF LineInv, TypeOK, Text
  <2>2. Prefix(text, 0) = <<>>
    BY <2>1, SubSeqEmpty DEF Prefix, LineMin
  <2> QED BY <2>2, ConcatEmptySeq DEF Text
<1>3. line' = l /\ cursor' = c /\ Redraw(l, c, change)
  BY DEF Done
<1>4. column' = Start + c /\ text' = IF change THEN Prefix(text, Start) \o l ELSE text
  BY <1>3 DEF Redraw
<1>5. column' = c
  BY <1>1, <1>4
<1>6. Prefix(text, Start) \o l = l
  BY <1>1, <1>2
<1>7. text' = IF change THEN l ELSE text
  BY <1>4, <1>6
<1> QED BY <1>3, <1>5, <1>7

LEMMA KeyShows ==
    ASSUME LineInv, ScreenShowsLine, Key, pc' = "reading"
    PROVE  ScreenShowsLine' \/ Unseen
<1>0. pc = "reading" /\ text = line /\ column = cursor /\ atexit \in AtExits
      /\ line \in Text /\ cursor \in Int /\ Len(line) \in Int
      /\ index \in -1 .. (Len(history) - 1)
  BY LenProperties DEF Key, ScreenShowsLine, LineInv, TypeOK, Bounded, Text
<1>1. ASSUME NEW l \in Text, NEW c \in Int, NEW i, Done(l, c, i, TRUE, FALSE)
      PROVE  ScreenShowsLine'
  BY <1>0, <1>1, DoneShows DEF ScreenShowsLine
<1>11. ASSUME NEW l \in Text, NEW c \in Int, Edit(l, c) PROVE ScreenShowsLine'
  <2>1. Done(l, c, index, TRUE, FALSE)
    BY <1>11 DEF Edit
  <2> QED BY <1>1, <2>1
<1>2. ASSUME NEW c \in Int, Move(c) PROVE ScreenShowsLine'
  BY <1>0, <1>2, DoneShows DEF ScreenShowsLine, Move
<1>3. ASSUME NEW ch \in Char, add_char(ch) PROVE ScreenShowsLine'
  <2>1. InsertAt(line, cursor + 1, ch) \in Text
    <3>1. cursor + 1 \in 1 .. Len(line) + 1 /\ ch \in Letter
      BY <1>0, TextAssumed DEF LineInv, Bounded
    <3> QED BY <1>0, <3>1, InsertAtOf DEF Text
  <2>2. Edit(InsertAt(line, cursor + 1, ch), cursor + 1) /\ cursor + 1 \in Int
    BY <1>0, <1>3 DEF add_char
  <2> QED BY <1>11, <2>1, <2>2
<1>4. CASE del_char \/ backspace
  <2>1. PICK k \in 1 .. Len(line) : Edit(RemoveAt(line, k), k - 1)
    <3>1. cursor \in 0 .. Len(line) /\ (line # <<>> => Len(line) > 0)
      BY <1>0, EmptySeq DEF LineInv, Bounded, Text
    <3>2. CASE del_char
      <4>1. DelPos + 1 \in 1 .. Len(line) /\ (DelPos + 1) - 1 = DelPos
        BY <1>0, <3>1, <3>2 DEF del_char, DelPos
      <4>2. Edit(RemoveAt(line, DelPos + 1), DelPos)
        BY <3>2 DEF del_char
      <4> QED BY <4>1, <4>2
    <3>3. CASE backspace
      BY <3>1, <1>0, <3>3 DEF backspace
    <3> QED BY <1>4, <3>2, <3>3
  <2>2. RemoveAt(line, k) \in Text
    BY <1>0, RemoveAtOf DEF Text
  <2>3. k - 1 \in Int
    OBVIOUS
  <2> QED BY <1>11, <2>1, <2>2, <2>3
<1>5. CASE move_cur(-1) \/ move_cur(1) \/ home \/ end
  BY <1>0, <1>2, <1>5 DEF move_cur, home, end
<1>6. ASSUME NEW d \in {-1, 1}, hist_move(d) PROVE ScreenShowsLine' \/ Unseen
  <2> DEFINE i == index + d
  <2>1. CASE i \in -1 .. (Len(history) - 1)
    <3>1. Done(Recalled(i), Len(Recalled(i)), i, TRUE, FALSE)
      BY <1>6, <2>1 DEF hist_move
    <3>2. Recalled(i) \in Text /\ Len(Recalled(i)) \in Int
      BY <2>1, RecalledOf
    <3> QED BY <1>1, <3>1, <3>2
  <2>2. CASE i \notin -1 .. (Len(history) - 1)
    BY <1>0, <1>6, <2>2 DEF hist_move, Unseen, ScreenShowsLine, termVars
  <2> QED BY <2>1, <2>2
<1>7. CASE complete
  <2>1. PICK w \in Completions : \E k \in Len(line) .. Len(w) :
              SubSeq(w, 1, k) \in Text /\ Edit(SubSeq(w, 1, k), k)
    BY <1>7, CompleteTo
  <2>2. PICK k \in Len(line) .. Len(w) :
              SubSeq(w, 1, k) \in Text /\ Edit(SubSeq(w, 1, k), k)
    BY <2>1
  <2>3. k \in Int
    OBVIOUS
  <2> QED BY <1>11, <2>2, <2>3
<1>8. ASSUME NEW l, NEW c, Done(l, c, index, TRUE, TRUE) PROVE FALSE
  BY <1>8 DEF Done, Leave
<1>9. CASE control_d \/ enter
  BY <1>4, <1>8, <1>9 DEF control_d, enter
<1>10. ~control_c /\ ~Crash
  BY DEF control_c, Crash
<1> QED BY <1>3, <1>4, <1>5, <1>6, <1>7, <1>9, <1>10 DEF Key

(* Until a history key is refused, and in every input begun after that, the *)
(* terminal shows the line and the cursor, whatever was typed, erased,      *)
(* recalled or completed (_raw_redraw).                                     *)
THEOREM LineShown == MCSpec => []ShownUnlessAstray
<1>1. MCInit => ShownUnlessAstray
  BY DEF MCInit, Init, ShownUnlessAstray, ScreenShowsLine
<1>2. LineInv /\ ShownUnlessAstray /\ [MCNext]_<<vars, astray>> => ShownUnlessAstray'
  <2> SUFFICES ASSUME LineInv, ShownUnlessAstray, [MCNext]_<<vars, astray>>,
                      pc' = "reading", ~astray'
               PROVE  ScreenShowsLine'
    BY DEF ShownUnlessAstray, ScreenShowsLine
  <2>1. CASE UNCHANGED <<vars, astray>>
    BY <2>1 DEF vars, lineVars, termVars, ShownUnlessAstray, ScreenShowsLine
  <2>2. CASE MCNext
    <3>1. ~astray /\ ScreenShowsLine /\ ~(pc = "reading" /\ Unseen)
      BY <2>2 DEF MCNext, ShownUnlessAstray
    <3>2. CASE Key
      BY <3>1, <3>2, KeyShows DEF Key
    <3>3. CASE Call
      <4>1. raw_input
        BY <3>3 DEF Call, raw_hist, raw_hist_add, raw_hist_set, raw_hist_set_buffer
      <4> QED BY <4>1 DEF raw_input, ScreenShowsLine
    <3> QED BY <2>2, <3>2, <3>3 DEF MCNext, Next
  <2> QED BY <2>1, <2>2
<1>3. MCSpec => []LineInv
  BY Recorded, LineAlways, PTL
<1> QED BY <1>1, <1>2, <1>3, PTL DEF MCSpec

-----------------------------------------------------------------------------
(* The line editor is the column of lines of LineEditor: while an input is  *)
(* read, place is the history around the line, and the line is the entry at *)
(* the place that is edited.                                                *)
Column == [i \in Places |-> Entry(i)]

LEMMA ColumnOf ==
    ASSUME LineInv, pc = "reading"
    PROVE  /\ Reading /\ Places = -1 .. (Len(history) - 1) /\ index \in Places
           /\ Entry(index) = line /\ Editor!Here = line
           /\ Len(history) \in Nat /\ line \in Text
<1>1. Reading /\ Len(history) \in Nat /\ line \in Text
  BY LenProperties DEF Reading, LineInv, TypeOK
<1>2. Places = -1 .. (Len(history) - 1)
  <2>1. hist # "on" => Len(history) = 0
    BY EmptySeq DEF LineInv, HistoryKept
  <2>2. -1 .. (0 - 1) = {-1}
    OBVIOUS
  <2> QED BY <2>1, <2>2 DEF Places
<1>3. index \in Places
  BY <1>2 DEF LineInv, Bounded
<1>4. Entry(index) = line
  <2>1. index >= 0 => hist = "on"
    BY <1>1, EmptySeq DEF LineInv, HistoryKept, Bounded
  <2> QED BY <1>3, <2>1 DEF Entry, LineInv, EntryIsLine, Bounded
<1>5. Editor!Here = line
  BY <1>1, <1>3, <1>4 DEF Editor!Here
<1> QED BY <1>1, <1>2, <1>3, <1>4, <1>5

(* What no key but enter and control-C changes. *)
Framed == /\ pc' = "reading" /\ Reading' /\ Places' = Places
          /\ UNCHANGED <<hist, copy, max>>
          /\ hist # "on" => history' = history

(* The note of a round: every entry but the one at the place stays. *)
LEMMA NotedOf ==
    ASSUME LineInv, pc = "reading", NEW l \in Text, NEW c, NEW i \in Places,
           NEW change, Done(l, c, i, change, FALSE)
    PROVE  /\ Framed /\ line' = l /\ cursor' = c /\ index' = i
           /\ \A j \in Places : j >= 0 =>
                history'[j + 1] = IF j = i THEN l ELSE history[j + 1]
<1>1. /\ line' = l /\ cursor' = c /\ index' = i /\ history' = Noted(l, i)
      /\ pc' = "reading" /\ UNCHANGED <<hist, copy, max>>
  BY DEF Done
<1>2. history \in Seq(Text) /\ Len(history) \in Nat /\ Places = -1 .. (Len(history) - 1)
  BY ColumnOf DEF LineInv, TypeOK
<1>3. /\ Len(history') = Len(history)
      /\ \A j \in Places : j >= 0 => history'[j + 1] = IF j = i THEN l ELSE history[j + 1]
  <2>1. CASE i >= 0
    <3>1. i + 1 \in 1 .. Len(history) /\ history' = [history EXCEPT ![i + 1] = l]
      BY <1>1, <1>2, <2>1 DEF Noted
    <3>2. /\ Len(history') = Len(history)
          /\ \A k \in 1 .. Len(history) : history'[k] = IF k = i + 1 THEN l ELSE history[k]
      BY <1>2, <3>1, ExceptSeq
    <3>3. \A j \in Places : j >= 0 => j + 1 \in 1 .. Len(history) /\ (j + 1 = i + 1 <=> j = i)
      BY <1>2
    <3> QED BY <3>2, <3>3
  <2>2. CASE ~(i >= 0)
    BY <1>1, <1>2, <2>2 DEF Noted
  <2> QED BY <2>1, <2>2
<1>4. hist # "on" => history' = history
  <2>1. hist # "on" => Len(history) = 0
    BY EmptySeq DEF LineInv, HistoryKept
  <2> QED BY <1>1, <1>2, <2>1 DEF Noted
<1>5. Places' = Places
  BY <1>1, <1>3 DEF Places
<1>6. Reading'
  BY <1>1 DEF Reading
<1> QED BY <1>1, <1>3, <1>4, <1>5, <1>6 DEF Framed

LEMMA Writes ==
    ASSUME LineInv, pc = "reading", NEW l \in Text, NEW c, NEW change,
           Done(l, c, index, change, FALSE), UNCHANGED original
    PROVE  Editor!Write(l, c) /\ Framed
<1>1. /\ Reading /\ index \in Places /\ Places = -1 .. (Len(history) - 1)
      /\ Len(history) \in Nat
  BY ColumnOf
<1>2. /\ Framed /\ line' = l /\ cursor' = c /\ index' = index
      /\ \A j \in Places : j >= 0 =>
            history'[j + 1] = IF j = index THEN l ELSE history[j + 1]
  BY <1>1, NotedOf
<1>3. \A j \in Places : Entry(j)' = IF j = index THEN l ELSE Entry(j)
  <2> SUFFICES ASSUME NEW j \in Places PROVE Entry(j)' = IF j = index THEN l ELSE Entry(j)
    OBVIOUS
  <2>1. CASE j >= 0
    BY <1>2, <2>1 DEF Entry
  <2>2. CASE ~(j >= 0)
    <3>1. j = -1 /\ (index < 0 <=> j = index)
      BY <1>1, <2>2
    <3> QED BY <1>2, <2>2, <3>1 DEF Entry
  <2> QED BY <2>1, <2>2
<1>4. Column' = [Column EXCEPT ![index] = l]
  <2>1. Column' = [j \in Places |-> IF j = index THEN l ELSE Entry(j)]
    BY <1>2, <1>3 DEF Column, Framed
  <2> QED BY <2>1 DEF Column
<1> QED BY <1>1, <1>2, <1>4 DEF Editor!Write, Column, Framed

(* A key that writes, moves or recalls is an Edit of the column. *)
EditorEdits ==
    \/ \E ch \in Char : Editor!Type(ch)
    \/ Editor!Erase(IF Reading THEN cursor ELSE 0)
    \/ Editor!Erase((IF Reading THEN cursor ELSE 0) + 1)
    \/ \E c \in 0 .. Len(Editor!Here) : Editor!Go(c)
    \/ \E w \in Completions : \E k \in Len(Editor!Here) .. Len(w) : Editor!Extend(w, k)
    \/ Editor!Recall((IF Reading THEN index ELSE -1) - 1)
    \/ Editor!Recall((IF Reading THEN index ELSE -1) + 1)

LEMMA EditNext ==
    ASSUME LineInv, pc = "reading", Framed, EditorEdits
    PROVE  Editor!Next
<1>1. Reading /\ pc' # "answered"
  BY ColumnOf DEF Framed
<1>2. /\ (IF Reading /\ hist = "on" THEN copy ELSE history)'
            = (IF Reading /\ hist = "on" THEN copy ELSE history)
      /\ max' = max /\ Reading' = Reading
      /\ (IF pc = "answered" THEN {line} ELSE {})' = (IF pc = "answered" THEN {line} ELSE {})
  BY <1>1, Zenon DEF Framed
<1>3. Editor!Edit
  BY <1>1, <1>2 DEF Editor!Edit, EditorEdits
<1> QED BY <1>3 DEF Editor!Next

LEMMA EditKeysWrite ==
    ASSUME LineInv, pc = "reading",
           \/ \E ch \in Char : add_char(ch)
           \/ del_char \/ backspace \/ move_cur(-1) \/ move_cur(1) \/ home \/ end
    PROVE  Framed /\ EditorEdits
<1>1. /\ Reading /\ line \in Text /\ Editor!Here = line /\ Len(line) \in Nat
      /\ cursor \in 0 .. Len(line) /\ (line # <<>> => Len(line) > 0)
  BY ColumnOf, LenProperties, EmptySeq DEF LineInv, TypeOK, Bounded, Text
<1>2. ASSUME NEW l \in Text, NEW c, Edit(l, c) PROVE Editor!Write(l, c) /\ Framed
  <2>1. Done(l, c, index, TRUE, FALSE) /\ UNCHANGED original
    BY <1>2 DEF Edit
  <2> QED BY <2>1, Writes
<1>3. ASSUME NEW ch \in Char, add_char(ch) PROVE Framed /\ EditorEdits
  <2> DEFINE l == InsertAt(line, cursor + 1, ch)
  <2>1. l \in Text
    <3>1. cursor + 1 \in 1 .. Len(line) + 1 /\ ch \in Letter
      BY <1>1, TextAssumed
    <3> QED BY <1>1, <3>1, InsertAtOf DEF Text
  <2>2. Edit(l, cursor + 1)
    BY <1>3 DEF add_char
  <2>3. Editor!Write(l, cursor + 1) /\ Framed
    <3> HIDE DEF l
    <3> QED BY <2>1, <2>2, <1>2
  <2>4. Editor!Type(ch)
    <3>1. Editor!InsertAt(line, cursor + 1, ch) = l
      BY DEF Editor!InsertAt, InsertAt
    <3> HIDE DEF l
    <3> QED BY <1>1, <2>3, <3>1 DEF Editor!Type
  <2> QED BY <2>3, <2>4 DEF EditorEdits
<1>4. ASSUME NEW k \in 1 .. Len(line), k = cursor \/ k = cursor + 1,
             Edit(RemoveAt(line, k), k - 1)
      PROVE  Framed /\ EditorEdits
  <2>1. RemoveAt(line, k) \in Text
    BY <1>1, RemoveAtOf DEF Text
  <2>2. Editor!Write(RemoveAt(line, k), k - 1) /\ Framed
    BY <1>2, <1>4, <2>1
  <2>3. Editor!Erase(k)
    <3>1. Editor!RemoveAt(line, k) = RemoveAt(line, k)
      BY DEF Editor!RemoveAt, RemoveAt
    <3> QED BY <1>1, <2>2, <3>1 DEF Editor!Erase
  <2>4. Editor!Erase(cursor) \/ Editor!Erase(cursor + 1)
    BY <1>4, <2>3
  <2> QED BY <1>1, <2>2, <2>4 DEF EditorEdits
<1>5. CASE del_char
  <2>1. /\ DelPos + 1 \in 1 .. Len(line) /\ (DelPos + 1) - 1 = DelPos
        /\ DelPos + 1 = cursor \/ DelPos + 1 = cursor + 1
    BY <1>1, <1>5 DEF del_char, DelPos
  <2>2. Edit(RemoveAt(line, DelPos + 1), DelPos)
    BY <1>5 DEF del_char
  <2> QED BY <1>4, <2>1, <2>2
<1>6. CASE backspace
  <2>1. cursor \in 1 .. Len(line) /\ Edit(RemoveAt(line, cursor), cursor - 1)
    BY <1>1, <1>6 DEF backspace
  <2> QED BY <1>4, <2>1
<1>7. ASSUME NEW c \in 0 .. Len(line), Move(c) PROVE Framed /\ EditorEdits
  <2>1. Done(line, c, index, FALSE, FALSE) /\ UNCHANGED original
    BY <1>7 DEF Move
  <2>2. Editor!Write(line, c) /\ Framed
    BY <1>1, <2>1, Writes
  <2>3. Editor!Go(c)
    BY <1>1, <2>2 DEF Editor!Go
  <2> QED BY <1>1, <2>2, <2>3 DEF EditorEdits
<1>8. CASE move_cur(-1) \/ move_cur(1) \/ home \/ end
  <2>1. \E c \in 0 .. Len(line) : Move(c)
    BY <1>1, <1>8 DEF move_cur, home, end
  <2> QED BY <2>1, <1>7
<1> QED BY <1>3, <1>5, <1>6, <1>8

(* Up and down: the place changes and every line stays as it was left. *)
LEMMA HistKeysRecall ==
    ASSUME LineInv, pc = "reading", NEW d \in {-1, 1}, hist_move(d)
    PROVE  Framed /\ EditorEdits
<1> DEFINE i == index + d
<1>0. /\ Reading /\ index \in Places /\ Places = -1 .. (Len(history) - 1)
      /\ Len(history) \in Nat /\ Entry(index) = line /\ Editor!Here = line
      /\ hist = "on" /\ Len(line) \in Nat
  BY ColumnOf, LenProperties DEF hist_move, Text
<1>1. CASE i \in -1 .. (Len(history) - 1)
  <2>1. /\ original' = Left
        /\ Done(Recalled(i), Len(Recalled(i)), i, TRUE, FALSE)
    BY <1>1 DEF hist_move
  <2>2. Recalled(i) \in Text
    BY <1>1, RecalledOf
  <2>3. i \in Int /\ i \in Places
    BY <1>0, <1>1
  <2>4. Recalled(i) = Entry(i)
    BY <2>3 DEF Recalled, Entry, Left
  <2> HIDE DEF i
  <2>5. /\ Framed /\ line' = Recalled(i) /\ cursor' = Len(Recalled(i)) /\ index' = i
        /\ \A j \in Places : j >= 0 =>
              history'[j + 1] = IF j = i THEN Recalled(i) ELSE history[j + 1]
    BY <2>1, <2>2, <2>3, NotedOf
  <2>6. \A j \in Places : Entry(j)' = Entry(j)
    <3> SUFFICES ASSUME NEW j \in Places PROVE Entry(j)' = Entry(j)
      OBVIOUS
    <3>1. CASE j >= 0
      BY <2>4, <2>5, <3>1 DEF Entry
    <3>2. CASE ~(j >= 0)
      <4>1. Entry(j)' = IF i < 0 THEN Recalled(i) ELSE Left
        BY <2>1, <2>5, <3>2 DEF Entry
      <4>2. Entry(j) = Left
        BY <3>2 DEF Entry, Left
      <4>3. i < 0 => Recalled(i) = Left
        BY DEF Recalled
      <4> QED BY <4>1, <4>2, <4>3
    <3> QED BY <3>1, <3>2
  <2>7. Column' = Column
    BY <2>5, <2>6 DEF Column, Framed
  <2>8. Editor!Recall(i)
    BY <1>0, <2>3, <2>4, <2>5, <2>7 DEF Editor!Recall, Column, Framed
  <2>9. i = index - 1 \/ i = index + 1
    BY <1>0 DEF i
  <2> QED BY <1>0, <2>5, <2>8, <2>9 DEF EditorEdits
<1>2. CASE i \notin -1 .. (Len(history) - 1)
  <2>1. cursor' = Len(line) /\ UNCHANGED <<line, histVars, copy, atexit, pc, termVars>>
    BY <1>2 DEF hist_move
  <2>2. Places' = Places /\ Framed
    BY <1>0, <2>1 DEF Framed, Reading, Places, histVars
  <2>3. \A j \in Places : Entry(j)' = Entry(j)
    BY <2>1 DEF Entry, histVars
  <2>4. Column' = [Column EXCEPT ![index] = line]
    BY <1>0, <2>2, <2>3 DEF Column
  <2>5. Editor!Go(Len(line))
    BY <1>0, <2>1, <2>2, <2>4 DEF Editor!Go, Editor!Write, Column, Framed, histVars
  <2> QED BY <1>0, <2>2, <2>5 DEF EditorEdits
<1> QED BY <1>1, <1>2

LEMMA CompleteExtends ==
    ASSUME LineInv, pc = "reading", complete
    PROVE  Framed /\ EditorEdits
<1>0. Reading /\ Editor!Here = line
  BY ColumnOf
<1>1. PICK w \in Completions : \E k \in Len(line) .. Len(w) :
              /\ IsPrefix(line, w) /\ SubSeq(w, 1, k) \in Text /\ Len(SubSeq(w, 1, k)) = k
              /\ Edit(SubSeq(w, 1, k), k)
  BY CompleteTo
<1>2. PICK k \in Len(line) .. Len(w) :
              /\ IsPrefix(line, w) /\ SubSeq(w, 1, k) \in Text /\ Len(SubSeq(w, 1, k)) = k
              /\ Edit(SubSeq(w, 1, k), k)
  BY <1>1
<1>3. Done(SubSeq(w, 1, k), k, index, TRUE, FALSE) /\ UNCHANGED original
  BY <1>2 DEF Edit
<1>4. Editor!Write(SubSeq(w, 1, k), k) /\ Framed
  BY <1>2, <1>3, Writes
<1>5. Editor!Extend(w, k)
  <2>1. Editor!IsPrefix(line, w)
    BY <1>2 DEF Editor!IsPrefix, IsPrefix
  <2> QED BY <1>0, <1>2, <1>4, <2>1 DEF Editor!Extend
<1> QED BY <1>0, <1>4, <1>5 DEF EditorEdits

(* What the column looks like between inputs, and what is kept then. *)
Kept == IF Reading /\ hist = "on" THEN copy ELSE history

LEMMA Resting ==
    ASSUME pc' \in {"ready", "answered", "undefined"}
    PROVE  /\ Editor!Idle /\ ~Reading' /\ Kept' = history'
           /\ (IF pc = "answered" THEN {line} ELSE {})'
                 = IF pc' = "answered" THEN {line'} ELSE {}
<1>1. ~Reading'
  BY DEF Reading
<1>2. Kept' = history'
  BY <1>1, Zenon DEF Kept
<1>3. Editor!Idle
  BY <1>1 DEF Editor!Idle, Editor!Blank
<1> QED BY <1>1, <1>2, <1>3

(* Enter and control-D give a line to the program and the history its copy. *)
LEMMA AnswerGives ==
    ASSUME LineInv, pc = "reading", NEW l \in {line} \cup (AtExits \ {NoLine}), NEW c,
           Done(l, c, index, TRUE, TRUE)
    PROVE  Editor!Next
<1>1. Reading /\ Editor!Here = line
  BY ColumnOf
<1>2. pc' = "answered" /\ line' = l /\ max' = max
      /\ history' = IF hist = "on" THEN copy ELSE history
  BY DEF Done, Leave
<1>3. Editor!Idle /\ ~Reading' /\ Kept' = Kept
      /\ (IF pc = "answered" THEN {line} ELSE {})' = {l}
  BY <1>1, <1>2, Resting DEF Kept
<1>4. Editor!Answer
  BY <1>1, <1>2, <1>3 DEF Editor!Answer, Kept
<1> QED BY <1>4 DEF Editor!Next

(* Control-C leaves the recalled entries as they were edited. *)
LEMMA BreakOffKeeps ==
    ASSUME LineInv, pc = "reading", control_c
    PROVE  Editor!Next
<1>1. /\ Reading /\ Places = -1 .. (Len(history) - 1) /\ history \in Seq(Text)
      /\ Len(history) \in Nat
  BY ColumnOf DEF LineInv, TypeOK
<1>2. pc' = "ready" /\ UNCHANGED <<histVars, lineVars>>
  BY DEF control_c
<1>3. Editor!Idle /\ ~Reading' /\ Kept' = history /\ max' = max
      /\ (IF pc = "answered" THEN {line} ELSE {})' = {}
  BY <1>2, Resting DEF histVars
<1>4. Len(Kept) = Len(history)
  BY <1>1 DEF Kept, LineInv, HistoryKept
<1>5. history = [k \in 1 .. Len(Kept) |-> Column[k - 1]]
  <2>1. \A k \in 1 .. Len(history) : k - 1 \in Places /\ k - 1 >= 0 /\ (k - 1) + 1 = k
    BY <1>1
  <2>2. \A k \in 1 .. Len(history) : Column[k - 1] = history[k]
    BY <2>1 DEF Column, Entry
  <2>3. history = [k \in 1 .. Len(history) |-> history[k]]
    BY <1>1, LenProperties
  <2> QED BY <1>4, <2>2, <2>3
<1>6. Editor!BreakOff
  BY <1>1, <1>3, <1>5 DEF Editor!BreakOff, Kept, Column
<1> QED BY <1>6 DEF Editor!Next

LEMMA KeyImplements ==
    ASSUME LineInv, Key
    PROVE  [Editor!Next]_Editor!vars
<1>0. pc = "reading"
  BY DEF Key
<1>1. CASE \/ \E ch \in Char : add_char(ch)
           \/ del_char \/ backspace \/ move_cur(-1) \/ move_cur(1) \/ home \/ end
  BY <1>0, <1>1, EditKeysWrite, EditNext
<1>2. CASE hist_move(1) \/ hist_move(-1)
  BY <1>0, <1>2, HistKeysRecall, EditNext
<1>3. CASE complete
  BY <1>0, <1>3, CompleteExtends, EditNext
<1>4. CASE enter
  BY <1>0, <1>4, AnswerGives DEF enter
<1>5. CASE control_d
  <2>1. CASE atexit # NoLine /\ Done(atexit, 0, index, TRUE, TRUE)
    <3>1. atexit \in AtExits \ {NoLine}
      BY <2>1 DEF LineInv, TypeOK
    <3> QED BY <1>0, <2>1, <3>1, AnswerGives
  <2>2. CASE del_char
    BY <1>1, <2>2
  <2>3. CASE enter
    BY <1>4, <2>3
  <2> QED BY <1>5, <2>1, <2>2, <2>3 DEF control_d
<1>6. CASE control_c
  BY <1>0, <1>6, BreakOffKeeps
<1>7. CASE Crash
  <2>1. /\ Reading' /\ Reading /\ pc # "answered" /\ pc' # "answered"
        /\ UNCHANGED <<line, cursor, hist, history, max, index, original, copy>>
    BY <1>0, <1>7 DEF Crash, Reading, lineVars, histVars
  <2>2. UNCHANGED <<Column, Kept>>
    BY <2>1 DEF Column, Kept, Places, Entry
  <2> QED BY <2>1, <2>2, Zenon DEF Editor!vars, Column, Kept
<1> QED BY <1>1, <1>2, <1>3, <1>4, <1>5, <1>6, <1>7 DEF Key

(* The calls of the program between two inputs. *)
LEMMA CallImplements ==
    ASSUME LineInv, Call
    PROVE  Editor!Next
<1>0. /\ pc \in {"ready", "answered"} /\ ~Reading /\ Kept = history
      /\ history \in Seq(Text) /\ Len(history) \in Nat /\ line \in Text /\ max \in Nat
  BY LenProperties DEF Call, raw_input, raw_hist, raw_hist_add, raw_hist_set,
                       raw_hist_set_buffer, Idle, Reading, Kept, LineInv, TypeOK
<1>1. CASE raw_input
  <2>1. /\ Reading' /\ pc' = "reading" /\ line' = <<>> /\ cursor' = 0
        /\ UNCHANGED <<hist, history, max>>
        /\ IF hist = "on" THEN index' = -1 /\ copy' = history ELSE UNCHANGED index
    BY <1>1 DEF raw_input, Reading
  <2>2. hist # "on" => index = -1 /\ Len(history) = 0
    <3>1. hist # "on" => Len(history) = 0
      BY EmptySeq DEF LineInv, HistoryKept
    <3> QED BY <3>1 DEF LineInv, Bounded
  <2>3. index' = -1 /\ Kept' = history
    BY <2>1, <2>2 DEF Kept
  <2>4. Places' = -1 .. (Len(history) - 1)
    <3>1. -1 .. (0 - 1) = {-1}
      OBVIOUS
    <3> QED BY <2>1, <2>2, <3>1 DEF Places
  <2>5. \A i \in Places' : Entry(i)' = IF i = -1 THEN <<>> ELSE history[i + 1]
    <3>1. \A i \in Places' : i >= 0 <=> i # -1
      BY <1>0, <2>4
    <3> QED BY <2>1, <2>3, <3>1 DEF Entry
  <2>6. Column' = [i \in -1 .. (Len(Kept) - 1) |-> IF i = -1 THEN <<>> ELSE Kept[i + 1]]
    BY <1>0, <2>4, <2>5 DEF Column
  <2>7. (IF pc = "answered" THEN {line} ELSE {})' = {}
    BY <2>1
  <2>8. Editor!Begin
    BY <1>0, <2>1, <2>3, <2>6, <2>7 DEF Editor!Begin, Column, Kept
  <2> QED BY <2>8 DEF Editor!Next
<1>2. ASSUME pc' \in {"ready", "undefined"}
      PROVE  /\ ~Reading' /\ Kept' = history'
             /\ (IF pc = "answered" THEN {line} ELSE {})' = {}
             /\ UNCHANGED <<IF Reading THEN [i \in Places |-> Entry(i)] ELSE [i \in {-1} |-> <<>>],
                            IF Reading THEN index ELSE -1, IF Reading THEN cursor ELSE 0,
                            Reading>>
  <2>1. ~Reading' /\ Kept' = history' /\ (IF pc = "answered" THEN {line} ELSE {})' = {}
    BY <1>2, Resting
  <2>2. /\ (IF Reading THEN [i \in Places |-> Entry(i)] ELSE [i \in {-1} |-> <<>>])'
              = (IF Reading THEN [i \in Places |-> Entry(i)] ELSE [i \in {-1} |-> <<>>])
        /\ (IF Reading THEN index ELSE -1)' = (IF Reading THEN index ELSE -1)
        /\ (IF Reading THEN cursor ELSE 0)' = (IF Reading THEN cursor ELSE 0)
    BY <1>0, <2>1, Zenon
  <2>3. Reading' = Reading
    BY <1>0, <2>1 DEF Reading
  <2> QED BY <2>1, <2>2, <2>3
<1>3. ASSUME NEW size \in Sizes, raw_hist(TRUE, size) \/ raw_hist(FALSE, size)
      PROVE  Editor!Next
  <2>1. pc' = "ready" /\ history' = <<>> /\ max' \in Nat
    BY <1>0, <1>3, TextAssumed DEF raw_hist
  <2>2. Editor!Forget
    BY <1>0, <1>2, <2>1 DEF Editor!Forget, Kept
  <2> QED BY <2>2 DEF Editor!Next
<1>4. CASE raw_hist_add
  <2>1. /\ pc = "answered" /\ pc' = "ready" /\ history' = Push(history, line, max)
        /\ max' = max
    BY <1>4 DEF raw_hist_add
  <2>2. history' = IF history # <<>> /\ history[1] = line THEN history
                   ELSE [i \in 1 .. (IF Len(history) < max THEN Len(history) + 1 ELSE max)
                            |-> IF i = 1 THEN line ELSE history[i - 1]]
    BY <1>0, <2>1, PushOf DEF LineInv, Bounded
  <2>3. Editor!Add(line)
    BY <1>0, <1>2, <2>1, <2>2 DEF Editor!Add, Kept
  <2> QED BY <2>1, <2>3 DEF Editor!Next
<1>5. ASSUME NEW s \in Serials \cup {history}, raw_hist_set(s) PROVE Editor!Next
  <2> DEFINE m == SerialMax(s, max)
  <2>1. pc' = "ready" /\ max' = m /\ history' = FromSerial(s, m) /\ s # <<>>
    BY <1>5 DEF raw_hist_set
  <2>2. s \in Seq(Text) /\ max > 0
    BY <1>0, <1>5, TextAssumed DEF raw_hist_set, LineInv, HistoryKept
  <2>3. Len(s) \in Nat /\ Len(s) > 0
    BY <2>1, <2>2, EmptySeq, LenProperties
  <2>4. m \in Nat /\ Len(s) <= m /\ m = IF Len(s) > max THEN Len(s) ELSE max
    BY <1>0, <2>2, <2>3 DEF SerialMax
  <2>5. s \in Seq(ToSet(s)) /\ DOMAIN s = 1 .. Len(s) /\ Editor!ToSet(s) = ToSet(s)
    BY <2>2, <2>3, LenProperties DEF ToSet, Editor!ToSet
  <2> HIDE DEF m
  <2>6. /\ history' \in Seq(ToSet(s)) /\ ReadBack(s, Len(s), history')
        /\ Len(history') \in Nat /\ DOMAIN history' = 1 .. Len(history')
        /\ Len(history') <= m
    <3>1. FromSerial(s, m) \in Seq(ToSet(s)) /\ ReadBack(s, Len(s), FromSerial(s, m))
      BY <2>4, <2>5, FromSerialOf
    <3>2. /\ history' \in Seq(ToSet(s)) /\ ReadBack(s, Len(s), history')
      BY <2>1, <3>1
    <3>3. Len(history') \in Nat /\ DOMAIN history' = 1 .. Len(history') /\ Len(history') <= Len(s)
      BY <3>2, LenProperties DEF ReadBack
    <3> QED BY <2>3, <2>4, <3>2, <3>3
  <2>7. history' \in Editor!BoundedSeq(Editor!ToSet(s), m)
    <3>1. Len(history') \in 0 .. m /\ history' \in [1 .. Len(history') -> ToSet(s)]
      BY <2>4, <2>6, LenProperties
    <3> QED BY <2>5, <3>1 DEF Editor!BoundedSeq, Editor!SeqOf
  <2>9. Editor!KeptOf(s, history')
    <3>0. PICK f : Sources(s, Len(s), history', f)
      BY <2>6 DEF ReadBack
    <3>1. /\ f \in [1 .. Len(history') -> 1 .. Len(s)]
          /\ \A k \in 1 .. Len(history') : history'[k] = s[f[k]] /\ s[f[k]] # <<>>
          /\ \A k \in 2 .. Len(history') : f[k] < f[k - 1]
      BY <3>0 DEF Sources
    <3>2. \A v \in Editor!ToSet(s) \ {<<>>} : v \in Editor!ToSet(history')
      <4>1. ASSUME NEW v \in Editor!ToSet(s) \ {<<>>} PROVE v \in Editor!ToSet(history')
        <5>1. PICK j \in 1 .. Len(s) : v = s[j] /\ s[j] # <<>>
          BY <2>5 DEF Editor!ToSet
        <5>2. PICK k \in 1 .. Len(history') : history'[k] = s[j]
          BY <2>6, <5>1 DEF ReadBack
        <5> QED BY <2>6, <5>1, <5>2 DEF Editor!ToSet
      <4> QED BY <4>1
    <3>3. \A v \in Editor!ToSet(history') : v \in Editor!ToSet(s) \ {<<>>}
      BY <2>5, <2>6, <3>1 DEF Editor!ToSet
    <3>4. Editor!ToSet(history') = Editor!ToSet(s) \ {<<>>}
      BY <3>2, <3>3
    <3>5. \A k \in 2 .. Len(history') : history'[k] # history'[k - 1]
      BY <2>6 DEF ReadBack
    <3>6. f \in [1 .. Len(history') -> DOMAIN s]
      BY <2>5, <3>1
    <3> QED BY <3>1, <3>4, <3>5, <3>6 DEF Editor!KeptOf
  <2>8. Editor!Given
    BY <1>0, <1>2, <1>5, <2>1, <2>4, <2>7, <2>9 DEF Editor!Given, Kept
  <2> QED BY <2>8 DEF Editor!Next
<1>6. CASE raw_hist_set_buffer
  <2>1. pc' = "undefined" /\ history' = history /\ max' = max
    BY <1>6 DEF raw_hist_set_buffer, histVars
  <2>2. Editor!Decline
    BY <1>0, <1>2, <2>1 DEF Editor!Decline, Kept
  <2> QED BY <2>2 DEF Editor!Next
<1> QED BY <1>1, <1>3, <1>4, <1>5, <1>6 DEF Call

(* The editor with its buffers, its copy of the history and its note of     *)
(* every round implements the column of lines: an edit reaches one line     *)
(* only, moving up and back down finds every line as it was left, and an    *)
(* input that ends with an answer leaves what is remembered alone.          *)
THEOREM EditorImplemented == MCSpec => ImplementsEditor
<1>1. MCInit => Editor!Init
  <2> SUFFICES ASSUME Init PROVE Editor!Init
    BY DEF MCInit
  <2>1. ~Reading /\ pc # "answered"
    BY DEF Init, Reading
  <2> QED BY <2>1 DEF Init, Editor!Init, Editor!Blank
<1>2. LineInv /\ [MCNext]_<<vars, astray>> => [Editor!Next]_Editor!vars
  <2> SUFFICES ASSUME LineInv, [Next]_vars PROVE [Editor!Next]_Editor!vars
    BY DEF MCNext
  <2>1. CASE UNCHANGED vars
    <3>1. UNCHANGED <<line, cursor, hist, history, max, index, original, copy, pc>>
      BY <2>1 DEF vars, lineVars, histVars
    <3>2. UNCHANGED <<Column, Kept, Reading>>
      BY <3>1 DEF Column, Kept, Places, Entry, Reading
    <3> QED BY <3>1, <3>2, Zenon DEF Editor!vars, Column, Kept
  <2> QED BY <2>1, KeyImplements, CallImplements DEF Next
<1>3. MCSpec => []LineInv
  BY Recorded, LineAlways, PTL
<1> QED BY <1>1, <1>2, <1>3, PTL DEF MCSpec, ImplementsEditor, Editor!Spec
=============================================================================
