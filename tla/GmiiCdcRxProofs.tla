-------------------------- MODULE GmiiCdcRxProofs ---------------------------
(***************************************************************************)
(* Proofs about the receive crossing (rtl/gmii_cdc.v, receive half), for   *)
(* every depth and style of FIFO, number and length of frames, error on    *)
(* the line, gap and ratio of the clocks that PaceAssumption allows.       *)
(***************************************************************************)
EXTENDS GmiiCdcRx, FiniteSetTheorems, FunctionTheorems, SequenceTheorems, TLAPS

\* What the FIFO and the registers behind it may hold.
Words == [eof : BOOLEAN, err : BOOLEAN, fid : Nat, idx : Nat]
Bytes == [valid : BOOLEAN, er : BOOLEAN, fid : Nat, idx : Nat]

-----------------------------------------------------------------------------
(* Counting.  The end words of the FIFO and the pulses of the delay line    *)
(* are both counted by a Cardinality over an interval.                      *)

One(b) == IF b THEN 1 ELSE 0

TrueIn(f, a, b) == Cardinality({i \in a .. b : f[i]})

\* Which words of s end a frame.
Ends(s) == [i \in 1 .. Len(s) |-> s[i].eof]

\* A count is a number.
LEMMA CountType ==
  ASSUME NEW f, NEW a \in Int, NEW b \in Int
  PROVE  IsFiniteSet({i \in a .. b : f[i]}) /\ TrueIn(f, a, b) \in Nat
<1>1. IsFiniteSet(a .. b)  BY FS_Interval
<1>2. {i \in a .. b : f[i]} \in SUBSET (a .. b)  OBVIOUS
<1>3. IsFiniteSet({i \in a .. b : f[i]})  BY <1>1, <1>2, FS_Subset
<1> QED  BY <1>3, FS_CardinalityType DEF TrueIn

\* An empty interval counts nothing.
LEMMA CountNone ==
  ASSUME NEW f, NEW a \in Int, NEW b \in Int, b < a
  PROVE  TrueIn(f, a, b) = 0
<1>1. {i \in a .. b : f[i]} = {}  OBVIOUS
<1> QED  BY <1>1, FS_EmptySet DEF TrueIn

\* One place counts one or nothing.
LEMMA CountOne ==
  ASSUME NEW f, NEW a \in Int
  PROVE  TrueIn(f, a, a) = One(f[a])
<1>1. a .. a = {a}  OBVIOUS
<1>2. CASE f[a]
  <2>1. {i \in a .. a : f[i]} = {a}  BY <1>1, <1>2
  <2> QED  BY <2>1, <1>2, FS_Singleton DEF TrueIn, One
<1>3. CASE ~f[a]
  <2>1. {i \in a .. a : f[i]} = {}  BY <1>1, <1>3
  <2> QED  BY <2>1, <1>3, FS_EmptySet DEF TrueIn, One
<1> QED  BY <1>2, <1>3

\* Two neighbouring intervals add up.
LEMMA CountSplit ==
  ASSUME NEW f, NEW a \in Int, NEW m \in Int, NEW b \in Int, a <= m + 1, m <= b
  PROVE  TrueIn(f, a, b) = TrueIn(f, a, m) + TrueIn(f, m + 1, b)
<1> DEFINE L == {i \in a .. m : f[i]}
           R == {i \in m + 1 .. b : f[i]}
           A == {i \in a .. b : f[i]}
<1>0. m + 1 \in Int  OBVIOUS
<1>1. IsFiniteSet(L) /\ IsFiniteSet(R)
  <2>1. IsFiniteSet(L)  BY CountType
  <2>2. IsFiniteSet(R)  BY <1>0, CountType
  <2> QED  BY <2>1, <2>2
<1>2. A = L \cup R
  <2>1. \A i : i \in a .. b <=> i \in a .. m \/ i \in m + 1 .. b  OBVIOUS
  <2> QED  BY <2>1
<1>3. L \cap R = {}
  <2>1. \A i : ~(i \in a .. m /\ i \in m + 1 .. b)  OBVIOUS
  <2> QED  BY <2>1
<1>4. Cardinality({}) = 0  BY FS_EmptySet
<1>5. Cardinality(A) = Cardinality(L) + Cardinality(R) - Cardinality(L \cap R)
  BY <1>1, <1>2, FS_Union
<1>6. Cardinality(L) \in Nat /\ Cardinality(R) \in Nat
  BY <1>0, CountType DEF TrueIn
<1> HIDE DEF L, R, A
<1>7. Cardinality(A) = Cardinality(L) + Cardinality(R)
  <2>1. Cardinality(L \cap R) = 0  BY <1>3, <1>4
  <2> QED  BY <2>1, <1>5, <1>6
<1> QED  BY <1>7 DEF TrueIn, L, R, A

\* g is f moved along by k places.
Along(f, g, a, b, k) == \A i \in a .. b : f[i] = g[i + k]

\* What is moved along keeps its count.
LEMMA CountShift ==
  ASSUME NEW f, NEW g, NEW a \in Int, NEW b \in Int, NEW k \in Int,
         NEW c \in Int, NEW d \in Int, c = a + k, d = b + k,
         Along(f, g, a, b, k)
  PROVE  TrueIn(f, a, b) = TrueIn(g, c, d)
<1> DEFINE S == {i \in a .. b : f[i]}
           T == {i \in a + k .. b + k : g[i]}
           h == [i \in S |-> i + k]
<1>0. \A i \in a .. b : f[i] = g[i + k]  BY DEF Along
<1>1. \A i \in a .. b : i + k \in a + k .. b + k /\ (i + k) - k = i  OBVIOUS
<1>2. \A j \in a + k .. b + k : j - k \in a .. b /\ (j - k) + k = j  OBVIOUS
<1>3. \A i \in S : i \in a .. b /\ f[i]  OBVIOUS
<1>4. h \in [S -> T]  BY <1>0, <1>1
<1>5. \A i, j \in S : h[i] = h[j] => i = j  BY <1>1, <1>3
<1>6. \A t \in T : \E i \in S : h[i] = t
  <2> SUFFICES ASSUME NEW t \in T PROVE \E i \in S : h[i] = t  OBVIOUS
  <2>1. t - k \in a .. b /\ (t - k) + k = t  BY <1>2
  <2>2. f[t - k]  BY <1>0, <2>1
  <2> QED  BY <2>1, <2>2
<1>7. h \in Bijection(S, T)
  BY <1>4, <1>5, <1>6 DEF Bijection, Injection, Surjection, IsInjective
<1>8. ExistsBijection(S, T)  BY <1>7 DEF ExistsBijection
<1>9. IsFiniteSet(S)  BY CountType
<1>10. Cardinality(T) = Cardinality(S)  BY <1>8, <1>9, FS_Bijection
<1> QED  BY <1>10 DEF TrueIn
-----------------------------------------------------------------------------
(* The FIFO as its words: those of the output stage and of the memory.      *)

Vis2 == Len(head) + seen2
Vis1 == Len(head) + seen1

\* The shape of the FIFO: the output stage holds at most one word, the reader knows of
\* no word that is not there, and the writer counts no word twice.
FifoInv ==
  /\ q \in Seq(Words) /\ head \in Seq(Words)
  /\ Len(head) <= 1 /\ (~Block => head = << >>)
  /\ seen1 \in Nat /\ seen2 \in Nat /\ lag1 \in Nat /\ lag2 \in Nat
  /\ seen2 <= seen1 /\ seen1 <= Len(q) /\ lag1 <= lag2
  /\ Fifo!WrCount <= Depth

\* A queue is empty exactly if it has no word.
LEMMA EmptyLen ==
  ASSUME NEW s \in Seq(Words)
  PROVE  Len(s) \in Nat /\ (s # << >> => Len(s) > 0) /\ (s = << >> => Len(s) = 0)
<1>1. Len(s) \in Nat  BY LenProperties
<1>2. s = << >> <=> Len(s) = 0  BY EmptySeq
<1> QED  BY <1>1, <1>2

\* A queue of at most one word has none or one.
LEMMA OneOrNone ==
  ASSUME NEW n \in Nat, n <= 1
  PROVE  n = 0 \/ n = 1
OBVIOUS

Rest(pop) == IF pop THEN Tail(Written) ELSE Written

After(pop, put, w) == IF put THEN Append(Rest(pop), w) ELSE Rest(pop)

\* A word pushed behind the memory is behind the whole.
LEMMA PushBehind ==
  ASSUME NEW h \in Seq(Words), NEW s \in Seq(Words), NEW w \in Words
  PROVE  h \o Append(s, w) = Append(h \o s, w)
<1>1. h \o s \in Seq(Words)  BY ConcatProperties
<1>2. <<w>> \in Seq(Words)  OBVIOUS
<1>3. Append(s, w) = s \o <<w>> /\ Append(h \o s, w) = (h \o s) \o <<w>>
  BY <1>1, AppendIsConcat
<1> QED  BY <1>2, <1>3, ConcatAssociative

\* The front word may move to the output stage.
LEMMA FrontMoves ==
  ASSUME NEW s \in Seq(Words), s # << >>
  PROVE  /\ <<Head(s)>> \o Tail(s) = s /\ Head(s) \in Words /\ Head(s) = s[1]
         /\ Tail(s) \in Seq(Words) /\ Len(Tail(s)) = Len(s) - 1 /\ Len(s) > 0
<1>1. /\ Head(s) \in Words /\ Tail(s) \in Seq(Words) /\ Len(Tail(s)) = Len(s) - 1
      /\ \A i \in 1 .. Len(Tail(s)) : Tail(s)[i] = s[i + 1]
  BY HeadTailProperties
<1>2. Len(s) \in Nat /\ Len(s) > 0  BY EmptySeq, LenProperties
<1>3. Head(s) = s[1]  BY <1>2
<1>4. <<Head(s)>> \in Seq(Words) /\ Len(<<Head(s)>>) = 1 /\ <<Head(s)>>[1] = Head(s)
  BY <1>1
<1> DEFINE t == <<Head(s)>> \o Tail(s)
<1>5. /\ t \in Seq(Words) /\ Len(t) = 1 + Len(Tail(s))
      /\ \A i \in 1 .. 1 + Len(Tail(s)) :
           t[i] = IF i <= 1 THEN <<Head(s)>>[i] ELSE Tail(s)[i - 1]
  BY <1>1, <1>4, ConcatProperties
<1> HIDE DEF t
<1>6. \A i \in 1 .. Len(t) : t[i] = s[i]  BY <1>1, <1>2, <1>3, <1>4, <1>5
<1>7. Len(t) = Len(s)  BY <1>1, <1>2, <1>5
<1>8. t = s  BY <1>5, <1>6, <1>7, SeqEqual
<1> QED  BY <1>1, <1>2, <1>3, <1>8 DEF t

\* The output stage is the front.
LEMMA StageIsFront ==
  ASSUME NEW e \in Words, NEW s \in Seq(Words)
  PROVE  Tail(<<e>> \o s) = s /\ (<<e>> \o s)[1] = e /\ <<e>> \o s # << >>
<1> DEFINE t == <<e>> \o s
<1>1. <<e>> \in Seq(Words) /\ Len(<<e>>) = 1 /\ <<e>>[1] = e  OBVIOUS
<1>2. Len(s) \in Nat  BY LenProperties
<1>3. /\ t \in Seq(Words) /\ Len(t) = 1 + Len(s)
      /\ \A i \in 1 .. 1 + Len(s) : t[i] = IF i <= 1 THEN <<e>>[i] ELSE s[i - 1]
  BY <1>1, ConcatProperties
<1> HIDE DEF t
<1>4. t # << >>  BY <1>2, <1>3, EmptySeq
<1>5. /\ Tail(t) \in Seq(Words) /\ Len(Tail(t)) = Len(t) - 1
      /\ \A i \in 1 .. Len(Tail(t)) : Tail(t)[i] = t[i + 1]
  BY <1>3, <1>4, HeadTailProperties
<1>6. \A i \in 1 .. Len(s) : Tail(t)[i] = s[i]  BY <1>2, <1>3, <1>5
<1>7. Tail(t) = s  BY <1>2, <1>3, <1>5, <1>6, SeqEqual
<1>8. t[1] = e  BY <1>1, <1>2, <1>3
<1> QED  BY <1>4, <1>7, <1>8 DEF t

\* A word taken makes room that the writer learns of later; a word put takes room.
LEMMA SlotsAdd ==
  ASSUME NEW a \in Nat, NEW b \in Nat, NEW c \in Nat, NEW d \in Nat, NEW l \in Nat,
         NEW t \in 0 .. 1, NEW o \in 0 .. 1, b = a - t + o, d <= t + c,
         a + c <= l, o = 1 => a + c < l
  PROVE  b + d <= a + c + o /\ b + d <= l
<1>1. b + d <= a + c + o  OBVIOUS
<1>2. a + c + o <= l  OBVIOUS
<1> QED  BY <1>1, <1>2

\* Words leave at the front and join at the end, whatever the style of the memory.
LEMMA WordsMove ==
  ASSUME FifoInv, NEW m \in BOOLEAN, NEW s \in BOOLEAN, NEW we \in BOOLEAN,
         NEW re \in BOOLEAN, NEW w \in Words, we => m, re => s,
         Fifo!Edge(m, we, w, s, re)
  PROVE  LET put == we /\ ~Fifo!WrFull
             pop == re /\ ~Fifo!RdEmpty
         IN  /\ Written' = After(pop, put, w)
             /\ ~Fifo!RdEmpty => Written # << >> /\ Fifo!RdData = Written[1]
<1> DEFINE put == we /\ ~Fifo!WrFull
           pop == re /\ ~Fifo!RdEmpty
           take == s /\ Fifo!MemRd(re)
           rest == IF take THEN Tail(q) ELSE q
<1>1. /\ q' = IF put THEN Append(rest, w) ELSE rest
      /\ head' = IF Block /\ take THEN <<Head(q)>> ELSE IF re THEN << >> ELSE head
  BY DEF Fifo!Edge
<1>2. take => q # << >>
  <2>1. seen2 > 0 => Len(q) > 0  BY LenProperties DEF FifoInv
  <2> QED  BY <2>1 DEF Fifo!MemRd
<1>3. rest \in Seq(Words)  BY <1>2, HeadTailProperties DEF FifoInv
<1>4. ASSUME ~Block
      PROVE  /\ Written' = After(pop, put, w)
             /\ ~Fifo!RdEmpty => Written # << >> /\ Fifo!RdData = Written[1]
  <2>1. head = << >> /\ head' = << >>  BY <1>1, <1>4 DEF FifoInv
  <2>2. Written = q  BY <2>1, ConcatEmptySeq DEF Written, FifoInv
  <2>3. q' \in Seq(Words)  BY <1>1, <1>3, AppendProperties
  <2>4. Written' = q'  BY <2>1, <2>3, ConcatEmptySeq DEF Written
  <2>5. take <=> pop  BY <1>4 DEF Fifo!MemRd, Fifo!RdEmpty, FifoInv
  <2>6. ~Fifo!RdEmpty => q # << >>
    <3>1. seen2 > 0 => Len(q) > 0  BY LenProperties DEF FifoInv
    <3> QED  BY <3>1, <1>4 DEF Fifo!RdEmpty, FifoInv
  <2>7. Fifo!RdData = q[1]  BY <1>4 DEF Fifo!RdData
  <2> QED  BY <1>1, <2>2, <2>4, <2>5, <2>6, <2>7 DEF After, Rest
<1>5. ASSUME Block
      PROVE  /\ Written' = After(pop, put, w)
             /\ ~Fifo!RdEmpty => Written # << >> /\ Fifo!RdData = Written[1]
  <2>1. head # << >> => head = <<head[1]>> /\ head[1] \in Words
    <3> SUFFICES ASSUME head # << >> PROVE head = <<head[1]>> /\ head[1] \in Words  OBVIOUS
    <3>0. head \in Seq(Words) /\ Len(head) <= 1  BY DEF FifoInv
    <3>1. Len(head) = 1
      <4>1. head \in Seq(Words)  BY <3>0
      <4>2. Len(head) \in Nat /\ Len(head) > 0  BY <4>1, EmptyLen
      <4>3. Len(head) <= 1  BY <3>0
      <4> QED  BY <4>2, <4>3
    <3>2. head[1] \in Words  BY <3>1, ElementOfSeq DEF FifoInv
    <3>3. <<head[1]>> \in Seq(Words) /\ Len(<<head[1]>>) = 1  BY <3>2
    <3>4. \A i \in 1 .. Len(head) : head[i] = <<head[1]>>[i]  BY <3>1
    <3> QED  BY <3>1, <3>2, <3>3, <3>4, SeqEqual DEF FifoInv
  <2>2. Fifo!RdEmpty <=> head = << >>  BY <1>5 DEF Fifo!RdEmpty
  <2>3. ~Fifo!RdEmpty => /\ Written # << >> /\ Fifo!RdData = Written[1]
                         /\ Tail(Written) = q
    <3> SUFFICES ASSUME ~Fifo!RdEmpty
                 PROVE  /\ Written # << >> /\ Fifo!RdData = Written[1]
                        /\ Tail(Written) = q
      OBVIOUS
    <3>1. head = <<head[1]>> /\ head[1] \in Words  BY <2>1, <2>2
    <3> DEFINE e == head[1]
    <3>2. q \in Seq(Words) /\ e \in Words  BY <3>1 DEF FifoInv
    <3>3. Written = <<e>> \o q  BY <3>1 DEF Written
    <3> HIDE DEF e
    <3>4. Tail(Written) = q /\ Written[1] = e /\ Written # << >>
      BY <3>2, <3>3, StageIsFront
    <3> QED  BY <3>4, <1>5 DEF Fifo!RdData, e
  <2>4. Fifo!RdEmpty => Written = q
    BY <2>2, ConcatEmptySeq DEF Written, FifoInv
  <2>5. head' \in Seq(Words)
    BY <1>1, <1>2, HeadTailProperties DEF FifoInv
  <2>6. head' \o rest = Rest(pop)
    <3>1. CASE take
      <4>1. head' = <<Head(q)>> /\ rest = Tail(q)  BY <3>1, <1>1, <1>5
      <4>2. head' \o rest = q  BY <4>1, <3>1, <1>2, FrontMoves DEF FifoInv
      <4>3. pop <=> ~Fifo!RdEmpty  BY <3>1, <1>5, <2>2 DEF Fifo!MemRd
      <4> QED  BY <4>2, <4>3, <2>3, <2>4 DEF Rest
    <3>2. CASE ~take /\ re
      <4>1. head' = << >> /\ rest = q  BY <3>2, <1>1
      <4>2. head' \o rest = q  BY <4>1, ConcatEmptySeq DEF FifoInv
      <4> QED  BY <4>2, <3>2, <2>3, <2>4 DEF Rest
    <3>3. CASE ~take /\ ~re
      <4>1. head' = head /\ rest = q  BY <3>3, <1>1
      <4> QED  BY <4>1, <3>3 DEF Rest, Written
    <3> QED  BY <3>1, <3>2, <3>3
  <2>7. Written' = After(pop, put, w)
    <3>1. CASE put
      <4>1. Written' = head' \o Append(rest, w)  BY <3>1, <1>1 DEF Written
      <4> HIDE DEF rest
      <4>2. Written' = Append(head' \o rest, w)  BY <4>1, <2>5, <1>3, PushBehind
      <4> QED  BY <4>2, <2>6, <3>1 DEF After
    <3>2. CASE ~put
      <4>1. Written' = head' \o rest  BY <3>2, <1>1 DEF Written
      <4> QED  BY <4>1, <2>6, <3>2 DEF After
    <3> QED  BY <3>1, <3>2
  <2> QED  BY <2>3, <2>7
<1> QED  BY <1>4, <1>5
\* The reader sees what it could see a read edge before, less what it took; the writer
\* never counts fewer words than there are, and counts one more only for one it wrote.
LEMMA ViewsMove ==
  ASSUME FifoInv, NEW m \in BOOLEAN, NEW s \in BOOLEAN, NEW we \in BOOLEAN,
         NEW re \in BOOLEAN, NEW w \in Words, we => m, re => s,
         Fifo!Edge(m, we, w, s, re)
  PROVE  LET put == we /\ ~Fifo!WrFull
             pop == re /\ ~Fifo!RdEmpty
         IN  /\ FifoInv'
             /\ Fifo!WrCount' <= Fifo!WrCount + One(put)
             /\ Len(Written) = Len(head) + Len(q) /\ Written \in Seq(Words)
             /\ Written' \in Seq(Words)
             /\ Len(Written') = Len(Written) - One(pop) + One(put)
             /\ Vis2 \in Nat /\ Vis1 \in Nat /\ Vis2 <= Vis1 /\ Vis1 <= Len(Written)
             /\ s => /\ Vis2' = Vis1 - One(pop)
                     /\ Vis1' \in {Len(Written'), Len(Written') - One(put)}
             /\ ~s => Vis2' = Vis2 /\ Vis1' = Vis1 /\ Fifo!RdEmpty' = Fifo!RdEmpty
             /\ s /\ ~Fifo!RdEmpty /\ (~re \/ Vis2 >= 2) => ~Fifo!RdEmpty'
<1> DEFINE put == we /\ ~Fifo!WrFull
           pop == re /\ ~Fifo!RdEmpty
           take == s /\ Fifo!MemRd(re)
           rest == IF take THEN Tail(q) ELSE q
<1>1. /\ q' = IF put THEN Append(rest, w) ELSE rest
      /\ head' = IF Block /\ take THEN <<Head(q)>> ELSE IF re THEN << >> ELSE head
      /\ seen2' = IF s THEN seen1 - One(take) ELSE seen2
      /\ seen1' \in IF s THEN {Len(rest), Len(q')} ELSE {seen1}
      /\ lag2' = One(take) + (IF m THEN lag1 ELSE lag2)
      /\ lag1' \in IF m THEN {0, One(take)} ELSE {lag1 + One(take)}
  BY DEF Fifo!Edge, One
<1>2. /\ q \in Seq(Words) /\ head \in Seq(Words) /\ Len(q) \in Nat /\ Len(head) \in Nat
      /\ seen1 \in Nat /\ seen2 \in Nat /\ lag1 \in Nat /\ lag2 \in Nat /\ Len(head) <= 1
      /\ seen2 <= seen1 /\ seen1 <= Len(q) /\ lag1 <= lag2
      /\ Len(q) + lag2 <= Depth /\ Depth \in Nat /\ Block \in BOOLEAN
      /\ ~Block => head = << >>
  BY LenProperties, CdcRxAssumption DEF FifoInv, Fifo!WrCount
<1>32. Len(head) = 0 \/ Len(head) = 1
  <2>1. head \in Seq(Words) /\ Len(head) <= 1  BY DEF FifoInv
  <2>2. Len(head) \in Nat  BY <2>1, EmptyLen
  <2> QED  BY <2>1, <2>2, OneOrNone
<1>3. take => seen2 > 0 /\ q # << >> /\ Len(q) > 0
  <2>1. take => seen2 > 0  BY DEF Fifo!MemRd
  <2>2. q # << >> \/ Len(q) = 0  BY EmptySeq
  <2> QED  BY <2>1, <2>2, <1>2
<1>4. rest \in Seq(Words) /\ Len(rest) = Len(q) - One(take) /\ Len(rest) \in Nat
  BY <1>2, <1>3, HeadTailProperties DEF One
<1>5. q' \in Seq(Words) /\ Len(q') = Len(rest) + One(put) /\ Len(q') \in Nat
  <2> HIDE DEF rest, put
  <2>1. q' = IF put THEN Append(rest, w) ELSE rest  BY <1>1 DEF put
  <2>2. rest \in Seq(Words) /\ Len(rest) \in Nat  BY <1>4
  <2>3. CASE put
    <3>1. q' = Append(rest, w) /\ One(put) = 1  BY <2>1, <2>3 DEF One
    <3>2. Append(rest, w) \in Seq(Words) /\ Len(Append(rest, w)) = Len(rest) + 1
      BY <2>2, AppendProperties
    <3> QED  BY <3>1, <3>2, <2>2
  <2>4. CASE ~put
    <3>1. q' = rest /\ One(put) = 0  BY <2>1, <2>4 DEF One
    <3> QED  BY <3>1, <2>2
  <2> QED  BY <2>3, <2>4
<1>6. /\ head' \in Seq(Words) /\ Len(head') \in Nat /\ Len(head') <= 1
      /\ ~Block => head' = << >>
  BY <1>1, <1>2, <1>3, HeadTailProperties
<1>7. head = << >> <=> Len(head) = 0
  <2>1. head \in Seq(Words)  BY <1>2
  <2> QED  BY <2>1, EmptyLen
<1>8. head' = << >> <=> Len(head') = 0
  <2>1. head' \in Seq(Words)  BY <1>6
  <2> QED  BY <2>1, EmptyLen
<1>9. One(take) \in {0, 1} /\ One(put) \in {0, 1} /\ One(pop) \in {0, 1}
      /\ (take => One(take) = 1) /\ (~take => One(take) = 0)
      /\ (pop => One(pop) = 1) /\ (~pop => One(pop) = 0)
      /\ (put => One(put) = 1) /\ (~put => One(put) = 0)
  BY DEF One
<1>10. Len(head') = Len(head) - One(pop) + (IF Block THEN One(take) ELSE One(pop))
  <2>1. CASE ~Block
    BY <2>1, <1>2, <1>6, <1>7, <1>8, <1>9
  <2>2. CASE Block
    <3>1. pop <=> re /\ Len(head) # 0  BY <2>2, <1>7 DEF Fifo!RdEmpty
    <3>2. take => Len(head) = 0 \/ re  BY <2>2, <1>7 DEF Fifo!MemRd
    <3>3. take => Len(head') = 1  BY <2>2, <1>1
    <3>4. ~take => Len(head') = IF re THEN 0 ELSE Len(head)  BY <1>1, <1>8
    <3> HIDE DEF pop, take
    <3> QED  BY <2>2, <3>1, <3>2, <3>3, <3>4, <1>2, <1>9
  <2> QED  BY <2>1, <2>2, <1>2
<1>11. ~Block => (take <=> pop)
  BY <1>2 DEF Fifo!MemRd, Fifo!RdEmpty
<1>12. put => m /\ Len(q) + lag2 < Depth
  BY <1>2 DEF Fifo!WrFull, Fifo!WrCount
<1>13. Fifo!WrCount = Len(q) + lag2 /\ Fifo!WrCount' = Len(q') + lag2'
  BY DEF Fifo!WrCount
<1>14. Fifo!RdEmpty <=> IF Block THEN Len(head) = 0 ELSE seen2 = 0
  BY <1>7 DEF Fifo!RdEmpty
<1>15. Fifo!RdEmpty' <=> IF Block THEN Len(head') = 0 ELSE seen2' = 0
  BY <1>8 DEF Fifo!RdEmpty
<1>16. Block => (take <=> s /\ seen2 > 0 /\ (Len(head) = 0 \/ re))
  BY <1>7 DEF Fifo!MemRd
<1>17. /\ Written \in Seq(Words) /\ Len(Written) = Len(head) + Len(q)
       /\ Written' \in Seq(Words) /\ Len(Written') = Len(head') + Len(q')
  BY <1>2, <1>5, <1>6, ConcatProperties DEF Written
<1>18. ~take => rest = q  OBVIOUS
<1>19. pop <=> re /\ ~Fifo!RdEmpty  OBVIOUS
<1>20. take => s  OBVIOUS
<1>21. ~s => head' = head /\ ~re /\ ~take
  BY <1>1
<1>22. put => we  OBVIOUS
<1> HIDE DEF put, pop, take, rest
<1>23. /\ seen1' \in Nat /\ seen2' \in Nat /\ lag1' \in Nat /\ lag2' \in Nat
       /\ seen2' <= seen1' /\ seen1' <= Len(q') /\ lag1' <= lag2'
  <2>1. seen2' \in Nat /\ seen1' \in Nat /\ seen2' <= seen1' /\ seen1' <= Len(q')
    <3>1. CASE take
      <4>1. seen2' = seen1 - 1 /\ seen1' \in {Len(rest), Len(q')}
            /\ Len(rest) = Len(q) - 1
        BY <3>1, <1>1, <1>4, <1>9, <1>20
      <4>2. seen2 > 0 /\ seen1 \in Nat /\ seen2 \in Nat /\ seen2 <= seen1
            /\ Len(q) \in Nat /\ seen1 <= Len(q)
        BY <3>1, <1>2, <1>3
      <4>3. Len(rest) <= Len(q') /\ Len(q') \in Nat /\ Len(rest) \in Nat
        BY <1>4, <1>5, <1>9
      <4>4. seen1' \in Nat /\ seen1' >= Len(q) - 1 /\ seen1' <= Len(q')
        <5>1. CASE seen1' = Len(rest)  BY <5>1, <4>1, <4>3
        <5>2. CASE seen1' = Len(q')  BY <5>2, <4>1, <4>2, <4>3
        <5> QED  BY <5>1, <5>2, <4>1
      <4>5. seen2' \in Nat /\ seen2' <= Len(q) - 1  BY <4>1, <4>2
      <4> QED  BY <4>2, <4>4, <4>5
    <3>2. CASE ~take /\ s
      <4>1. seen2' = seen1 /\ seen1' \in {Len(rest), Len(q')} /\ Len(rest) = Len(q)
        BY <3>2, <1>1, <1>2, <1>4, <1>9
      <4> QED  BY <4>1, <1>2, <1>4, <1>5, <1>9
    <3>3. CASE ~s
      <4>1. seen2' = seen2 /\ seen1' = seen1 /\ Len(rest) = Len(q)
        BY <3>3, <1>1, <1>2, <1>4, <1>9, <1>20
      <4> QED  BY <4>1, <1>2, <1>4, <1>5, <1>9
    <3> QED  BY <3>1, <3>2, <3>3
  <2>2. lag1' \in Nat /\ lag2' \in Nat /\ lag1' <= lag2'
    <3>1. CASE m
      <4>1. lag2' = One(take) + lag1 /\ lag1' \in {0, One(take)}  BY <3>1, <1>1
      <4> QED  BY <4>1, <1>2, <1>9
    <3>2. CASE ~m
      <4>1. lag2' = One(take) + lag2 /\ lag1' = lag1 + One(take)  BY <3>2, <1>1
      <4> QED  BY <4>1, <1>2, <1>9
    <3> QED  BY <3>1, <3>2
  <2> QED  BY <2>1, <2>2
<1>24. Fifo!WrCount' <= Fifo!WrCount + One(put) /\ Fifo!WrCount' <= Depth
  <2>1. lag2' <= One(take) + lag2 /\ lag2' \in Nat  BY <1>1, <1>2, <1>9
  <2> PICK t \in 0 .. 1 : t = One(take)
    <3>1. One(take) \in 0 .. 1  BY <1>9
    <3> QED  BY <3>1
  <2> PICK o \in 0 .. 1 : o = One(put)
    <3>1. One(put) \in 0 .. 1  BY <1>9
    <3> QED  BY <3>1
  <2> PICK a \in Nat : a = Len(q)  BY <1>2
  <2> PICK b \in Nat : b = Len(q')  BY <1>5
  <2> PICK c \in Nat : c = lag2  BY <1>2
  <2> PICK d \in Nat : d = lag2'  BY <2>1
  <2>2. b = a - t + o /\ d <= t + c  BY <2>1, <1>4, <1>5
  <2>3. o = 1 => a + c < Depth  BY <1>9, <1>12
  <2>4. Depth \in Nat /\ a + c <= Depth  BY <1>2
  <2>5. b + d <= a + c + o /\ b + d <= Depth  BY <2>2, <2>3, <2>4, SlotsAdd
  <2> QED  BY <2>5, <1>13
<1>25. FifoInv'  BY <1>5, <1>6, <1>23, <1>24 DEF FifoInv
<1>26. Vis2 = Len(head) + seen2 /\ Vis1 = Len(head) + seen1
       /\ Vis2' = Len(head') + seen2' /\ Vis1' = Len(head') + seen1'
  BY DEF Vis1, Vis2
<1>27. Len(Written') = Len(Written) - One(pop) + One(put)
  <2>1. Len(Written) = Len(head) + Len(q) /\ Len(Written') = Len(head') + Len(q')
    BY <1>17
  <2>2. Len(head') + Len(q') = Len(head) + Len(q) - One(pop) + One(put)
    <3>1. CASE Block
      <4>1. Len(head') = Len(head) - One(pop) + One(take)  BY <3>1, <1>10
      <4>2. Len(q') = Len(q) - One(take) + One(put)  BY <1>4, <1>5
      <4>3. /\ Len(head) \in Nat /\ Len(q) \in Nat
            /\ One(pop) \in Nat /\ One(put) \in Nat /\ One(take) \in Nat
        BY <1>2, <1>9
      <4> QED  BY <4>1, <4>2, <4>3
    <3>2. CASE ~Block
      <4>1. One(take) = One(pop)  BY <3>2, <1>9, <1>11
      <4>2. Len(head') = Len(head) - One(pop) + One(pop)  BY <3>2, <1>10
      <4>3. Len(q') = Len(q) - One(pop) + One(put)  BY <4>1, <1>4, <1>5
      <4>4. /\ Len(head) \in Nat /\ Len(q) \in Nat
            /\ One(pop) \in Nat /\ One(put) \in Nat
        BY <1>2, <1>9
      <4> QED  BY <4>2, <4>3, <4>4
    <3> QED  BY <3>1, <3>2
  <2>3. /\ Len(Written) \in Nat /\ Len(Written') \in Nat
        /\ One(pop) \in Nat /\ One(put) \in Nat
    BY <1>9, <1>17, EmptyLen
  <2> QED  BY <2>1, <2>2, <2>3
<1>28. s => /\ Vis2' = Vis1 - One(pop)
            /\ Vis1' \in {Len(Written'), Len(Written') - One(put)}
  <2> SUFFICES ASSUME s
               PROVE  /\ Vis2' = Vis1 - One(pop)
                      /\ Vis1' \in {Len(Written'), Len(Written') - One(put)}
    OBVIOUS
  <2>1. seen2' = seen1 - One(take) /\ seen1' \in {Len(rest), Len(q')}  BY <1>1
  <2>2. Len(head') - One(take) = Len(head) - One(pop)
    <3>1. CASE Block  BY <3>1, <1>2, <1>6, <1>9, <1>10
    <3>2. CASE ~Block
      <4>1. One(take) = One(pop)  BY <3>2, <1>9, <1>11
      <4> QED  BY <4>1, <3>2, <1>2, <1>6, <1>9, <1>10
    <3> QED  BY <3>1, <3>2
  <2>3. Len(head') + (seen1 - One(take)) = (Len(head) + seen1) - One(pop)
    BY <2>2, <1>2, <1>6, <1>9
  <2>4. Vis2' = Vis1 - One(pop)  BY <2>1, <2>3, <1>26
  <2>5. CASE seen1' = Len(q')  BY <2>4, <2>5, <1>17, <1>26
  <2>6. CASE seen1' = Len(rest)
    <3>1. Len(rest) = Len(q') - One(put)  BY <1>4, <1>5, <1>9
    <3>2. Vis1' = Len(head') + (Len(q') - One(put))  BY <2>6, <3>1, <1>26
    <3>3. Vis1' = Len(Written') - One(put)  BY <3>2, <1>5, <1>6, <1>9, <1>17
    <3> QED  BY <2>4, <3>3
  <2> QED  BY <2>1, <2>5, <2>6
<1>29. ~s => Vis2' = Vis2 /\ Vis1' = Vis1 /\ Fifo!RdEmpty' = Fifo!RdEmpty
  <2>1. ~s => head' = head /\ seen1' = seen1 /\ seen2' = seen2  BY <1>1, <1>21
  <2> QED  BY <2>1, <1>26 DEF Fifo!RdEmpty
<1>30. s /\ ~Fifo!RdEmpty /\ (~re \/ Vis2 >= 2) => ~Fifo!RdEmpty'
  <2> SUFFICES ASSUME s, ~Fifo!RdEmpty, ~re \/ Vis2 >= 2 PROVE ~Fifo!RdEmpty'
    OBVIOUS
  <2>1. CASE Block
    <3>1. Len(head) = 1
      <4>1. Len(head) # 0  BY <2>1, <1>14
      <4> QED  BY <4>1, <1>32
    <3>2. CASE re
      <4>0. Vis2 >= 2 /\ Vis2 = 1 + seen2 /\ seen2 \in Nat
        BY <3>1, <3>2, <1>2, <1>26
      <4>1. seen2 > 0  BY <4>0
      <4>2. take /\ pop  BY <4>1, <3>2, <2>1, <1>16, <1>19
      <4>3. One(take) = 1 /\ One(pop) = 1  BY <4>2, <1>9
      <4>4. Len(head') = 1  BY <4>3, <3>1, <2>1, <1>10
      <4> QED  BY <4>4, <2>1, <1>15
    <3>3. CASE ~re
      <4>1. ~take /\ ~pop  BY <3>1, <3>3, <2>1, <1>16, <1>19
      <4>2. One(take) = 0 /\ One(pop) = 0  BY <4>1, <1>9
      <4>3. Len(head') = 1  BY <4>2, <3>1, <2>1, <1>10
      <4> QED  BY <4>3, <2>1, <1>15
    <3> QED  BY <3>2, <3>3
  <2>2. CASE ~Block
    <3>1. Len(head) = 0 /\ seen2 > 0  BY <2>2, <1>2, <1>7, <1>14
    <3>2. seen2' = seen1 - One(pop)  BY <2>2, <1>1, <1>11, <1>9
    <3>3. re => seen2 >= 2  BY <3>1, <1>2, <1>26
    <3>4. seen2' # 0  BY <3>1, <3>2, <3>3, <1>2, <1>9, <1>19
    <3> QED  BY <3>4, <2>2, <1>15
  <2> QED  BY <2>1, <2>2, <1>2
<1>31. Vis2 \in Nat /\ Vis1 \in Nat /\ Vis2 <= Vis1 /\ Vis1 <= Len(Written)
  <2> PICK a \in Nat : a = Len(head)  BY <1>2
  <2> PICK b \in Nat : b = Len(q)  BY <1>2
  <2>1. Vis2 = a + seen2 /\ Vis1 = a + seen1 /\ Len(Written) = a + b
    BY <1>17, <1>26
  <2>2. seen1 \in Nat /\ seen2 \in Nat /\ seen2 <= seen1 /\ seen1 <= b  BY <1>2
  <2> QED  BY <2>1, <2>2
<1> QED  BY <1>17, <1>24, <1>25, <1>27, <1>28, <1>29, <1>30, <1>31 DEF put, pop
-----------------------------------------------------------------------------
(* One step of the queue of words, as a relation between the words before   *)
(* and after: p of them leave, u of them join.                              *)

Moved(W, V, p, u, w) ==
  /\ p <= Len(W)
  /\ Len(V) = Len(W) - p + u
  /\ \A i \in 1 .. Len(V) : V[i] = IF i + p <= Len(W) THEN W[i + p] ELSE w

\* What leaves and joins, word by word.
LEMMA AfterWords ==
  ASSUME NEW W \in Seq(Words), NEW pop \in BOOLEAN, NEW put \in BOOLEAN, NEW w \in Words,
         NEW p \in 0 .. 1, NEW u \in 0 .. 1, p = 1 <=> pop, u = 1 <=> put,
         pop => W # << >>
  PROVE  LET R == IF pop THEN Tail(W) ELSE W
             V == IF put THEN Append(R, w) ELSE R
         IN  V \in Seq(Words) /\ Moved(W, V, p, u, w)
<1> DEFINE R == IF pop THEN Tail(W) ELSE W
           V == IF put THEN Append(R, w) ELSE R
<1> PICK n \in Nat : n = Len(W)  BY EmptyLen
<1>1. pop => n > 0  BY EmptyLen
<1>2. /\ R \in Seq(Words) /\ Len(R) = n - p
      /\ \A i \in 1 .. n - p : R[i] = W[i + p]
  <2>1. CASE pop
    <3>1. /\ Tail(W) \in Seq(Words) /\ Len(Tail(W)) = n - 1
          /\ \A i \in 1 .. n - 1 : Tail(W)[i] = W[i + 1]
      BY <2>1, HeadTailProperties
    <3> QED  BY <3>1, <2>1
  <2>2. CASE ~pop
    <3>1. R = W /\ p = 0  BY <2>2
    <3>2. \A i \in 1 .. n : W[i] = W[i + 0]  OBVIOUS
    <3> QED  BY <3>1, <3>2
  <2> QED  BY <2>1, <2>2
<1> HIDE DEF R
<1>6. n - p \in Nat  BY <1>1
<1> PICK r \in Nat : r = n - p  BY <1>6
<1>3. /\ V \in Seq(Words) /\ Len(V) = r + u
      /\ \A i \in 1 .. r + u : V[i] = IF i <= r THEN R[i] ELSE w
  <2>1. CASE put
    <3>1. /\ Append(R, w) \in Seq(Words) /\ Len(Append(R, w)) = r + 1
          /\ \A i \in 1 .. r : Append(R, w)[i] = R[i]
          /\ Append(R, w)[r + 1] = w
      BY <1>2, AppendProperties
    <3>2. V = Append(R, w) /\ u = 1  BY <2>1
    <3>3. \A i \in 1 .. r + 1 : (i <= r /\ i \in 1 .. r) \/ i = r + 1  OBVIOUS
    <3> QED  BY <3>1, <3>2, <3>3
  <2>2. CASE ~put
    <3>1. V = R /\ u = 0  BY <2>2
    <3> QED  BY <3>1, <1>2
  <2> QED  BY <2>1, <2>2
<1> HIDE DEF V
<1>4. \A i \in 1 .. r + u : V[i] = IF i + p <= n THEN W[i + p] ELSE w
  BY <1>2, <1>3
<1>5. p <= n /\ Len(V) = n - p + u  BY <1>1, <1>3
<1> QED  BY <1>3, <1>4, <1>5 DEF Moved, V, R

\* The words that end a frame are counted through a step of the queue.
LEMMA EndsMove ==
  ASSUME NEW W \in Seq(Words), NEW V \in Seq(Words), NEW w \in Words,
         NEW p \in 0 .. 1, NEW u \in 0 .. 1, Moved(W, V, p, u, w),
         NEW c \in Nat, p <= c, c <= Len(W)
  PROVE  TrueIn(Ends(V), c - p + 1, Len(V))
           = TrueIn(Ends(W), c + 1, Len(W)) + (IF u = 1 /\ w.eof THEN 1 ELSE 0)
<1> PICK n \in Nat : n = Len(W)  BY EmptyLen
<1> PICK v \in Nat : v = Len(V)  BY EmptyLen
<1>8. c - p \in Nat /\ n - p \in Nat  OBVIOUS
<1> PICK a \in Nat : a = c - p  BY <1>8
<1> PICK r \in Nat : r = n - p  BY <1>8
<1>1. p <= n /\ v = r + u /\ a <= r
      /\ \A i \in 1 .. v : V[i] = IF i + p <= n THEN W[i + p] ELSE w
  BY DEF Moved
<1>2. \A i \in 1 .. v : Ends(V)[i] = V[i].eof  BY DEF Ends
<1>3. \A i \in 1 .. n : Ends(W)[i] = W[i].eof  BY DEF Ends
<1>4. \A i \in a + 1 .. r : Ends(V)[i] = Ends(W)[i + p]  BY <1>1, <1>2, <1>3
<1>5. TrueIn(Ends(V), a + 1, r) = TrueIn(Ends(W), c + 1, n)
  <2>1. a + 1 \in Int /\ c + 1 \in Int /\ r \in Int /\ n \in Int /\ p \in Int
        /\ c + 1 = (a + 1) + p /\ n = r + p
    OBVIOUS
  <2>2. Along(Ends(V), Ends(W), a + 1, r, p)  BY <1>4 DEF Along
  <2> QED  BY <2>1, <2>2, CountShift
<1>6. CASE u = 0
  <2>1. v = r  BY <1>6, <1>1
  <2>2. TrueIn(Ends(W), c + 1, n) \in Nat
    <3>1. c + 1 \in Int /\ n \in Int  OBVIOUS
    <3> QED  BY <3>1, CountType
  <2> QED  BY <2>1, <2>2, <1>5, <1>6
<1>7. CASE u = 1
  <2>1. v = r + 1  BY <1>7, <1>1
  <2>2. TrueIn(Ends(V), a + 1, v) = TrueIn(Ends(V), a + 1, r) + TrueIn(Ends(V), r + 1, v)
    BY <2>1, <1>1, CountSplit
  <2>3. TrueIn(Ends(V), r + 1, r + 1) = One(Ends(V)[r + 1])  BY CountOne
  <2>4. Ends(V)[r + 1] = w.eof  BY <2>1, <1>1, <1>2
  <2> QED  BY <2>1, <2>2, <2>3, <2>4, <1>5, <1>7 DEF One
<1> QED  BY <1>6, <1>7

\* What leaves is the first word.
LEMMA EndsSplit ==
  ASSUME NEW W \in Seq(Words), NEW p \in 0 .. 1, p <= Len(W)
  PROVE  TrueIn(Ends(W), 1, Len(W))
           = (IF p = 1 /\ W[1].eof THEN 1 ELSE 0) + TrueIn(Ends(W), p + 1, Len(W))
<1> PICK n \in Nat : n = Len(W)  BY EmptyLen
<1>1. TrueIn(Ends(W), p + 1, n) \in Nat
  <2>1. p + 1 \in Int /\ n \in Int  OBVIOUS
  <2> QED  BY <2>1, CountType
<1>2. CASE p = 0  BY <1>1, <1>2
<1>3. CASE p = 1
  <2>1. TrueIn(Ends(W), 1, n) = TrueIn(Ends(W), 1, 1) + TrueIn(Ends(W), 1 + 1, n)
    BY <1>3, CountSplit
  <2>2. TrueIn(Ends(W), 1, 1) = One(Ends(W)[1])  BY CountOne
  <2>3. Ends(W)[1] = W[1].eof  BY <1>3 DEF Ends
  <2> QED  BY <2>1, <2>2, <2>3, <1>3 DEF One
<1> QED  BY <1>2, <1>3
-----------------------------------------------------------------------------
(* What the order of the words means to the reader, and that a step of the  *)
(* queue keeps it when the joining word fits.                               *)

\* y may follow x: a byte continues its frame or opens one at position 0, and an open
\* frame goes on.
Joins(x, y) ==
  /\ ~y.eof => y.idx = IF x.eof THEN 0 ELSE x.idx + 1
  /\ ~x.eof => y.fid = x.fid

\* y may come later than x: frames come in their order and nothing follows an end.
Precedes(x, y) == x.fid <= y.fid /\ (x.eof => x.fid < y.fid)

Linked(W) == \A i \in 1 .. Len(W) - 1 : Joins(W[i], W[i + 1])

Ordered(W) == \A i, j \in 1 .. Len(W) : i < j => Precedes(W[i], W[j])

\* The words are of frames up to f; if frame f is not closed, its end is not there.
UpTo(W, f, open) ==
  \A i \in 1 .. Len(W) : W[i].fid <= f /\ (W[i].eof /\ open => W[i].fid < f)

\* A word of the queue was there or has just joined; the first and the last likewise.
LEMMA WordsAfter ==
  ASSUME NEW W \in Seq(Words), NEW V \in Seq(Words), NEW w \in Words,
         NEW p \in 0 .. 1, NEW u \in 0 .. 1, Moved(W, V, p, u, w)
  PROVE  /\ \A i \in 1 .. Len(V) :
              \/ \E j \in 1 .. Len(W) : j = i + p /\ V[i] = W[j]
              \/ u = 1 /\ i = Len(V) /\ V[i] = w
         /\ Len(V) > 0 => V[1] = IF Len(W) > p THEN W[1 + p] ELSE w
         /\ u = 1 => Len(V) > 0 /\ V[Len(V)] = w
         /\ u = 0 /\ Len(V) > 0 => Len(W) > 0 /\ V[Len(V)] = W[Len(W)]
         /\ Len(V) = 0 => Len(W) = p /\ u = 0
<1> PICK n \in Nat : n = Len(W)  BY EmptyLen
<1> PICK v \in Nat : v = Len(V)  BY EmptyLen
<1>1. p <= n /\ v = n - p + u
      /\ \A i \in 1 .. v : V[i] = IF i + p <= n THEN W[i + p] ELSE w
  BY DEF Moved
<1>2. ASSUME NEW i \in 1 .. v
      PROVE  \/ \E j \in 1 .. n : j = i + p /\ V[i] = W[j]
             \/ u = 1 /\ i = v /\ V[i] = w
  <2>1. CASE i + p <= n
    <3>1. i + p \in 1 .. n /\ V[i] = W[i + p]  BY <2>1, <1>1
    <3> QED  BY <3>1
  <2>2. CASE ~(i + p <= n)
    <3>1. V[i] = w  BY <2>2, <1>1
    <3>2. u = 1 /\ i = v  BY <2>2, <1>1
    <3> QED  BY <3>1, <3>2
  <2> QED  BY <2>1, <2>2
<1>3. v > 0 => V[1] = IF n > p THEN W[1 + p] ELSE w
  <2>1. v > 0 => 1 \in 1 .. v /\ 1 + p \in Int  OBVIOUS
  <2> QED  BY <2>1, <1>1
<1>4. u = 1 => v > 0 /\ V[v] = w
  <2>1. u = 1 => v > 0 /\ v \in 1 .. v /\ ~(v + p <= n)  BY <1>1
  <2> QED  BY <2>1, <1>1
<1>5. u = 0 /\ v > 0 => n > 0 /\ V[v] = W[n]
  <2>1. u = 0 /\ v > 0 => v \in 1 .. v /\ v + p = n /\ n > 0  BY <1>1
  <2> QED  BY <2>1, <1>1
<1>6. v = 0 => n = p /\ u = 0  BY <1>1
<1> QED  BY <1>2, <1>3, <1>4, <1>5, <1>6

\* The last word, or the last that left.
LastWord(W, V, p, u, w) ==
  /\ u = 1 => Len(V) > 0 /\ V[Len(V)] = w
  /\ u = 0 /\ Len(V) > 0 => Len(W) > 0 /\ V[Len(V)] = W[Len(W)]
  /\ Len(V) = 0 => Len(W) = p /\ u = 0

\* The last word of the queue has just joined, or was the last before.
LEMMA LastAfter ==
  ASSUME NEW W \in Seq(Words), NEW V \in Seq(Words), NEW w \in Words,
         NEW p \in 0 .. 1, NEW u \in 0 .. 1, Moved(W, V, p, u, w)
  PROVE  LastWord(W, V, p, u, w)
<1> PICK n \in Nat : n = Len(W)  BY EmptyLen
<1> PICK v \in Nat : v = Len(V)  BY EmptyLen
<1>1. p <= n /\ v = n - p + u
      /\ \A i \in 1 .. v : V[i] = IF i + p <= n THEN W[i + p] ELSE w
  BY DEF Moved
<1>2. u = 1 => v > 0 /\ V[v] = w
  <2>1. u = 1 => v > 0 /\ v \in 1 .. v /\ ~(v + p <= n)  BY <1>1
  <2> QED  BY <2>1, <1>1
<1>3. u = 0 /\ v > 0 => n > 0 /\ V[v] = W[n]
  <2>1. u = 0 /\ v > 0 => v \in 1 .. v /\ v + p = n /\ n > 0  BY <1>1
  <2> QED  BY <2>1, <1>1
<1>4. v = 0 => n = p /\ u = 0  BY <1>1
<1> QED  BY <1>2, <1>3, <1>4 DEF LastWord

\* A word that continues the last one keeps the words linked.
LEMMA LinkedMoves ==
  ASSUME NEW W \in Seq(Words), NEW V \in Seq(Words), NEW w \in Words,
         NEW p \in 0 .. 1, NEW u \in 0 .. 1, Moved(W, V, p, u, w),
         Linked(W), u = 1 /\ Len(W) > 0 => Joins(W[Len(W)], w)
  PROVE  Linked(V)
<1> PICK n \in Nat : n = Len(W)  BY EmptyLen
<1> PICK v \in Nat : v = Len(V)  BY EmptyLen
<1>1. p <= n /\ v = n - p + u
      /\ \A i \in 1 .. v : V[i] = IF i + p <= n THEN W[i + p] ELSE w
  BY DEF Moved
<1>2. ASSUME NEW i \in 1 .. v - 1
      PROVE  Joins(V[i], V[i + 1])
  <2>1. i \in 1 .. v /\ i + 1 \in 1 .. v /\ i + p <= n  BY <1>1
  <2>2. V[i] = W[i + p]  BY <2>1, <1>1
  <2>3. CASE i + 1 + p <= n
    <3>1. V[i + 1] = W[(i + p) + 1]
      <4>1. (i + 1) + p = (i + p) + 1  OBVIOUS
      <4> QED  BY <4>1, <2>1, <2>3, <1>1
    <3>2. i + p \in 1 .. n - 1  BY <2>3
    <3>3. Joins(W[i + p], W[(i + p) + 1])  BY <3>2 DEF Linked
    <3> QED  BY <2>2, <3>1, <3>3
  <2>4. CASE ~(i + 1 + p <= n)
    <3>1. V[i + 1] = w /\ i + p = n /\ u = 1 /\ n > 0  BY <2>1, <2>4, <1>1
    <3> QED  BY <3>1, <2>2
  <2> QED  BY <2>3, <2>4
<1> QED  BY <1>2 DEF Linked

\* A word that may come after all others keeps the words ordered.
LEMMA OrderedMoves ==
  ASSUME NEW W \in Seq(Words), NEW V \in Seq(Words), NEW w \in Words,
         NEW p \in 0 .. 1, NEW u \in 0 .. 1, Moved(W, V, p, u, w),
         Ordered(W), \A i \in 1 .. Len(W) : u = 1 => Precedes(W[i], w)
  PROVE  Ordered(V)
<1> PICK n \in Nat : n = Len(W)  BY EmptyLen
<1> PICK v \in Nat : v = Len(V)  BY EmptyLen
<1>1. p <= n /\ v = n - p + u
      /\ \A i \in 1 .. v : V[i] = IF i + p <= n THEN W[i + p] ELSE w
  BY DEF Moved
<1>2. ASSUME NEW i \in 1 .. v, NEW j \in 1 .. v, i < j
      PROVE  Precedes(V[i], V[j])
  <2>1. i + p \in 1 .. n  BY <1>1, <1>2
  <2>2. V[i] = W[i + p]  BY <2>1, <1>1
  <2>3. CASE j + p <= n
    <3>1. V[j] = W[j + p] /\ j + p \in 1 .. n /\ i + p < j + p  BY <2>3, <1>1, <1>2
    <3> QED  BY <3>1, <2>1, <2>2 DEF Ordered
  <2>4. CASE ~(j + p <= n)
    <3>1. V[j] = w /\ u = 1  BY <2>4, <1>1
    <3> QED  BY <3>1, <2>1, <2>2
  <2> QED  BY <2>3, <2>4
<1> QED  BY <1>2 DEF Ordered
-----------------------------------------------------------------------------
(* The media side.                                                          *)

WritesEof  == rx_wr.en /\ rx_wr.word.eof
WritesByte == rx_wr.en /\ ~rx_wr.word.eof

\* From the first byte of a frame until its end word has been offered to the FIFO.
InFrame == rx_dv_d1 \/ WritesEof

\* Bytes of the frame on the line that have been offered to the FIFO.
Offered == line.len - (IF WritesByte THEN 1 ELSE 0)

\* The write registers hold the last byte of the line, or the end of the frame that the
\* line has just finished; what was recorded of that frame is what the line showed.
MediaInv ==
  /\ rx_wr \in [en : BOOLEAN, word : Words]
  /\ rx_dv_d1 \in BOOLEAN /\ rx_drop \in BOOLEAN /\ rx_er_noce \in BOOLEAN
  /\ rx_data_room \in BOOLEAN /\ rx_frame_toggle \in BOOLEAN
  /\ line \in [fid : Nat, len : Nat, er : BOOLEAN, gap : 0 .. MinGap]
  /\ sent \in Seq([len : Nat, er : BOOLEAN])
  /\ Len(sent) = IF rx_dv_d1 THEN line.fid - 1 ELSE line.fid
  /\ rx_wr.en => rx_wr.word.fid = line.fid
  /\ WritesByte => rx_dv_d1 /\ rx_wr.word.idx + 1 = line.len
  /\ WritesEof => /\ ~rx_dv_d1 /\ line.gap = 1 /\ ~rx_er_noce /\ line.fid > 0
                  /\ sent[line.fid] = [len |-> line.len, er |-> line.er]
  /\ ~InFrame => ~rx_drop /\ ~rx_er_noce /\ line.gap >= 2

\* The write registers and the record of the frames after an edge, by what the line shows.
LEMMA TakeLineParts ==
  ASSUME NEW sym, NEW er \in BOOLEAN, MediaInv, TakeLine(sym, er)
  PROVE  LET fid == IF rx_dv_d1 THEN line.fid ELSE line.fid + 1
             len == IF rx_dv_d1 THEN line.len ELSE 0
             bad == (rx_dv_d1 /\ line.er) \/ er
         IN  \/ /\ sym = "byte"
                /\ rx_wr' \in [en : BOOLEAN, word : Words]
                /\ rx_wr'.en /\ ~rx_wr'.word.eof /\ rx_wr'.word.err = er
                /\ rx_wr'.word.fid = fid /\ rx_wr'.word.idx = len
                /\ line' \in [fid : Nat, len : Nat, er : BOOLEAN, gap : 0 .. MinGap]
                /\ line'.fid = fid /\ line'.len = len + 1 /\ line'.er = bad
                /\ rx_er_noce' = rx_er_noce /\ sent' = sent
             \/ /\ sym = "wait"
                /\ rx_wr' \in [en : BOOLEAN, word : Words] /\ ~rx_wr'.en
                /\ line' \in [fid : Nat, len : Nat, er : BOOLEAN, gap : 0 .. MinGap]
                /\ line'.fid = fid /\ line'.len = len /\ line'.er = bad
                /\ rx_er_noce' = (rx_er_noce \/ er) /\ sent' = sent
             \/ /\ sym = "idle" /\ rx_dv_d1
                /\ rx_wr' \in [en : BOOLEAN, word : Words]
                /\ rx_wr'.en /\ rx_wr'.word.eof /\ rx_wr'.word.err = rx_er_noce
                /\ rx_wr'.word.fid = line.fid
                /\ line' \in [fid : Nat, len : Nat, er : BOOLEAN, gap : 0 .. MinGap]
                /\ line'.fid = line.fid /\ line'.len = line.len /\ line'.er = line.er
                /\ line'.gap = 1
                /\ rx_er_noce' = FALSE
                /\ sent' = Append(sent, [len |-> line.len, er |-> line.er])
             \/ /\ sym = "idle" /\ ~rx_dv_d1
                /\ rx_wr' \in [en : BOOLEAN, word : Words] /\ ~rx_wr'.en
                /\ line' \in [fid : Nat, len : Nat, er : BOOLEAN, gap : 0 .. MinGap]
                /\ line'.fid = line.fid /\ line'.len = line.len /\ line'.er = line.er
                /\ line'.gap = IF line.gap < MinGap THEN line.gap + 1 ELSE line.gap
                /\ rx_er_noce' = rx_er_noce /\ sent' = sent
<1> DEFINE fid == IF rx_dv_d1 THEN line.fid ELSE line.fid + 1
           len == IF rx_dv_d1 THEN line.len ELSE 0
           bad == (rx_dv_d1 /\ line.er) \/ er
<1>1. /\ line \in [fid : Nat, len : Nat, er : BOOLEAN, gap : 0 .. MinGap]
      /\ rx_dv_d1 \in BOOLEAN /\ rx_er_noce \in BOOLEAN
      /\ rx_wr \in [en : BOOLEAN, word : Words]
      /\ MinGap \in Nat \ {0}
  BY CdcRxAssumption DEF MediaInv
<1>2. fid \in Nat /\ len \in Nat /\ bad \in BOOLEAN  BY <1>1
<1>3. NoWrite \in [en : BOOLEAN, word : Words] /\ ~NoWrite.en
  BY DEF NoWrite, Byte, Words
<1>4. CASE /\ sym = "byte"
           /\ rx_wr' = [en |-> TRUE, word |-> Byte(er, fid, len)]
           /\ line' = [fid |-> fid, len |-> len + 1, er |-> bad, gap |-> 0]
           /\ UNCHANGED <<rx_er_noce, sent>>
  <2> HIDE DEF fid, len, bad
  <2>1. Byte(er, fid, len) \in Words  BY <1>2 DEF Byte, Words
  <2>2. /\ ~Byte(er, fid, len).eof /\ Byte(er, fid, len).err = er
        /\ Byte(er, fid, len).fid = fid /\ Byte(er, fid, len).idx = len
    BY DEF Byte
  <2>3. /\ rx_wr' \in [en : BOOLEAN, word : Words] /\ rx_wr'.en
        /\ rx_wr'.word = Byte(er, fid, len)
    BY <1>4, <2>1
  <2>4. line' \in [fid : Nat, len : Nat, er : BOOLEAN, gap : 0 .. MinGap]
    BY <1>1, <1>2, <1>4
  <2>5. line'.fid = fid /\ line'.len = len + 1 /\ line'.er = bad  BY <1>4
  <2> QED  BY <1>4, <2>2, <2>3, <2>4, <2>5 DEF fid, len, bad
<1>5. CASE /\ sym = "wait"
           /\ rx_wr' = NoWrite
           /\ rx_er_noce' = (rx_er_noce \/ er)
           /\ line' = [fid |-> fid, len |-> len, er |-> bad, gap |-> 0]
           /\ UNCHANGED sent
  <2> HIDE DEF fid, len, bad
  <2>1. line' \in [fid : Nat, len : Nat, er : BOOLEAN, gap : 0 .. MinGap]
    BY <1>1, <1>2, <1>5
  <2>2. line'.fid = fid /\ line'.len = len /\ line'.er = bad  BY <1>5
  <2> QED  BY <1>3, <1>5, <2>1, <2>2 DEF fid, len, bad
<1>6. CASE /\ sym = "idle" /\ rx_dv_d1
           /\ rx_wr' = [en |-> TRUE, word |-> Eof(rx_er_noce, line.fid)]
           /\ rx_er_noce' = FALSE
           /\ sent' = Append(sent, [len |-> line.len, er |-> line.er])
           /\ line' = [line EXCEPT !.gap = 1]
  <2>1. Eof(rx_er_noce, line.fid) \in Words  BY <1>1 DEF Eof, Words
  <2>2. /\ Eof(rx_er_noce, line.fid).eof /\ Eof(rx_er_noce, line.fid).err = rx_er_noce
        /\ Eof(rx_er_noce, line.fid).fid = line.fid
    BY DEF Eof
  <2>3. /\ rx_wr' \in [en : BOOLEAN, word : Words] /\ rx_wr'.en
        /\ rx_wr'.word = Eof(rx_er_noce, line.fid)
    BY <1>6, <2>1
  <2>4. line' \in [fid : Nat, len : Nat, er : BOOLEAN, gap : 0 .. MinGap]
    BY <1>1, <1>6
  <2>5. line'.fid = line.fid /\ line'.len = line.len /\ line'.er = line.er /\ line'.gap = 1
    BY <1>1, <1>6
  <2> QED  BY <1>6, <2>2, <2>3, <2>4, <2>5
<1>7. CASE /\ sym = "idle" /\ ~rx_dv_d1
           /\ rx_wr' = NoWrite
           /\ line' = [line EXCEPT !.gap = IF @ < MinGap THEN @ + 1 ELSE @]
           /\ UNCHANGED <<rx_er_noce, sent>>
  <2> DEFINE gap == IF line.gap < MinGap THEN line.gap + 1 ELSE line.gap
  <2>1. line' = [line EXCEPT !.gap = gap]  BY <1>7
  <2>2. gap \in 0 .. MinGap  BY <1>1
  <2> HIDE DEF gap
  <2>3. line' \in [fid : Nat, len : Nat, er : BOOLEAN, gap : 0 .. MinGap]
    BY <1>1, <2>1, <2>2
  <2>4. line'.fid = line.fid /\ line'.len = line.len /\ line'.er = line.er /\ line'.gap = gap
    BY <1>1, <2>1
  <2> QED  BY <1>3, <1>7, <2>3, <2>4 DEF gap
<1> QED  BY <1>4, <1>5, <1>6, <1>7 DEF TakeLine
\* The pace of the clocks leaves at least two edges between frames.
LEMMA GapIsTwo == MinGap \in Nat /\ MinGap >= 2 /\ MaxRatio \in Nat /\ MaxRatio + 1 <= MinGap
BY CdcRxAssumption, PaceAssumption

\* A media edge keeps the media side in order, and does one of four things: it goes on
\* with a frame, it has offered the end of one, it waits between frames, or it opens one.
LEMMA MediaKeeps ==
  ASSUME NEW sym \in Symbols, NEW er \in BOOLEAN, MediaInv, MediaEdge(sym, er)
  PROVE  /\ MediaInv'
         /\ \/ /\ rx_dv_d1 /\ InFrame' /\ line'.fid = line.fid /\ Offered' = line.len
               /\ rx_drop' = (rx_drop \/ DataRefuse)
            \/ ~rx_dv_d1 /\ WritesEof /\ ~InFrame' /\ line'.fid = line.fid
            \/ ~InFrame /\ ~InFrame' /\ line'.fid = line.fid
            \/ /\ ~InFrame /\ InFrame' /\ line'.fid = line.fid + 1
               /\ Offered' = 0 /\ ~rx_drop'
<1>1. /\ line \in [fid : Nat, len : Nat, er : BOOLEAN, gap : 0 .. MinGap]
      /\ rx_dv_d1 \in BOOLEAN /\ rx_er_noce \in BOOLEAN /\ rx_drop \in BOOLEAN
      /\ rx_data_room \in BOOLEAN /\ rx_frame_toggle \in BOOLEAN
      /\ rx_wr \in [en : BOOLEAN, word : Words]
      /\ sent \in Seq([len : Nat, er : BOOLEAN])
      /\ Len(sent) = IF rx_dv_d1 THEN line.fid - 1 ELSE line.fid
  BY DEF MediaInv
<1>2. line.fid \in Nat /\ line.len \in Nat /\ line.er \in BOOLEAN /\ line.gap \in 0 .. MinGap
      /\ rx_wr.en \in BOOLEAN /\ rx_wr.word.eof \in BOOLEAN /\ rx_wr.word.idx \in Nat
  BY <1>1 DEF Words
<1>3. /\ TakeLine(sym, er) /\ rx_dv_d1' = (sym # "idle")
      /\ sym # "idle" /\ ~rx_dv_d1 => line.gap = MinGap
      /\ rx_data_room' = DataRoom
      /\ rx_drop' = IF WritesEof THEN FALSE ELSE rx_drop \/ DataRefuse
      /\ rx_frame_toggle' = IF WrAccept /\ rx_wr.word.eof THEN ~rx_frame_toggle
                                                          ELSE rx_frame_toggle
  BY DEF MediaEdge, LineAllows, WritesEof
<1>4. /\ WritesByte => rx_dv_d1
      /\ WritesEof => /\ ~rx_dv_d1 /\ line.gap = 1 /\ ~rx_er_noce /\ line.fid > 0
      /\ ~InFrame => ~rx_drop /\ ~rx_er_noce /\ line.gap >= 2
  BY DEF MediaInv
<1>5. /\ rx_data_room' \in BOOLEAN /\ rx_drop' \in BOOLEAN /\ rx_frame_toggle' \in BOOLEAN
      /\ rx_dv_d1' \in BOOLEAN
  <2>1. rx_data_room' \in BOOLEAN /\ rx_dv_d1' \in BOOLEAN  BY <1>3 DEF DataRoom
  <2>2. rx_drop' \in BOOLEAN
    <3>1. CASE WritesEof  BY <3>1, <1>3
    <3>2. CASE ~WritesEof
      <4>1. rx_drop' = (rx_drop \/ DataRefuse)  BY <3>2, <1>3
      <4> QED  BY <4>1
    <3> QED  BY <3>1, <3>2
  <2>3. rx_frame_toggle' \in BOOLEAN
    <3>1. CASE WrAccept /\ rx_wr.word.eof
      <4>1. rx_frame_toggle' = ~rx_frame_toggle  BY <3>1, <1>3
      <4> QED  BY <4>1
    <3>2. CASE ~(WrAccept /\ rx_wr.word.eof)  BY <3>2, <1>1, <1>3
    <3> QED  BY <3>1, <3>2
  <2> QED  BY <2>1, <2>2, <2>3
<1>6. MinGap \in Nat /\ MinGap >= 2  BY GapIsTwo
<1>7. ~rx_dv_d1 => ~DataRefuse  BY <1>4 DEF DataRefuse, WritesByte
<1>8. WritesEof => ~rx_dv_d1 /\ sym = "idle"
  <2>1. 1 # MinGap  BY <1>6
  <2>2. WritesEof => line.gap # MinGap /\ ~rx_dv_d1  BY <1>4, <2>1
  <2> QED  BY <2>2, <1>3
<1> DEFINE fid == IF rx_dv_d1 THEN line.fid ELSE line.fid + 1
           len == IF rx_dv_d1 THEN line.len ELSE 0
           bad == (rx_dv_d1 /\ line.er) \/ er
<1>9. Len(sent) \in Nat  BY <1>1, LenProperties
<1>10. \/ /\ sym = "byte"
          /\ rx_wr' \in [en : BOOLEAN, word : Words]
          /\ rx_wr'.en /\ ~rx_wr'.word.eof /\ rx_wr'.word.err = er
          /\ rx_wr'.word.fid = fid /\ rx_wr'.word.idx = len
          /\ line' \in [fid : Nat, len : Nat, er : BOOLEAN, gap : 0 .. MinGap]
          /\ line'.fid = fid /\ line'.len = len + 1 /\ line'.er = bad
          /\ rx_er_noce' = rx_er_noce /\ sent' = sent
       \/ /\ sym = "wait"
          /\ rx_wr' \in [en : BOOLEAN, word : Words] /\ ~rx_wr'.en
          /\ line' \in [fid : Nat, len : Nat, er : BOOLEAN, gap : 0 .. MinGap]
          /\ line'.fid = fid /\ line'.len = len /\ line'.er = bad
          /\ rx_er_noce' = (rx_er_noce \/ er) /\ sent' = sent
       \/ /\ sym = "idle" /\ rx_dv_d1
          /\ rx_wr' \in [en : BOOLEAN, word : Words]
          /\ rx_wr'.en /\ rx_wr'.word.eof /\ rx_wr'.word.err = rx_er_noce
          /\ rx_wr'.word.fid = line.fid
          /\ line' \in [fid : Nat, len : Nat, er : BOOLEAN, gap : 0 .. MinGap]
          /\ line'.fid = line.fid /\ line'.len = line.len /\ line'.er = line.er
          /\ line'.gap = 1
          /\ rx_er_noce' = FALSE
          /\ sent' = Append(sent, [len |-> line.len, er |-> line.er])
       \/ /\ sym = "idle" /\ ~rx_dv_d1
          /\ rx_wr' \in [en : BOOLEAN, word : Words] /\ ~rx_wr'.en
          /\ line' \in [fid : Nat, len : Nat, er : BOOLEAN, gap : 0 .. MinGap]
          /\ line'.fid = line.fid /\ line'.len = line.len /\ line'.er = line.er
          /\ line'.gap = IF line.gap < MinGap THEN line.gap + 1 ELSE line.gap
          /\ rx_er_noce' = rx_er_noce /\ sent' = sent
  BY <1>3, TakeLineParts
<1>11. line'.len \in Nat /\ rx_er_noce' \in BOOLEAN
  BY <1>1, <1>10
<1>12. CASE sym = "byte"
  <2>1. /\ rx_wr' \in [en : BOOLEAN, word : Words]
        /\ rx_wr'.en /\ ~rx_wr'.word.eof
        /\ rx_wr'.word.fid = fid /\ rx_wr'.word.idx = len
        /\ line' \in [fid : Nat, len : Nat, er : BOOLEAN, gap : 0 .. MinGap]
        /\ line'.fid = fid /\ line'.len = len + 1
        /\ rx_er_noce' = rx_er_noce /\ sent' = sent
    BY <1>10, <1>12
  <2>2. rx_dv_d1' /\ ~WritesEof' /\ WritesByte' /\ InFrame'
    BY <1>3, <1>12, <2>1 DEF WritesEof, WritesByte, InFrame
  <2>3. Len(sent') = IF rx_dv_d1' THEN line'.fid - 1 ELSE line'.fid
    BY <1>1, <1>2, <2>1, <2>2
  <2>4. MediaInv'
    BY <1>1, <1>5, <1>11, <2>1, <2>2, <2>3 DEF MediaInv
  <2>5. Offered' = len  BY <1>2, <2>1, <2>2 DEF Offered
  <2>6. ~WritesEof  BY <1>8, <1>12
  <2>7. rx_dv_d1 => rx_drop' = (rx_drop \/ DataRefuse)  BY <1>3, <2>6
  <2>8. ~rx_dv_d1 => ~InFrame /\ ~rx_drop'
    BY <1>3, <1>4, <1>7, <2>6 DEF InFrame
  <2> QED  BY <2>1, <2>2, <2>4, <2>5, <2>7, <2>8
<1>13. CASE sym = "wait"
  <2>1. /\ rx_wr' \in [en : BOOLEAN, word : Words] /\ ~rx_wr'.en
        /\ line' \in [fid : Nat, len : Nat, er : BOOLEAN, gap : 0 .. MinGap]
        /\ line'.fid = fid /\ line'.len = len /\ sent' = sent
    BY <1>10, <1>13
  <2>2. rx_dv_d1' /\ ~WritesEof' /\ ~WritesByte' /\ InFrame'
    BY <1>3, <1>13, <2>1 DEF WritesEof, WritesByte, InFrame
  <2>3. Len(sent') = IF rx_dv_d1' THEN line'.fid - 1 ELSE line'.fid
    BY <1>1, <1>2, <2>1, <2>2
  <2>4. MediaInv'
    BY <1>1, <1>5, <1>11, <2>1, <2>2, <2>3 DEF MediaInv
  <2>5. Offered' = len  BY <1>2, <2>1, <2>2 DEF Offered
  <2>6. ~WritesEof  BY <1>8, <1>13
  <2>7. rx_dv_d1 => rx_drop' = (rx_drop \/ DataRefuse)  BY <1>3, <2>6
  <2>8. ~rx_dv_d1 => ~InFrame /\ ~rx_drop'
    BY <1>3, <1>4, <1>7, <2>6 DEF InFrame
  <2> QED  BY <2>1, <2>2, <2>4, <2>5, <2>7, <2>8
<1>14. CASE sym = "idle" /\ rx_dv_d1
  <2>1. /\ rx_wr' \in [en : BOOLEAN, word : Words]
        /\ rx_wr'.en /\ rx_wr'.word.eof /\ rx_wr'.word.fid = line.fid
        /\ line' \in [fid : Nat, len : Nat, er : BOOLEAN, gap : 0 .. MinGap]
        /\ line'.fid = line.fid /\ line'.len = line.len /\ line'.er = line.er
        /\ line'.gap = 1
        /\ rx_er_noce' = FALSE
        /\ sent' = Append(sent, [len |-> line.len, er |-> line.er])
    BY <1>10, <1>14
  <2>2. ~rx_dv_d1' /\ WritesEof' /\ ~WritesByte' /\ InFrame'
    BY <1>3, <1>14, <2>1 DEF WritesEof, WritesByte, InFrame
  <2> DEFINE rec == [len |-> line.len, er |-> line.er]
  <2>3. rec \in [len : Nat, er : BOOLEAN]  BY <1>2
  <2>4. Len(sent) = line.fid - 1  BY <1>1, <1>14
  <2>5. line.fid > 0 /\ Len(sent) + 1 = line.fid  BY <1>2, <1>9, <2>4
  <2> HIDE DEF rec
  <2>6. sent' = Append(sent, rec)  BY <2>1 DEF rec
  <2>7. /\ sent' \in Seq([len : Nat, er : BOOLEAN])
        /\ Len(sent') = Len(sent) + 1 /\ sent'[Len(sent) + 1] = rec
    BY <1>1, <2>3, <2>6, AppendProperties
  <2>8. Len(sent') = line'.fid /\ line'.fid > 0 /\ sent'[line'.fid] = rec
    BY <2>1, <2>5, <2>7
  <2>9. sent'[line'.fid] = [len |-> line'.len, er |-> line'.er]
    BY <2>1, <2>8 DEF rec
  <2>10. MediaInv'
    BY <1>5, <1>11, <2>1, <2>2, <2>7, <2>8, <2>9 DEF MediaInv
  <2>11. Offered' = line.len  BY <1>2, <2>1, <2>2 DEF Offered
  <2>12. rx_drop' = (rx_drop \/ DataRefuse)  BY <1>3, <1>8, <1>14
  <2> QED  BY <1>14, <2>1, <2>2, <2>10, <2>11, <2>12
<1>15. CASE sym = "idle" /\ ~rx_dv_d1
  <2>1. /\ rx_wr' \in [en : BOOLEAN, word : Words] /\ ~rx_wr'.en
        /\ line' \in [fid : Nat, len : Nat, er : BOOLEAN, gap : 0 .. MinGap]
        /\ line'.fid = line.fid
        /\ line'.gap = IF line.gap < MinGap THEN line.gap + 1 ELSE line.gap
        /\ rx_er_noce' = rx_er_noce /\ sent' = sent
    BY <1>10, <1>15
  <2>2. ~rx_dv_d1' /\ ~WritesEof' /\ ~WritesByte' /\ ~InFrame'
    BY <1>3, <1>15, <2>1 DEF WritesEof, WritesByte, InFrame
  <2>3. ~rx_drop' /\ ~rx_er_noce'
    BY <1>3, <1>4, <1>7, <1>15, <2>1 DEF InFrame
  <2>4. line.gap >= 1  BY <1>2, <1>4, <1>15 DEF InFrame
  <2>5. line'.gap >= 2  BY <1>2, <1>6, <2>1, <2>4
  <2>6. Len(sent') = IF rx_dv_d1' THEN line'.fid - 1 ELSE line'.fid
    BY <1>1, <1>15, <2>1, <2>2
  <2>7. MediaInv'
    BY <1>1, <1>5, <1>11, <2>1, <2>2, <2>3, <2>5, <2>6 DEF MediaInv
  <2> QED  BY <1>15, <2>1, <2>2, <2>7 DEF InFrame
<1> QED  BY <1>12, <1>13, <1>14, <1>15 DEF Symbols
-----------------------------------------------------------------------------
(* The inductive invariant.                                                 *)

\* Data is accepted only while two words are free, so behind an open frame one is.
RoomInv ==
  /\ rx_data_room => Fifo!WrCount <= Depth - 2
  /\ Written # << >> /\ ~Written[Len(Written)].eof => Fifo!WrCount <= Depth - 1

\* A toggle that the system side has not sampled is younger than the gap between frames.
PaceInv ==
  /\ ratio \in 0 .. MaxRatio
  /\ rx_frame_toggle # toggle_s[1] =>
       ~WritesEof /\ (IF rx_dv_d1 THEN MinGap - 1 ELSE line.gap - 2) <= ratio

SysTypes ==
  /\ toggle_s \in [1 .. 3 -> BOOLEAN]
  /\ rx_avail_delay \in [1 .. AvailDelay -> BOOLEAN]
  /\ rx_frames_pending \in Nat
  /\ rx_frame_done_pulse \in BOOLEAN /\ rx_reading \in BOOLEAN /\ rx_rd_en \in BOOLEAN
  /\ rx_pend \in Bytes /\ gmii_out \in Bytes /\ rcv \in Bytes

Fresh  == One(rx_frame_toggle # toggle_s[1])
Stage1 == One(toggle_s[1] # toggle_s[2])
Stage2 == One(toggle_s[2] # toggle_s[3])

\* The pending count is exact, and every end word that the reader cannot see yet still
\* has its toggle in the synchroniser.
CountInv ==
  /\ PendingIsExact
  /\ TrueIn(Ends(Written), Vis1 + 1, Len(Written)) <= Fresh + Stage1
  /\ TrueIn(Ends(Written), Vis2 + 1, Len(Written)) <= Fresh + Stage1 + Stage2

\* The reader reads only while a whole frame is there, and holds a byte only while it
\* reads.
ReadInv ==
  /\ rx_rd_en = rx_reading
  /\ rx_frame_done_pulse => rx_frames_pending > 0
  /\ rx_reading => FrameReady /\ ~Fifo!RdEmpty
  /\ rx_pend.valid => rx_reading

\* The last frame of which the MAC has seen a byte.
Seen == IF gmii_out.valid THEN gmii_out.fid ELSE rcv.fid

\* Behind an end word the frame on the line starts at its first byte, unless bytes of it
\* are refused; behind a byte it goes on with the next one.
TailInv ==
  IF Written = << >>
  THEN /\ Seen <= line.fid
       /\ InFrame => Seen < line.fid /\ (~rx_drop => Offered = 0)
  ELSE LET w == Written[Len(Written)]
       IN  IF w.eof
           THEN InFrame /\ ~rx_drop => Offered = 0
           ELSE /\ InFrame /\ w.fid = line.fid
                /\ IF rx_drop THEN w.idx + 1 < Offered ELSE w.idx + 1 = Offered

OrderInv == Ordered(Written) /\ Linked(Written) /\ UpTo(Written, line.fid, InFrame)

\* The first word goes on where the held byte left off.
FrontInv ==
  /\ \A i \in 1 .. Len(Written) : IF rx_pend.valid THEN Written[i].fid >= rx_pend.fid
                                                   ELSE Written[i].fid > Seen
  /\ Written # << >> /\ rx_pend.valid => Written[1].fid = rx_pend.fid
  /\ Written # << >> /\ ~Written[1].eof =>
       Written[1].idx = IF rx_pend.valid THEN rx_pend.idx + 1 ELSE 0

\* The held byte goes on where the outputs left off.
OutInv ==
  /\ rx_pend.valid => IF gmii_out.valid
                      THEN rx_pend.fid = gmii_out.fid /\ rx_pend.idx = gmii_out.idx + 1
                      ELSE rx_pend.fid > rcv.fid /\ rx_pend.idx = 0
  /\ NeverMerged

FlowInv == FifoInv /\ RoomInv /\ MediaInv /\ PaceInv /\ SysTypes /\ CountInv /\ ReadInv
StreamInv == TailInv /\ OrderInv /\ FrontInv /\ OutInv

-----------------------------------------------------------------------------
(* One step of the crossing: the edge of the media clock, of the system     *)
(* clock, or of both.                                                       *)

Step(m, s, sym, er, toggle) ==
  /\ m \/ s
  /\ IF m THEN MediaEdge(sym, er) ELSE UNCHANGED mediaRegs
  /\ IF s THEN SysEdge(toggle) ELSE UNCHANGED sysRegs
  /\ toggle = rx_frame_toggle \/ (m /\ toggle = rx_frame_toggle')
  /\ Fifo!Edge(m, m /\ WrAccept, FifoDin, s, s /\ rx_rd_en)
  /\ ratio' = IF s THEN 0 ELSE ratio + 1
  /\ s \/ ratio < MaxRatio

\* Every step of the crossing is an edge of the media clock, of the system clock, or of both.
LEMMA NextIsStep ==
  ASSUME Next
  PROVE  \E m, s \in BOOLEAN, sym \in Symbols, er \in BOOLEAN : \E toggle :
           Step(m, s, sym, er, toggle)
<1>1. \A er \in LineErrors : er \in BOOLEAN  BY CdcRxAssumption
<1>2. ASSUME NEW sym \in Symbols, NEW er \in LineErrors, MediaOnly(sym, er)
      PROVE  Step(TRUE, FALSE, sym, er, rx_frame_toggle)
  <2>1. Fifo!Edge(TRUE, TRUE /\ WrAccept, FifoDin, FALSE, FALSE /\ rx_rd_en)
    BY <1>2 DEF MediaOnly, Fifo!Edge, Fifo!MemRd
  <2> QED  BY <1>2, <2>1 DEF MediaOnly, Step
<1>3. ASSUME SysOnly
      PROVE  Step(FALSE, TRUE, "idle", FALSE, rx_frame_toggle)
  <2>1. Fifo!Edge(FALSE, FALSE /\ WrAccept, FifoDin, TRUE, TRUE /\ rx_rd_en)
    BY <1>3 DEF SysOnly, Fifo!Edge, Fifo!MemRd
  <2> QED  BY <1>3, <2>1 DEF SysOnly, Step
<1>4. ASSUME NEW sym \in Symbols, NEW er \in LineErrors, BothEdges(sym, er)
      PROVE  \E toggle : Step(TRUE, TRUE, sym, er, toggle)
  <2>1. Fifo!Edge(TRUE, TRUE /\ WrAccept, FifoDin, TRUE, TRUE /\ rx_rd_en)
    BY <1>4 DEF BothEdges, Fifo!Edge, Fifo!MemRd
  <2>2. CASE SysEdge(rx_frame_toggle)
    <3>1. Step(TRUE, TRUE, sym, er, rx_frame_toggle)
      BY <1>4, <2>1, <2>2 DEF BothEdges, Step
    <3> QED  BY <3>1
  <2>3. CASE SysEdge(rx_frame_toggle')
    <3>1. Step(TRUE, TRUE, sym, er, rx_frame_toggle')
      BY <1>4, <2>1, <2>3 DEF BothEdges, Step
    <3> QED  BY <3>1
  <2> QED  BY <1>4, <2>2, <2>3 DEF BothEdges
<1>5. "idle" \in Symbols  BY DEF Symbols
<1>6. CASE Media  BY <1>1, <1>2, <1>6 DEF Media
<1>7. CASE SysOnly  BY <1>3, <1>5, <1>7
<1>8. CASE Both  BY <1>1, <1>4, <1>8 DEF Both
<1> QED  BY <1>6, <1>7, <1>8 DEF Next
-----------------------------------------------------------------------------
(* What a step does to the queue of words.                                  *)

\* A word that the write side accepts has room, and the end of a frame of which a word
\* was accepted is accepted.
LEMMA AcceptedHasRoom ==
  ASSUME FifoInv, RoomInv, MediaInv
  PROVE  /\ WrAccept => ~Fifo!WrFull
         /\ WritesEof /\ ~WrAccept => Written = << >> \/ Written[Len(Written)].eof
         /\ WrAccept /\ ~rx_wr.word.eof => Fifo!WrCount <= Depth - 2
<1>1. /\ Fifo!WrCount \in Nat /\ Depth \in Nat /\ Fifo!WrCount <= Depth
      /\ (Fifo!WrFull <=> Fifo!WrCount = Depth)
  <2>1. Len(q) \in Nat /\ lag2 \in Nat  BY EmptyLen DEF FifoInv
  <2> QED  BY <2>1, CdcRxAssumption DEF Fifo!WrCount, Fifo!WrFull, FifoInv
<1>2. ~(Depth <= Depth - 1) /\ ~(Depth <= Depth - 2)  BY <1>1
<1>3. Fifo!WrFull => ~(Fifo!WrCount <= Depth - 1) /\ ~(Fifo!WrCount <= Depth - 2)
  BY <1>1, <1>2
<1>4. WrAccept => ~Fifo!WrFull  BY <1>3 DEF WrAccept, RoomInv
<1>5. WritesEof /\ ~WrAccept => Fifo!WrFull  BY DEF WrAccept, WritesEof
<1>6. WrAccept /\ ~rx_wr.word.eof => Fifo!WrCount <= Depth - 2  BY DEF WrAccept, RoomInv
<1> QED  BY <1>3, <1>4, <1>5, <1>6 DEF RoomInv

\* What a step does to the queue: p words leave and u words join.
Shape(m, s, p, u) ==
  /\ p = 1 <=> s /\ rx_reading
  /\ u = 1 <=> m /\ WrAccept
  /\ Written \in Seq(Words) /\ Written' \in Seq(Words) /\ FifoDin \in Words
  /\ Moved(Written, Written', p, u, FifoDin)
  /\ FifoInv'
  /\ Fifo!WrCount' <= Fifo!WrCount + u
  /\ Vis2 \in Nat /\ Vis1 \in Nat /\ Vis2 <= Vis1 /\ Vis1 <= Len(Written)
  /\ s => Vis2' = Vis1 - p /\ Vis1' \in {Len(Written'), Len(Written') - u}
  /\ ~s => Vis2' = Vis2 /\ Vis1' = Vis1 /\ Fifo!RdEmpty' = Fifo!RdEmpty
  /\ s /\ ~Fifo!RdEmpty /\ (~rx_reading \/ Vis2 >= 2) => ~Fifo!RdEmpty'
  /\ ~Fifo!RdEmpty => Written # << >> /\ Fifo!RdData = Written[1]

\* The word that the write side puts into the FIFO.
LEMMA FifoDinParts ==
  ASSUME MediaInv
  PROVE  /\ FifoDin \in Words /\ FifoDin.eof = rx_wr.word.eof
         /\ FifoDin.fid = rx_wr.word.fid
         /\ ~rx_wr.word.eof => FifoDin = rx_wr.word
         /\ rx_wr.word.eof => FifoDin.err = (rx_drop \/ rx_wr.word.err)
<1>1. rx_wr.word \in Words /\ rx_drop \in BOOLEAN  BY DEF MediaInv
<1>2. CASE rx_wr.word.eof
  <2>1. FifoDin = Eof(rx_drop \/ rx_wr.word.err, rx_wr.word.fid)  BY <1>2 DEF FifoDin
  <2>2. rx_wr.word.fid \in Nat /\ rx_wr.word.eof \in BOOLEAN  BY <1>1 DEF Words
  <2>3. (rx_drop \/ rx_wr.word.err) \in BOOLEAN  OBVIOUS
  <2>4. Eof(rx_drop \/ rx_wr.word.err, rx_wr.word.fid) \in Words
    BY <2>2, <2>3 DEF Eof, Words
  <2> QED  BY <1>2, <2>1, <2>2, <2>4 DEF Eof
<1>3. CASE ~rx_wr.word.eof  BY <1>1, <1>3 DEF FifoDin
<1> QED  BY <1>2, <1>3

\* Every step of the crossing moves the queue of words as Shape says.
LEMMA StepShape ==
  ASSUME FifoInv, RoomInv, MediaInv, SysTypes, ReadInv,
         NEW m \in BOOLEAN, NEW s \in BOOLEAN, NEW sym, NEW er, NEW toggle,
         Step(m, s, sym, er, toggle)
  PROVE  \E p, u \in 0 .. 1 : Shape(m, s, p, u)
<1> DEFINE we == m /\ WrAccept
           re == s /\ rx_rd_en
<1>1. Fifo!Edge(m, we, FifoDin, s, re)  BY DEF Step
<1>2. we \in BOOLEAN /\ re \in BOOLEAN /\ (we => m) /\ (re => s)  OBVIOUS
<1>3. FifoDin \in Words  BY FifoDinParts
<1>4. we => ~Fifo!WrFull  BY AcceptedHasRoom
<1>5. re => ~Fifo!RdEmpty  BY DEF ReadInv
<1>6. re <=> s /\ rx_reading  BY DEF ReadInv
<1> DEFINE put == we /\ ~Fifo!WrFull
           pop == re /\ ~Fifo!RdEmpty
<1>7. (put <=> we) /\ (pop <=> re)  BY <1>4, <1>5
<1>8. PICK p \in 0 .. 1 : p = 1 <=> pop
  <2>1. CASE pop  BY <2>1
  <2>2. CASE ~pop  BY <2>2
  <2> QED  BY <2>1, <2>2
<1>9. PICK u \in 0 .. 1 : u = 1 <=> put
  <2>1. CASE put  BY <2>1
  <2>2. CASE ~put  BY <2>2
  <2> QED  BY <2>1, <2>2
<1>10. One(pop) = p /\ One(put) = u
  <2>1. One(pop) = IF pop THEN 1 ELSE 0  BY DEF One
  <2>2. One(put) = IF put THEN 1 ELSE 0  BY DEF One
  <2>3. p = IF pop THEN 1 ELSE 0  BY <1>8
  <2>4. u = IF put THEN 1 ELSE 0  BY <1>9
  <2> HIDE DEF pop, put
  <2> QED  BY <2>1, <2>2, <2>3, <2>4
<1> HIDE DEF we, re
<1>11. /\ Written' = After(pop, put, FifoDin)
       /\ ~Fifo!RdEmpty => Written # << >> /\ Fifo!RdData = Written[1]
  BY <1>1, <1>2, <1>3, WordsMove
<1>12. /\ FifoInv'
       /\ Fifo!WrCount' <= Fifo!WrCount + One(put)
       /\ Written \in Seq(Words) /\ Written' \in Seq(Words)
       /\ Vis2 \in Nat /\ Vis1 \in Nat /\ Vis2 <= Vis1 /\ Vis1 <= Len(Written)
       /\ s => /\ Vis2' = Vis1 - One(pop)
               /\ Vis1' \in {Len(Written'), Len(Written') - One(put)}
       /\ ~s => Vis2' = Vis2 /\ Vis1' = Vis1 /\ Fifo!RdEmpty' = Fifo!RdEmpty
       /\ s /\ ~Fifo!RdEmpty /\ (~re \/ Vis2 >= 2) => ~Fifo!RdEmpty'
  BY <1>1, <1>2, <1>3, ViewsMove
<1>13. pop => Written # << >>  BY <1>11
<1>14. pop \in BOOLEAN /\ put \in BOOLEAN  OBVIOUS
<1> HIDE DEF pop, put
<1>15. Moved(Written, Written', p, u, FifoDin)
  BY <1>3, <1>8, <1>9, <1>11, <1>12, <1>13, <1>14, AfterWords DEF After, Rest
<1>16. Shape(m, s, p, u)
  <2>1. (p = 1 <=> s /\ rx_reading) /\ (u = 1 <=> m /\ WrAccept)
    BY <1>6, <1>7, <1>8, <1>9 DEF we
  <2>2. /\ Fifo!WrCount' <= Fifo!WrCount + u
        /\ s => Vis2' = Vis1 - p /\ Vis1' \in {Len(Written'), Len(Written') - u}
    BY <1>10, <1>12
  <2>3. s /\ ~Fifo!RdEmpty /\ (~rx_reading \/ Vis2 >= 2) => ~Fifo!RdEmpty'
    BY <1>6, <1>12
  <2> QED  BY <1>3, <1>11, <1>12, <1>15, <2>1, <2>2, <2>3 DEF Shape
<1> QED  BY <1>16
-----------------------------------------------------------------------------
(* The parts of the flow, one by one.                                       *)

\* The room behind an open frame is kept: a word joins only if two were free, or to end it.
LEMMA RoomKeeps ==
  ASSUME FifoInv, RoomInv, MediaInv, NEW m \in BOOLEAN, NEW s \in BOOLEAN,
         NEW sym, NEW er, NEW toggle, Step(m, s, sym, er, toggle),
         NEW p \in 0 .. 1, NEW u \in 0 .. 1, Shape(m, s, p, u)
  PROVE  RoomInv'
<1>1. Fifo!WrCount \in Nat
  <2>1. Len(q) \in Nat /\ lag2 \in Nat  BY EmptyLen DEF FifoInv
  <2> QED  BY <2>1 DEF Fifo!WrCount
<1>2. Fifo!WrCount' \in Nat
  <2>1. FifoInv'  BY DEF Shape
  <2>2. q' \in Seq(Words) /\ lag2' \in Nat  BY <2>1 DEF FifoInv
  <2>3. Len(q') \in Nat  BY <2>2, EmptyLen
  <2> QED  BY <2>2, <2>3 DEF Fifo!WrCount
<1> PICK c \in Nat : c = Fifo!WrCount  BY <1>1
<1> PICK d \in Nat : d = Fifo!WrCount'  BY <1>2
<1>3. d <= c + u /\ (u = 1 => m /\ WrAccept)  BY DEF Shape
<1>4. Depth \in Nat  BY CdcRxAssumption
<1>5. rx_data_room' => d <= Depth - 2
  <2>1. CASE m
    <3>1. rx_data_room' = DataRoom  BY <2>1 DEF Step, MediaEdge
    <3>2. DataRoom => c < Depth - 2  BY DEF DataRoom
    <3> QED  BY <3>1, <3>2, <1>3, <1>4
  <2>2. CASE ~m
    <3>1. rx_data_room' = rx_data_room  BY <2>2 DEF Step, mediaRegs
    <3>2. u = 0  BY <2>2, <1>3
    <3>3. rx_data_room => c <= Depth - 2  BY DEF RoomInv
    <3> QED  BY <3>1, <3>2, <3>3, <1>3, <1>4
  <2> QED  BY <2>1, <2>2
<1>6. ASSUME Written' # << >>, ~Written'[Len(Written')].eof
      PROVE  d <= Depth - 1
  <2>1. Len(Written') > 0 /\ Len(Written') \in Nat  BY <1>6, EmptyLen DEF Shape
  <2>2. CASE u = 1
    <3>1. Written'[Len(Written')] = FifoDin  BY <2>2, WordsAfter DEF Shape
    <3>2. FifoDin.eof = rx_wr.word.eof  BY FifoDinParts
    <3>3. WrAccept /\ ~rx_wr.word.eof  BY <2>2, <3>1, <3>2, <1>3, <1>6
    <3>4. c <= Depth - 2  BY <3>3, AcceptedHasRoom
    <3> QED  BY <3>4, <2>2, <1>3, <1>4
  <2>3. CASE u = 0
    <3>1. Len(Written) > 0 /\ Written'[Len(Written')] = Written[Len(Written)]
      BY <2>1, <2>3, WordsAfter DEF Shape
    <3>2. Written # << >>
      <4>1. Written \in Seq(Words)  BY DEF Shape
      <4>2. Written = << >> => Len(Written) = 0  BY <4>1, EmptyLen
      <4> QED  BY <3>1, <4>2
    <3>3. c <= Depth - 1  BY <3>1, <3>2, <1>6 DEF RoomInv
    <3> QED  BY <3>3, <2>3, <1>3, <1>4
  <2> QED  BY <2>2, <2>3
<1> QED  BY <1>5, <1>6 DEF RoomInv

\* A system edge, register by register.
LEMMA SysParts ==
  ASSUME SysTypes, ReadInv, NEW toggle \in BOOLEAN, SysEdge(toggle),
         ~Fifo!RdEmpty => Fifo!RdData = Written[1],
         ~Fifo!RdEmpty => Written[1] \in Words
  PROVE  /\ toggle_s' \in [1 .. 3 -> BOOLEAN]
         /\ toggle_s'[1] = toggle /\ toggle_s'[2] = toggle_s[1]
         /\ toggle_s'[3] = toggle_s[2]
         /\ gmii_out' \in Bytes /\ gmii_out'.valid = rx_pend.valid
         /\ rx_pend.valid => gmii_out'.fid = rx_pend.fid /\ gmii_out'.idx = rx_pend.idx
         /\ rx_pend.valid =>
              gmii_out'.er = (rx_pend.er \/ (Written[1].eof /\ Written[1].err))
         /\ rcv' \in Bytes /\ rcv'.valid = gmii_out.valid /\ rcv'.fid = Seen
         /\ gmii_out.valid =>
              /\ rcv'.idx = gmii_out.idx
              /\ rcv'.er = (gmii_out.er \/ (rcv.valid /\ rcv.er))
         /\ \/ /\ rx_reading /\ ~Fifo!RdEmpty /\ Written[1].eof
               /\ rx_pend' \in Bytes /\ ~rx_pend'.valid
               /\ rx_frame_done_pulse' = TRUE
               /\ rx_reading' = NextReady /\ rx_rd_en' = NextReady
            \/ /\ rx_reading /\ ~Fifo!RdEmpty /\ ~Written[1].eof
               /\ rx_pend' \in Bytes /\ rx_pend'.valid
               /\ rx_pend'.er = Written[1].err
               /\ rx_pend'.fid = Written[1].fid /\ rx_pend'.idx = Written[1].idx
               /\ rx_frame_done_pulse' = FALSE
               /\ rx_reading' = TRUE /\ rx_rd_en' = TRUE
            \/ /\ ~rx_reading
               /\ rx_pend' = rx_pend
               /\ rx_frame_done_pulse' = FALSE
               /\ rx_reading' = (FrameReady /\ ~Fifo!RdEmpty)
               /\ rx_rd_en' = (FrameReady /\ ~Fifo!RdEmpty)
<1>1. /\ toggle_s \in [1 .. 3 -> BOOLEAN]
      /\ rx_pend \in Bytes /\ gmii_out \in Bytes /\ rcv \in Bytes
      /\ rx_reading \in BOOLEAN
  BY DEF SysTypes
<1>2. toggle_s' = <<toggle, toggle_s[1], toggle_s[2]>>  BY DEF SysEdge, TrackFrames
<1>3. toggle_s' \in [1 .. 3 -> BOOLEAN]
  <2>1. toggle_s[1] \in BOOLEAN /\ toggle_s[2] \in BOOLEAN  BY <1>1
  <2> QED  BY <1>2, <2>1
<1>4. toggle_s'[1] = toggle /\ toggle_s'[2] = toggle_s[1] /\ toggle_s'[3] = toggle_s[2]
  BY <1>2
<1>5. NoByte \in Bytes /\ ~NoByte.valid  BY DEF NoByte, Bytes
<1>6. ASSUME NEW er, Release(er)
      PROVE  /\ gmii_out' \in Bytes /\ gmii_out'.valid = rx_pend.valid
             /\ rx_pend.valid =>
                  /\ gmii_out'.fid = rx_pend.fid /\ gmii_out'.idx = rx_pend.idx
                  /\ gmii_out'.er = (rx_pend.er \/ er)
  <2>1. CASE rx_pend.valid
    <3>1. gmii_out' = [rx_pend EXCEPT !.er = rx_pend.er \/ er]  BY <1>6, <2>1 DEF Release
    <3> QED  BY <3>1, <1>1 DEF Bytes
  <2>2. CASE ~rx_pend.valid
    <3>1. gmii_out' = NoByte  BY <1>6, <2>2 DEF Release
    <3>2. rx_pend.valid \in BOOLEAN /\ NoByte.valid = FALSE  BY <1>1 DEF Bytes, NoByte
    <3> QED  BY <3>1, <3>2, <1>5, <2>2
  <2> QED  BY <2>1, <2>2
<1>7. /\ rcv' \in Bytes /\ rcv'.valid = gmii_out.valid /\ rcv'.fid = Seen
      /\ gmii_out.valid =>
           /\ rcv'.idx = gmii_out.idx
           /\ rcv'.er = (gmii_out.er \/ (rcv.valid /\ rcv.er))
  <2>1. CASE gmii_out.valid
    <3>1. rcv' = [gmii_out EXCEPT !.er = gmii_out.er \/ (rcv.valid /\ rcv.er)]
      BY <2>1 DEF SysEdge, MacSees
    <3> QED  BY <3>1, <2>1, <1>1 DEF Bytes, Seen
  <2>2. CASE ~gmii_out.valid
    <3>1. rcv' = [rcv EXCEPT !.valid = FALSE]  BY <2>2 DEF SysEdge, MacSees
    <3>2. gmii_out.valid = FALSE  BY <2>2, <1>1 DEF Bytes
    <3> QED  BY <3>1, <3>2, <2>2, <1>1 DEF Bytes, Seen
  <2> QED  BY <2>1, <2>2
<1>8. CASE ReadEof
  <2>1. /\ rx_reading /\ ~Fifo!RdEmpty /\ Written[1].eof
        /\ rx_pend' = NoByte /\ rx_frame_done_pulse' = TRUE
        /\ rx_reading' = NextReady /\ rx_rd_en' = NextReady
        /\ Release(Written[1].err)
    BY <1>8 DEF ReadEof
  <2>2. /\ gmii_out' \in Bytes /\ gmii_out'.valid = rx_pend.valid
        /\ rx_pend.valid =>
             /\ gmii_out'.fid = rx_pend.fid /\ gmii_out'.idx = rx_pend.idx
             /\ gmii_out'.er = (rx_pend.er \/ Written[1].err)
    BY <2>1, <1>6
  <2> QED  BY <1>3, <1>4, <1>5, <1>7, <2>1, <2>2
<1>9. CASE ReadByte
  <2>1. /\ rx_reading /\ ~Fifo!RdEmpty /\ ~Written[1].eof
        /\ rx_pend' = [valid |-> TRUE, er |-> Written[1].err,
                       fid |-> Written[1].fid, idx |-> Written[1].idx]
        /\ rx_frame_done_pulse' = FALSE
        /\ rx_reading' = rx_reading /\ rx_rd_en' = TRUE
        /\ Release(FALSE)
    BY <1>9 DEF ReadByte
  <2>2. Written[1] \in Words  BY <2>1
  <2>3. /\ rx_pend' \in Bytes /\ rx_pend'.valid /\ rx_pend'.er = Written[1].err
        /\ rx_pend'.fid = Written[1].fid /\ rx_pend'.idx = Written[1].idx
    BY <2>1, <2>2 DEF Bytes, Words
  <2>4. /\ gmii_out' \in Bytes /\ gmii_out'.valid = rx_pend.valid
        /\ rx_pend.valid =>
             /\ gmii_out'.fid = rx_pend.fid /\ gmii_out'.idx = rx_pend.idx
             /\ gmii_out'.er = (rx_pend.er \/ FALSE)
    BY <2>1, <1>6
  <2>5. rx_reading' = TRUE  BY <2>1, <1>1
  <2>6. rx_pend.valid => gmii_out'.er = (rx_pend.er \/ (Written[1].eof /\ Written[1].err))
    BY <2>1, <2>4
  <2> QED  BY <1>3, <1>4, <1>7, <2>1, <2>3, <2>4, <2>5, <2>6
<1>10. CASE ReadNothing  BY <1>10 DEF ReadNothing, ReadInv
<1>11. CASE StartRead
  <2>1. /\ ~rx_reading /\ rx_pend' = rx_pend /\ rx_frame_done_pulse' = FALSE
        /\ rx_reading' = (FrameReady /\ ~Fifo!RdEmpty)
        /\ rx_rd_en' = (FrameReady /\ ~Fifo!RdEmpty)
        /\ gmii_out' = NoByte
    BY <1>11 DEF StartRead
  <2>2. ~rx_pend.valid  BY <2>1 DEF ReadInv
  <2>3. rx_pend.valid = FALSE /\ NoByte.valid = FALSE  BY <2>2, <1>1 DEF Bytes, NoByte
  <2> QED  BY <1>3, <1>4, <1>5, <1>7, <2>1, <2>2, <2>3
<1> QED  BY <1>8, <1>9, <1>10, <1>11 DEF SysEdge
\* The end word that joins in this step, as a number.
Ended(u) == IF u = 1 /\ FifoDin.eof THEN 1 ELSE 0

\* An end word flips the toggle once, and never before the last flip has been sampled.
LEMMA ToggleMoves ==
  ASSUME FifoInv, RoomInv, MediaInv, PaceInv, SysTypes, ReadInv,
         NEW m \in BOOLEAN, NEW s \in BOOLEAN,
         NEW sym \in Symbols, NEW er \in BOOLEAN, NEW toggle, Step(m, s, sym, er, toggle),
         NEW p \in 0 .. 1, NEW u \in 0 .. 1, Shape(m, s, p, u)
  PROVE  /\ toggle \in BOOLEAN
         /\ {Fresh, Stage1, Stage2, Fresh', Stage1', Stage2', Ended(u)} \subseteq 0 .. 1
         /\ s => Fresh' + Stage1' = Fresh + Ended(u) /\ Stage2' = Stage1
         /\ ~s => Fresh' = Fresh + Ended(u) /\ Stage1' = Stage1 /\ Stage2' = Stage2
         /\ PaceInv'
<1>1. /\ rx_frame_toggle \in BOOLEAN /\ toggle_s \in [1 .. 3 -> BOOLEAN]
      /\ rx_dv_d1 \in BOOLEAN /\ line.gap \in 0 .. MinGap
  BY DEF MediaInv, SysTypes
<1>2. toggle_s[1] \in BOOLEAN /\ toggle_s[2] \in BOOLEAN /\ toggle_s[3] \in BOOLEAN
  BY <1>1
<1> DEFINE e == u = 1 /\ FifoDin.eof
<1>3. e <=> m /\ WrAccept /\ rx_wr.word.eof  BY FifoDinParts DEF Shape
<1>4. rx_frame_toggle' = IF e THEN ~rx_frame_toggle ELSE rx_frame_toggle
  <2>1. CASE m  BY <2>1, <1>3 DEF Step, MediaEdge
  <2>2. CASE ~m  BY <2>2, <1>3 DEF Step, mediaRegs
  <2> QED  BY <2>1, <2>2
<1>5. e => WritesEof /\ rx_frame_toggle = toggle_s[1]
  BY <1>3 DEF WrAccept, WritesEof, PaceInv
<1>6. rx_frame_toggle' \in BOOLEAN
  <2>1. CASE e
    <3>1. rx_frame_toggle' = ~rx_frame_toggle  BY <2>1, <1>4
    <3> QED  BY <3>1
  <2>2. CASE ~e  BY <2>2, <1>1, <1>4
  <2> QED  BY <2>1, <2>2
<1>7. toggle = rx_frame_toggle \/ (m /\ toggle = rx_frame_toggle')  BY DEF Step
<1>8. toggle \in BOOLEAN  BY <1>1, <1>6, <1>7
<1>9. Ended(u) = IF e THEN 1 ELSE 0  BY DEF Ended
<1>10. /\ Fresh = IF rx_frame_toggle # toggle_s[1] THEN 1 ELSE 0
       /\ Stage1 = IF toggle_s[1] # toggle_s[2] THEN 1 ELSE 0
       /\ Stage2 = IF toggle_s[2] # toggle_s[3] THEN 1 ELSE 0
       /\ Fresh' = IF rx_frame_toggle' # toggle_s'[1] THEN 1 ELSE 0
       /\ Stage1' = IF toggle_s'[1] # toggle_s'[2] THEN 1 ELSE 0
       /\ Stage2' = IF toggle_s'[2] # toggle_s'[3] THEN 1 ELSE 0
  BY DEF Fresh, Stage1, Stage2, One
<1>11. {Fresh, Stage1, Stage2, Fresh', Stage1', Stage2', Ended(u)} \subseteq 0 .. 1
  BY <1>9, <1>10
<1>12. ~Fifo!RdEmpty => Fifo!RdData = Written[1] /\ Written[1] \in Words
  <2>1. ~Fifo!RdEmpty => Written # << >> /\ Fifo!RdData = Written[1]  BY DEF Shape
  <2>2. Written \in Seq(Words)  BY DEF Shape
  <2> QED  BY <2>1, <2>2, FrontMoves
<1>13. ASSUME s
       PROVE  /\ toggle_s'[1] = toggle /\ toggle_s'[2] = toggle_s[1]
              /\ toggle_s'[3] = toggle_s[2]
  <2>1. SysEdge(toggle)  BY <1>13 DEF Step
  <2> QED  BY <2>1, <1>8, <1>12, SysParts
<1>14. ~s => toggle_s' = toggle_s  BY DEF Step, sysRegs
<1> HIDE DEF e
<1>15. s => Fresh' + Stage1' = Fresh + Ended(u) /\ Stage2' = Stage1
  <2> SUFFICES ASSUME s PROVE Fresh' + Stage1' = Fresh + Ended(u) /\ Stage2' = Stage1
    OBVIOUS
  <2>1. Stage2' = Stage1  BY <1>10, <1>13
  <2>2. CASE e
    <3>1. Fresh = 0 /\ Ended(u) = 1  BY <2>2, <1>5, <1>9, <1>10
    <3>2. rx_frame_toggle' = ~toggle_s[1]  BY <2>2, <1>4, <1>5
    <3>3. toggle = toggle_s[1] \/ toggle = ~toggle_s[1]  BY <1>2, <1>8
    <3>4. CASE toggle = toggle_s[1]
      <4>1. Fresh' = 1 /\ Stage1' = 0  BY <3>2, <3>4, <1>2, <1>10, <1>13
      <4> QED  BY <4>1, <3>1, <2>1
    <3>5. CASE toggle = ~toggle_s[1]
      <4>1. Fresh' = 0 /\ Stage1' = 1  BY <3>2, <3>5, <1>2, <1>10, <1>13
      <4> QED  BY <4>1, <3>1, <2>1
    <3> QED  BY <3>3, <3>4, <3>5
  <2>3. CASE ~e
    <3>1. Ended(u) = 0 /\ rx_frame_toggle' = rx_frame_toggle  BY <2>3, <1>4, <1>9
    <3>2. toggle = rx_frame_toggle  BY <3>1, <1>7
    <3>3. Fresh' = 0 /\ Stage1' = Fresh  BY <3>1, <3>2, <1>10, <1>13
    <3> QED  BY <3>1, <3>3, <2>1, <1>11
  <2> QED  BY <2>2, <2>3
<1>16. ~s => Fresh' = Fresh + Ended(u) /\ Stage1' = Stage1 /\ Stage2' = Stage2
  <2> SUFFICES ASSUME ~s
               PROVE  Fresh' = Fresh + Ended(u) /\ Stage1' = Stage1 /\ Stage2' = Stage2
    OBVIOUS
  <2>1. Stage1' = Stage1 /\ Stage2' = Stage2  BY <1>10, <1>14
  <2>2. CASE e
    <3>1. Fresh = 0 /\ Ended(u) = 1  BY <2>2, <1>5, <1>9, <1>10
    <3>2. rx_frame_toggle' = ~toggle_s[1]  BY <2>2, <1>4, <1>5
    <3>3. Fresh' = 1  BY <3>2, <1>2, <1>10, <1>14
    <3> QED  BY <3>1, <3>3, <2>1
  <2>3. CASE ~e
    <3>1. Ended(u) = 0 /\ Fresh' = Fresh  BY <2>3, <1>4, <1>9, <1>10, <1>14
    <3> QED  BY <3>1, <2>1, <1>11
  <2> QED  BY <2>2, <2>3
<1>17. MinGap \in Nat /\ MinGap >= 2 /\ MaxRatio \in Nat /\ MaxRatio + 1 <= MinGap
  BY GapIsTwo
<1>18. ratio \in 0 .. MaxRatio /\ (s \/ ratio < MaxRatio)
       /\ ratio' = IF s THEN 0 ELSE ratio + 1
  BY DEF PaceInv, Step
<1>19. ratio' \in 0 .. MaxRatio  BY <1>17, <1>18
<1>20. /\ e => ~WritesEof' /\ ~rx_dv_d1' /\ line'.gap = 2
       /\ ~e /\ m /\ rx_frame_toggle # toggle_s[1] /\ ~s =>
             /\ ~WritesEof'
             /\ (IF rx_dv_d1' THEN MinGap - 1 ELSE line'.gap - 2) <= ratio + 1
  <2>0. CASE ~m  BY <2>0, <1>3
  <2> SUFFICES ASSUME m
               PROVE  /\ e => ~WritesEof' /\ ~rx_dv_d1' /\ line'.gap = 2
                      /\ rx_frame_toggle # toggle_s[1] /\ ~s =>
                           /\ ~WritesEof'
                           /\ (IF rx_dv_d1' THEN MinGap - 1 ELSE line'.gap - 2) <= ratio + 1
    BY <2>0
  <2>1. MediaEdge(sym, er)  BY DEF Step
  <2>2. /\ TakeLine(sym, er) /\ rx_dv_d1' = (sym # "idle")
        /\ sym # "idle" /\ ~rx_dv_d1 => line.gap = MinGap
    BY <2>1 DEF MediaEdge, LineAllows
  <2>3. /\ sym = "idle" /\ ~rx_dv_d1 =>
             /\ ~rx_wr'.en
             /\ line'.gap = IF line.gap < MinGap THEN line.gap + 1 ELSE line.gap
        /\ sym = "byte" => ~rx_wr'.word.eof
        /\ sym = "wait" => ~rx_wr'.en
    BY <2>2, TakeLineParts
  <2>4. WritesEof => ~rx_dv_d1 /\ line.gap = 1  BY DEF MediaInv
  <2>5. ASSUME e PROVE ~WritesEof' /\ ~rx_dv_d1' /\ line'.gap = 2
    <3>1. ~rx_dv_d1 /\ line.gap = 1 /\ 1 # MinGap /\ 1 < MinGap
      BY <2>4, <2>5, <1>5, <1>17
    <3>2. sym = "idle"  BY <3>1, <2>2
    <3>3. ~rx_wr'.en /\ line'.gap = 1 + 1  BY <3>1, <3>2, <2>3
    <3>4. line'.gap = 2  BY <3>3
    <3>5. ~WritesEof'  BY <3>3 DEF WritesEof
    <3>6. ~rx_dv_d1'  BY <3>2, <2>2
    <3> QED  BY <3>4, <3>5, <3>6
  <2>6. ASSUME rx_frame_toggle # toggle_s[1], ~s
        PROVE  /\ ~WritesEof'
               /\ (IF rx_dv_d1' THEN MinGap - 1 ELSE line'.gap - 2) <= ratio + 1
    <3>1. (IF rx_dv_d1 THEN MinGap - 1 ELSE line.gap - 2) <= ratio
      BY <2>6 DEF PaceInv
    <3>2. ratio < MaxRatio /\ ratio \in Nat  BY <2>6, <1>17, <1>18
    <3>3. ~rx_dv_d1  BY <3>1, <3>2, <1>17
    <3>4. line.gap - 2 <= ratio /\ line.gap \in Nat  BY <3>1, <3>3, <1>1, <1>17
    <3>5. CASE sym = "idle"
      <4>1. ~rx_wr'.en /\ ~rx_dv_d1' /\ line'.gap \in {line.gap + 1, line.gap}
        BY <3>3, <3>5, <2>2, <2>3
      <4>2. line'.gap - 2 <= ratio + 1  BY <4>1, <3>2, <3>4
      <4> QED  BY <4>1, <4>2 DEF WritesEof
    <3>6. CASE sym # "idle"
      <4>1. line.gap = MinGap /\ rx_dv_d1'  BY <3>3, <3>6, <2>2
      <4>2. ~WritesEof'  BY <3>6, <2>3 DEF WritesEof, Symbols
      <4>3. MinGap - 1 <= ratio + 1  BY <4>1, <3>2, <3>4, <1>17
      <4> QED  BY <4>1, <4>2, <4>3
    <3> QED  BY <3>5, <3>6
  <2> QED  BY <2>5, <2>6
<1>21. ASSUME rx_frame_toggle' # toggle_s'[1]
       PROVE  /\ ~WritesEof'
              /\ (IF rx_dv_d1' THEN MinGap - 1 ELSE line'.gap - 2) <= ratio'
  <2>1. CASE e
    <3>1. ~WritesEof' /\ ~rx_dv_d1' /\ line'.gap - 2 = 0  BY <2>1, <1>20
    <3>2. 0 <= ratio'  BY <1>17, <1>19
    <3> QED  BY <3>1, <3>2
  <2>2. CASE ~e
    <3>1. rx_frame_toggle' = rx_frame_toggle  BY <2>2, <1>4
    <3>2. ~s
      <4> SUFFICES ASSUME s PROVE FALSE  OBVIOUS
      <4>1. toggle = rx_frame_toggle  BY <3>1, <1>7
      <4> QED  BY <4>1, <3>1, <1>13, <1>21
    <3>3. m /\ ratio' = ratio + 1  BY <3>2, <1>18 DEF Step
    <3>4. rx_frame_toggle # toggle_s[1]  BY <3>1, <3>2, <1>14, <1>21
    <3> QED  BY <3>2, <3>3, <3>4, <2>2, <1>20
  <2> QED  BY <2>1, <2>2
<1>22. PaceInv'  BY <1>19, <1>21 DEF PaceInv
<1> QED  BY <1>8, <1>11, <1>15, <1>16, <1>22
-----------------------------------------------------------------------------
(* Counting the frames on their way: the end words of the queue, the        *)
(* toggles in the synchroniser, the pulses in the delay line.               *)

\* The end words of the output stage and of the memory are those of the queue.
LEMMA EndsOfBoth ==
  ASSUME NEW h \in Seq(Words), NEW s \in Seq(Words)
  PROVE  Cardinality({i \in 1 .. Len(s) : s[i].eof})
           + Cardinality({i \in 1 .. Len(h) : h[i].eof})
         = TrueIn(Ends(h \o s), 1, Len(h \o s))
<1> DEFINE W == h \o s
<1> PICK n \in Nat : n = Len(h)  BY EmptyLen
<1> PICK k \in Nat : k = Len(s)  BY EmptyLen
<1>1. /\ W \in Seq(Words) /\ Len(W) = n + k
      /\ \A i \in 1 .. n + k : W[i] = IF i <= n THEN h[i] ELSE s[i - n]
  BY ConcatProperties
<1> HIDE DEF W
<1>2. \A i \in 1 .. n + k : Ends(W)[i] = W[i].eof  BY <1>1 DEF Ends
<1>3. (\A i \in 1 .. n : Ends(h)[i] = h[i].eof) /\ (\A i \in 1 .. k : Ends(s)[i] = s[i].eof)
  BY DEF Ends
<1>4. 0 \in Int /\ n \in Int /\ k \in Int /\ 1 \in Int /\ n + k \in Int /\ n + 1 \in Int
      /\ 1 = 1 + 0 /\ n = n + 0 /\ n + 1 = 1 + n /\ n + k = k + n
      /\ 1 <= n + 1 /\ n <= n + k
  OBVIOUS
<1>5. TrueIn(Ends(h), 1, n) = TrueIn(Ends(W), 1, n)
  <2>1. \A i \in 1 .. n : i \in 1 .. n + k /\ i <= n /\ i + 0 = i  OBVIOUS
  <2>2. Along(Ends(h), Ends(W), 1, n, 0)  BY <2>1, <1>1, <1>2, <1>3 DEF Along
  <2> QED  BY <2>2, <1>4, CountShift
<1>6. TrueIn(Ends(s), 1, k) = TrueIn(Ends(W), n + 1, n + k)
  <2>1. \A i \in 1 .. k : i + n \in 1 .. n + k /\ ~(i + n <= n) /\ (i + n) - n = i  OBVIOUS
  <2>2. ASSUME NEW i \in 1 .. k PROVE Ends(s)[i] = Ends(W)[i + n]
    <3>1. Ends(s)[i] = s[i].eof  BY <1>3
    <3>2. Ends(W)[i + n] = W[i + n].eof  BY <2>1, <1>2
    <3>3. W[i + n] = s[i]
      <4> PICK j \in 1 .. n + k : j = i + n  BY <2>1
      <4>1. W[j] = s[j - n] /\ j - n = i  BY <2>1, <1>1
      <4> QED  BY <4>1
    <3> QED  BY <3>1, <3>2, <3>3
  <2>3. Along(Ends(s), Ends(W), 1, k, n)  BY <2>2 DEF Along
  <2> QED  BY <2>3, <1>4, CountShift
<1>7. TrueIn(Ends(W), 1, n + k) = TrueIn(Ends(W), 1, n) + TrueIn(Ends(W), n + 1, n + k)
  BY <1>4, CountSplit
<1>8. {i \in 1 .. n : h[i].eof} = {i \in 1 .. n : Ends(h)[i]}
      /\ {i \in 1 .. k : s[i].eof} = {i \in 1 .. k : Ends(s)[i]}
  BY <1>3
<1>9. Cardinality({i \in 1 .. n : h[i].eof}) = TrueIn(Ends(h), 1, n)
      /\ Cardinality({i \in 1 .. k : s[i].eof}) = TrueIn(Ends(s), 1, k)
  BY <1>8 DEF TrueIn
<1>10. TrueIn(Ends(h), 1, n) \in Nat /\ TrueIn(Ends(s), 1, k) \in Nat
  BY <1>4, CountType
<1> QED  BY <1>1, <1>5, <1>6, <1>7, <1>9, <1>10 DEF W

\* The two stages of the synchroniser.
LEMMA StagesAre ==
  ASSUME NEW t \in [1 .. 3 -> BOOLEAN]
  PROVE  Cardinality({i \in 1 .. 2 : t[i] # t[i + 1]})
           = One(t[1] # t[2]) + One(t[2] # t[3])
<1> DEFINE f == [i \in 1 .. 2 |-> t[i] # t[i + 1]]
<1>1. {i \in 1 .. 2 : t[i] # t[i + 1]} = {i \in 1 .. 2 : f[i]}  OBVIOUS
<1>2. f[1] = (t[1] # t[2]) /\ f[2] = (t[2] # t[3])
  <2>1. 1 + 1 = 2 /\ 2 + 1 = 3  OBVIOUS
  <2> QED  BY <2>1
<1> HIDE DEF f
<1>3. TrueIn(f, 1, 2) = TrueIn(f, 1, 1) + TrueIn(f, 1 + 1, 2)  BY CountSplit
<1>4. TrueIn(f, 1, 1) = One(f[1]) /\ TrueIn(f, 2, 2) = One(f[2])  BY CountOne
<1> QED  BY <1>1, <1>2, <1>3, <1>4 DEF TrueIn

\* A pulse enters the delay line and one leaves it.
LEMMA DelayMoves ==
  ASSUME NEW n \in Nat \ {0}, NEW f \in [1 .. n -> BOOLEAN], NEW b \in BOOLEAN, NEW g,
         g = [i \in 1 .. n |-> IF i = 1 THEN b ELSE f[i - 1]]
  PROVE  /\ g \in [1 .. n -> BOOLEAN]
         /\ TrueIn(g, 1, n) + One(f[n]) = One(b) + TrueIn(f, 1, n)
<1>1. g \in [1 .. n -> BOOLEAN]
  <2>1. \A i \in 1 .. n : i # 1 => i - 1 \in 1 .. n  OBVIOUS
  <2> QED  BY <2>1
<1>2. 1 \in Int /\ n \in Int /\ n - 1 \in Int /\ 2 \in Int /\ 1 <= n /\ 1 <= (n - 1) + 1
      /\ n - 1 <= n /\ (n - 1) + 1 = n /\ 2 = 1 + 1 /\ n = (n - 1) + 1 /\ 1 <= 1 + 1
  OBVIOUS
<1>3. TrueIn(g, 1, n) = TrueIn(g, 1, 1) + TrueIn(g, 2, n)
  <2>1. TrueIn(g, 1, n) = TrueIn(g, 1, 1) + TrueIn(g, 1 + 1, n)  BY <1>2, CountSplit
  <2> QED  BY <2>1, <1>2
<1>4. TrueIn(f, 1, n) = TrueIn(f, 1, n - 1) + TrueIn(f, n, n)
  <2>1. TrueIn(f, 1, n) = TrueIn(f, 1, n - 1) + TrueIn(f, (n - 1) + 1, n)
    BY <1>2, CountSplit
  <2> QED  BY <2>1, <1>2
<1>5. TrueIn(f, 1, n - 1) = TrueIn(g, 2, n)
  <2>1. \A i \in 1 .. n - 1 : i + 1 \in 1 .. n /\ i + 1 # 1 /\ (i + 1) - 1 = i  OBVIOUS
  <2>2. Along(f, g, 1, n - 1, 1)  BY <2>1 DEF Along
  <2> QED  BY <2>2, <1>2, CountShift
<1>6. TrueIn(g, 1, 1) = One(g[1]) /\ TrueIn(f, n, n) = One(f[n])  BY <1>2, CountOne
<1>7. g[1] = b  BY <1>2
<1>8. TrueIn(f, 1, n - 1) \in Nat  BY <1>2, CountType
<1>9. One(b) \in Nat /\ One(f[n]) \in Nat  BY DEF One
<1> QED  BY <1>1, <1>3, <1>4, <1>5, <1>6, <1>7, <1>8, <1>9
\* No more is counted than there is.
LEMMA CountBound ==
  ASSUME NEW f, NEW n \in Nat
  PROVE  TrueIn(f, 1, n) <= n
<1>1. IsFiniteSet(1 .. n) /\ Cardinality(1 .. n) = n
  BY FS_Interval
<1>2. {i \in 1 .. n : f[i]} \in SUBSET (1 .. n)  OBVIOUS
<1>3. Cardinality({i \in 1 .. n : f[i]}) <= Cardinality(1 .. n)
  BY <1>1, <1>2, FS_Subset
<1> QED  BY <1>1, <1>3 DEF TrueIn

\* A counter that does not reach its modulus is not wrapped.
LEMMA ModSmall ==
  ASSUME NEW a \in Nat, NEW b \in Nat, a < b
  PROVE  a % b = a
OBVIOUS

\* The two sides of PendingIsExact, and the end words that are visible.
LEMMA CountsAre ==
  ASSUME FifoInv, SysTypes
  PROVE  /\ EofsHeld = TrueIn(Ends(Written), 1, Len(Written))
         /\ InTransit = TrueIn(rx_avail_delay, 1, AvailDelay) + (Stage1 + Stage2) + Fresh
<1>1. q \in Seq(Words) /\ head \in Seq(Words) /\ toggle_s \in [1 .. 3 -> BOOLEAN]
  BY DEF FifoInv, SysTypes
<1>2. EofsHeld = TrueIn(Ends(Written), 1, Len(Written))
  BY <1>1, EndsOfBoth DEF EofsHeld, Written
<1>3. Cardinality({i \in 1 .. 2 : toggle_s[i] # toggle_s[i + 1]}) = Stage1 + Stage2
  BY <1>1, StagesAre DEF Stage1, Stage2
<1>4. Cardinality({i \in 1 .. AvailDelay : rx_avail_delay[i]})
        = TrueIn(rx_avail_delay, 1, AvailDelay)
  BY DEF TrueIn
<1>5. (IF rx_frame_toggle # toggle_s[1] THEN 1 ELSE 0) = Fresh  BY DEF Fresh, One
<1> QED  BY <1>2, <1>3, <1>4, <1>5 DEF InTransit

\* The counts of the model as counts over one sequence, after a step.
LEMMA CountsAreNext ==
  ASSUME FifoInv', SysTypes'
  PROVE  /\ EofsHeld' = TrueIn(Ends(Written'), 1, Len(Written'))
         /\ InTransit' = TrueIn(rx_avail_delay', 1, AvailDelay) + (Stage1' + Stage2') + Fresh'
<1>1. q' \in Seq(Words) /\ head' \in Seq(Words) /\ toggle_s' \in [1 .. 3 -> BOOLEAN]
  BY DEF FifoInv, SysTypes
<1>2. EofsHeld' = TrueIn(Ends(Written'), 1, Len(Written'))
  BY <1>1, EndsOfBoth DEF EofsHeld, Written
<1>3. Cardinality({i \in 1 .. 2 : toggle_s'[i] # toggle_s'[i + 1]}) = Stage1' + Stage2'
  BY <1>1, StagesAre DEF Stage1, Stage2
<1>4. Cardinality({i \in 1 .. AvailDelay : rx_avail_delay'[i]})
        = TrueIn(rx_avail_delay', 1, AvailDelay)
  BY DEF TrueIn
<1>5. (IF rx_frame_toggle' # toggle_s'[1] THEN 1 ELSE 0) = Fresh'  BY DEF Fresh, One
<1> QED  BY <1>2, <1>3, <1>4, <1>5 DEF InTransit

\* The pulse that leaves the delay line and the frame that is retired, as numbers.
Up   == One(rx_avail_delay[AvailDelay])
Gone == One(rx_frame_done_pulse)

\* The first word, if it leaves and ends a frame, as a number.
Retired(p) == IF p = 1 /\ Written[1].eof THEN 1 ELSE 0

\* The pending count takes the pulse and gives the retired frame.
LEMMA PendingMoves ==
  ASSUME FifoInv, SysTypes, ReadInv, CountInv, NEW toggle, TrackFrames(toggle),
         {Fresh, Stage1, Stage2} \subseteq 0 .. 1
  PROVE  /\ rx_frames_pending' \in Nat
         /\ rx_frames_pending' = rx_frames_pending + Up - Gone
         /\ Up \in 0 .. 1 /\ Gone \in 0 .. 1
         /\ rx_avail_delay' \in [1 .. AvailDelay -> BOOLEAN]
         /\ TrueIn(rx_avail_delay', 1, AvailDelay) + Up
              = Stage2 + TrueIn(rx_avail_delay, 1, AvailDelay)
<1>1. /\ rx_frames_pending \in Nat /\ rx_frame_done_pulse \in BOOLEAN
      /\ rx_avail_delay \in [1 .. AvailDelay -> BOOLEAN] /\ AvailDelay \in Nat \ {0}
      /\ toggle_s \in [1 .. 3 -> BOOLEAN]
  BY CdcRxAssumption DEF SysTypes
<1>2. PendMax \in Nat /\ Depth \in Nat /\ PendMax >= Depth + 1
  BY CdcRxAssumption, PaceAssumption
<1> DEFINE up == rx_avail_delay[AvailDelay]
           down == rx_frame_done_pulse
           b == toggle_s[2] # toggle_s[3]
<1>3. up \in BOOLEAN /\ down \in BOOLEAN /\ b \in BOOLEAN  BY <1>1
<1>4. /\ Up \in 0 .. 1 /\ Gone \in 0 .. 1
      /\ (up => Up = 1) /\ (~up => Up = 0) /\ (down => Gone = 1) /\ (~down => Gone = 0)
  BY DEF Up, Gone, One
<1>5. rx_avail_delay' = [i \in 1 .. AvailDelay |-> IF i = 1 THEN b ELSE rx_avail_delay[i - 1]]
  BY DEF TrackFrames
<1>6. /\ rx_avail_delay' \in [1 .. AvailDelay -> BOOLEAN]
      /\ TrueIn(rx_avail_delay', 1, AvailDelay) + One(up)
           = One(b) + TrueIn(rx_avail_delay, 1, AvailDelay)
  <2> HIDE DEF b
  <2> QED  BY <1>1, <1>3, <1>5, DelayMoves
<1>7. One(up) = Up /\ One(b) = Stage2  BY DEF Up, Stage2
<1>8. rx_frames_pending' =
        IF up /\ ~down THEN (rx_frames_pending + 1) % (PendMax + 1)
        ELSE IF down /\ ~up /\ rx_frames_pending # 0
             THEN rx_frames_pending - 1 ELSE rx_frames_pending
  BY DEF TrackFrames
<1>9. down => rx_frames_pending > 0  BY DEF ReadInv
<1>10. up /\ ~down => rx_frames_pending + 1 <= PendMax
  <2> SUFFICES ASSUME up, ~down PROVE rx_frames_pending + 1 <= PendMax  OBVIOUS
  <2>1. head \in Seq(Words) /\ q \in Seq(Words) /\ Len(head) <= 1 /\ lag2 \in Nat
        /\ Fifo!WrCount <= Depth
    BY DEF FifoInv
  <2>2. Written \in Seq(Words) /\ Len(Written) = Len(head) + Len(q)
    BY <2>1, ConcatProperties DEF Written
  <2>3. PICK h \in Nat : h = Len(head)  BY <2>1, EmptyLen
  <2>4. PICK k \in Nat : k = Len(q)  BY <2>1, EmptyLen
  <2>5. PICK l \in Nat : l = lag2  BY <2>1
  <2>6. h <= 1 /\ k + l <= Depth  BY <2>1, <2>3, <2>4, <2>5 DEF Fifo!WrCount
  <2>7. h + k <= Depth + 1  BY <2>6, <1>2
  <2>8. h + k \in Nat /\ Len(Written) = h + k  BY <2>2, <2>3, <2>4
  <2>9. TrueIn(Ends(Written), 1, h + k) <= h + k  BY <2>8, CountBound
  <2>10. EofsHeld <= h + k  BY <2>8, <2>9, CountsAre
  <2>11. rx_frames_pending + InTransit = EofsHeld + DoneInflight
    BY DEF CountInv, PendingIsExact
  <2>12. DoneInflight = 0  BY DEF DoneInflight
  <2>13. InTransit = TrueIn(rx_avail_delay, 1, AvailDelay) + (Stage1 + Stage2) + Fresh
    BY CountsAre
  <2>14. PICK d \in Nat : d = TrueIn(rx_avail_delay, 1, AvailDelay)
    <3>1. 1 \in Int /\ AvailDelay \in Int  BY <1>1
    <3> QED  BY <3>1, CountType
  <2>15. PICK d2 \in Nat : d2 = TrueIn(rx_avail_delay', 1, AvailDelay)
    <3>1. 1 \in Int /\ AvailDelay \in Int  BY <1>1
    <3> QED  BY <3>1, CountType
  <2>16. PICK s1, s2, f \in 0 .. 1 : s1 = Stage1 /\ s2 = Stage2 /\ f = Fresh  OBVIOUS
  <2>17. d2 + 1 = s2 + d  BY <1>4, <1>6, <1>7, <2>14, <2>15, <2>16
  <2>18. InTransit = d + (s1 + s2) + f  BY <2>13, <2>14, <2>16
  <2>19. PICK e \in Nat : e = EofsHeld
    <3>1. 1 \in Int /\ h + k \in Int  BY <2>8
    <3>2. TrueIn(Ends(Written), 1, h + k) \in Nat  BY <3>1, CountType
    <3> QED  BY <3>2, <2>8, CountsAre
  <2>20. PICK n \in Nat : n = rx_frames_pending  BY <1>1
  <2>21. n + (d + (s1 + s2) + f) = e /\ e <= h + k
    BY <2>10, <2>11, <2>12, <2>18, <2>19, <2>20
  <2>22. n + 1 <= PendMax  BY <2>7, <2>17, <2>21, <1>2
  <2> QED  BY <2>20, <2>22
<1> HIDE DEF up, down, b
<1>11. rx_frames_pending' \in Nat /\ rx_frames_pending' = rx_frames_pending + Up - Gone
  <2>1. CASE up /\ ~down
    <3>1. rx_frames_pending + 1 \in Nat /\ PendMax + 1 \in Nat
          /\ rx_frames_pending + 1 < PendMax + 1
      BY <2>1, <1>1, <1>2, <1>10
    <3>2. rx_frames_pending' = rx_frames_pending + 1
      BY <2>1, <3>1, <1>8, ModSmall
    <3> QED  BY <2>1, <3>1, <3>2, <1>1, <1>4
  <2>2. CASE down /\ ~up
    <3>1. rx_frames_pending' = rx_frames_pending - 1 /\ rx_frames_pending > 0
      BY <2>2, <1>1, <1>8, <1>9
    <3> QED  BY <2>2, <3>1, <1>1, <1>4
  <2>3. CASE up /\ down
    <3>1. rx_frames_pending' = rx_frames_pending  BY <2>3, <1>8
    <3> QED  BY <2>3, <3>1, <1>1, <1>4
  <2>4. CASE ~up /\ ~down
    <3>1. rx_frames_pending' = rx_frames_pending  BY <2>4, <1>8
    <3> QED  BY <2>4, <3>1, <1>1, <1>4
  <2> QED  BY <2>1, <2>2, <2>3, <2>4
<1> QED  BY <1>4, <1>6, <1>7, <1>11
\* The registers of the system side keep their types.
LEMMA SysKeeps ==
  ASSUME FlowInv, NEW m \in BOOLEAN, NEW s \in BOOLEAN,
         NEW sym \in Symbols, NEW er \in BOOLEAN, NEW toggle, Step(m, s, sym, er, toggle),
         NEW p \in 0 .. 1, NEW u \in 0 .. 1, Shape(m, s, p, u)
  PROVE  SysTypes'
<1>1. SysTypes /\ ReadInv /\ FifoInv /\ CountInv  BY DEF FlowInv
<1>2. CASE ~s  BY <1>1, <1>2 DEF Step, sysRegs, SysTypes
<1>3. CASE s
  <2>1. toggle \in BOOLEAN /\ {Fresh, Stage1, Stage2} \subseteq 0 .. 1
    BY ToggleMoves DEF FlowInv
  <2>2. SysEdge(toggle)  BY <1>3 DEF Step
  <2>3. ~Fifo!RdEmpty => Fifo!RdData = Written[1] /\ Written[1] \in Words
    <3>1. ~Fifo!RdEmpty => Written # << >> /\ Fifo!RdData = Written[1]  BY DEF Shape
    <3>2. Written \in Seq(Words)  BY DEF Shape
    <3> QED  BY <3>1, <3>2, FrontMoves
  <2>4. /\ toggle_s' \in [1 .. 3 -> BOOLEAN]
        /\ gmii_out' \in Bytes /\ rcv' \in Bytes /\ rx_pend' \in Bytes
        /\ rx_frame_done_pulse' \in BOOLEAN /\ rx_reading' \in BOOLEAN
        /\ rx_rd_en' \in BOOLEAN
    <3>1. /\ toggle_s' \in [1 .. 3 -> BOOLEAN] /\ gmii_out' \in Bytes /\ rcv' \in Bytes
          /\ \/ /\ rx_pend' \in Bytes /\ rx_frame_done_pulse' = TRUE
                /\ rx_reading' = NextReady /\ rx_rd_en' = NextReady
             \/ /\ rx_pend' \in Bytes /\ rx_frame_done_pulse' = FALSE
                /\ rx_reading' = TRUE /\ rx_rd_en' = TRUE
             \/ /\ rx_pend' = rx_pend /\ rx_frame_done_pulse' = FALSE
                /\ rx_reading' = (FrameReady /\ ~Fifo!RdEmpty)
                /\ rx_rd_en' = (FrameReady /\ ~Fifo!RdEmpty)
      BY <1>1, <2>1, <2>2, <2>3, SysParts
    <3>2. rx_pend \in Bytes  BY <1>1 DEF SysTypes
    <3>3. NextReady \in BOOLEAN  BY DEF NextReady
    <3>4. (FrameReady /\ ~Fifo!RdEmpty) \in BOOLEAN  OBVIOUS
    <3> QED  BY <3>1, <3>2, <3>3, <3>4
  <2>5. rx_frames_pending' \in Nat /\ rx_avail_delay' \in [1 .. AvailDelay -> BOOLEAN]
    <3>1. TrackFrames(toggle)  BY <2>2 DEF SysEdge
    <3> QED  BY <1>1, <2>1, <3>1, PendingMoves
  <2> QED  BY <2>4, <2>5 DEF SysTypes
<1> QED  BY <1>2, <1>3

\* What the reader knows of is part of what is there.
LEMMA ViewFits ==
  ASSUME NEW a \in Nat, NEW b \in Nat, NEW x \in Nat, NEW y \in Nat, x <= b
  PROVE  a + x \in Nat /\ a + y \in Nat /\ a + x <= a + b
OBVIOUS

\* Every end word is counted once, on its way or pending, until its frame is retired.
LEMMA CountKeeps ==
  ASSUME FlowInv, NEW m \in BOOLEAN, NEW s \in BOOLEAN,
         NEW sym \in Symbols, NEW er \in BOOLEAN, NEW toggle, Step(m, s, sym, er, toggle),
         NEW p \in 0 .. 1, NEW u \in 0 .. 1, Shape(m, s, p, u)
  PROVE  CountInv'
<1>1. SysTypes /\ ReadInv /\ FifoInv /\ CountInv  BY DEF FlowInv
<1>2. SysTypes' /\ FifoInv'  BY SysKeeps DEF Shape
<1>3. /\ toggle \in BOOLEAN
      /\ {Fresh, Stage1, Stage2, Fresh', Stage1', Stage2', Ended(u)} \subseteq 0 .. 1
      /\ s => Fresh' + Stage1' = Fresh + Ended(u) /\ Stage2' = Stage1
      /\ ~s => Fresh' = Fresh + Ended(u) /\ Stage1' = Stage1 /\ Stage2' = Stage2
  BY ToggleMoves DEF FlowInv
<1>4. /\ Written \in Seq(Words) /\ Written' \in Seq(Words) /\ FifoDin \in Words
      /\ Moved(Written, Written', p, u, FifoDin)
      /\ Vis2 \in Nat /\ Vis1 \in Nat /\ Vis2 <= Vis1 /\ Vis1 <= Len(Written)
      /\ s => Vis2' = Vis1 - p /\ Vis1' \in {Len(Written'), Len(Written') - u}
      /\ ~s => Vis2' = Vis2 /\ Vis1' = Vis1
      /\ p = 1 <=> s /\ rx_reading
  BY DEF Shape
<1> PICK n \in Nat : n = Len(Written)  BY <1>4, EmptyLen
<1> PICK k \in Nat : k = Len(Written')  BY <1>4, EmptyLen
<1>5. p <= n /\ k = n - p + u  BY <1>4 DEF Moved
<1>6. PICK e, f, s1, s2, f1, t1, t2 \in 0 .. 1 :
        /\ e = Ended(u) /\ f = Fresh /\ s1 = Stage1 /\ s2 = Stage2
        /\ f1 = Fresh' /\ t1 = Stage1' /\ t2 = Stage2'
  BY <1>3
<1>7. \A c \in Nat : p <= c /\ c <= n =>
        TrueIn(Ends(Written'), c - p + 1, k) = TrueIn(Ends(Written), c + 1, n) + e
  <2> SUFFICES ASSUME NEW c \in Nat, p <= c, c <= n
               PROVE  TrueIn(Ends(Written'), c - p + 1, k)
                        = TrueIn(Ends(Written), c + 1, n) + e
    OBVIOUS
  <2>1. TrueIn(Ends(Written'), c - p + 1, Len(Written'))
          = TrueIn(Ends(Written), c + 1, Len(Written))
              + (IF u = 1 /\ FifoDin.eof THEN 1 ELSE 0)
    BY <1>4, EndsMove
  <2> QED  BY <2>1, <1>6 DEF Ended
<1>8. Vis2' \in Nat /\ Vis1' \in Nat /\ Vis1' <= k
  <2>1. head' \in Seq(Words) /\ q' \in Seq(Words) /\ seen1' \in Nat /\ seen2' \in Nat
        /\ seen1' <= Len(q')
    BY <1>2 DEF FifoInv
  <2> PICK a \in Nat : a = Len(head')  BY <2>1, EmptyLen
  <2> PICK b \in Nat : b = Len(q')  BY <2>1, EmptyLen
  <2>3. Len(Written') = a + b  BY <2>1, ConcatProperties DEF Written
  <2>4. Vis1' = a + seen1' /\ Vis2' = a + seen2'  BY DEF Vis1, Vis2
  <2> PICK x \in Nat : x = seen1'  BY <2>1
  <2> PICK y \in Nat : y = seen2'  BY <2>1
  <2>5. x <= b  BY <2>1
  <2>6. a + x \in Nat /\ a + y \in Nat /\ a + x <= a + b  BY <2>5, ViewFits
  <2> QED  BY <2>3, <2>4, <2>6
<1> PICK v1 \in Nat : v1 = Vis1  BY <1>4
<1> PICK v2 \in Nat : v2 = Vis2  BY <1>4
<1> PICK w1 \in Nat : w1 = Vis1'  BY <1>8
<1> PICK w2 \in Nat : w2 = Vis2'  BY <1>8
<1>9. PICK x1 \in Nat : x1 = TrueIn(Ends(Written), v1 + 1, n)
  <2>1. v1 + 1 \in Int /\ n \in Int  OBVIOUS
  <2> QED  BY <2>1, CountType
<1>10. PICK x2 \in Nat : x2 = TrueIn(Ends(Written), v2 + 1, n)
  <2>1. v2 + 1 \in Int /\ n \in Int  OBVIOUS
  <2> QED  BY <2>1, CountType
<1>11. x1 <= f + s1 /\ x2 <= f + s1 + s2
  BY <1>1, <1>6, <1>9, <1>10 DEF CountInv
<1>12. v1 <= n /\ v2 <= v1  BY <1>4
<1>13. /\ TrueIn(Ends(Written'), w1 + 1, k) <= f1 + t1
       /\ TrueIn(Ends(Written'), w2 + 1, k) <= f1 + t1 + t2
  <2>1. CASE s
    <3>1. w2 = v1 - p /\ (w1 = k \/ w1 = k - u)  BY <2>1, <1>4
    <3>2. p <= v1 /\ v1 - p + 1 = w2 + 1  BY <3>1
    <3>3. TrueIn(Ends(Written'), w2 + 1, k) = x1 + e
      BY <3>2, <1>7, <1>9, <1>12
    <3>4. f1 + t1 = f + e /\ t2 = s1  BY <2>1, <1>3, <1>6
    <3>5. TrueIn(Ends(Written'), w2 + 1, k) <= f1 + t1 + t2  BY <3>3, <3>4, <1>11
    <3>6. CASE w1 = k
      <4>1. TrueIn(Ends(Written'), k + 1, k) = 0
        <5>1. k + 1 \in Int /\ k \in Int /\ k < k + 1  OBVIOUS
        <5> QED  BY <5>1, CountNone
      <4> QED  BY <4>1, <3>5, <3>6
    <3>7. CASE w1 = k - u
      <4>1. TrueIn(Ends(Written), n + 1, n) = 0
        <5>1. n + 1 \in Int /\ n \in Int /\ n < n + 1  OBVIOUS
        <5> QED  BY <5>1, CountNone
      <4>2. TrueIn(Ends(Written'), n - p + 1, k) = 0 + e  BY <4>1, <1>5, <1>7
      <4>3. n - p + 1 = w1 + 1  BY <3>7, <1>5
      <4>4. TrueIn(Ends(Written'), w1 + 1, k) = e  BY <4>2, <4>3
      <4> QED  BY <4>4, <3>4, <3>5
    <3> QED  BY <3>1, <3>6, <3>7
  <2>2. CASE ~s
    <3>1. w1 = v1 /\ w2 = v2 /\ p = 0  BY <2>2, <1>4
    <3>2. v1 - p + 1 = w1 + 1 /\ v2 - p + 1 = w2 + 1 /\ p <= v1 /\ p <= v2 /\ v2 <= n
      BY <3>1, <1>12
    <3>3. TrueIn(Ends(Written'), w1 + 1, k) = x1 + e  BY <3>2, <1>7, <1>9, <1>12
    <3>4. TrueIn(Ends(Written'), w2 + 1, k) = x2 + e  BY <3>2, <1>7, <1>10, <1>12
    <3>5. f1 = f + e /\ t1 = s1 /\ t2 = s2  BY <2>2, <1>3, <1>6
    <3> QED  BY <3>3, <3>4, <3>5, <1>11
  <2> QED  BY <2>1, <2>2
<1>14. PICK y \in Nat : y = TrueIn(Ends(Written), p + 1, n)
  <2>1. p + 1 \in Int /\ n \in Int  OBVIOUS
  <2> QED  BY <2>1, CountType
<1>15. PICK r \in 0 .. 1 : r = Retired(p)
  <2>1. Retired(p) \in 0 .. 1  BY DEF Retired
  <2> QED  BY <2>1
<1>16. EofsHeld = r + y
  <2>1. TrueIn(Ends(Written), 1, n) = (IF p = 1 /\ Written[1].eof THEN 1 ELSE 0)
                                        + TrueIn(Ends(Written), p + 1, n)
    BY <1>4, <1>5, EndsSplit
  <2>2. EofsHeld = TrueIn(Ends(Written), 1, n)  BY <1>1, CountsAre
  <2> QED  BY <2>1, <2>2, <1>14, <1>15 DEF Retired
<1>17. EofsHeld' = y + e
  <2>1. p \in Nat /\ p <= p /\ p - p + 1 = 1  OBVIOUS
  <2>2. TrueIn(Ends(Written'), 1, k) = y + e  BY <2>1, <1>5, <1>7, <1>14
  <2>3. EofsHeld' = TrueIn(Ends(Written'), 1, k)  BY <1>2, CountsAreNext
  <2> QED  BY <2>2, <2>3
<1>18. 1 \in Int /\ AvailDelay \in Int  BY CdcRxAssumption
<1>19. PICK d \in Nat : d = TrueIn(rx_avail_delay, 1, AvailDelay)  BY <1>18, CountType
<1>20. PICK g \in Nat : g = TrueIn(rx_avail_delay', 1, AvailDelay)  BY <1>18, CountType
<1>21. InTransit = d + (s1 + s2) + f /\ InTransit' = g + (t1 + t2) + f1
  BY <1>1, <1>2, <1>6, <1>19, <1>20, CountsAre, CountsAreNext
<1>22. PICK a \in Nat : a = rx_frames_pending  BY <1>1 DEF SysTypes
<1>23. PICK b \in Nat : b = rx_frames_pending'  BY <1>2 DEF SysTypes
<1>24. PICK o \in 0 .. 1 : o = DoneInflight
  <2>1. DoneInflight \in 0 .. 1  BY DEF DoneInflight
  <2> QED  BY <2>1
<1>25. a + (d + (s1 + s2) + f) = r + y + o
  BY <1>1, <1>16, <1>21, <1>22, <1>24 DEF CountInv, PendingIsExact
<1>26. PendingIsExact'
  <2>1. CASE s
    <3>1. SysEdge(toggle)  BY <2>1 DEF Step
    <3>2. TrackFrames(toggle)  BY <3>1 DEF SysEdge
    <3>3. /\ rx_frames_pending' = rx_frames_pending + Up - Gone
          /\ Up \in 0 .. 1 /\ Gone \in 0 .. 1
          /\ TrueIn(rx_avail_delay', 1, AvailDelay) + Up
               = Stage2 + TrueIn(rx_avail_delay, 1, AvailDelay)
      BY <1>1, <1>3, <3>2, PendingMoves
    <3>4. Gone = o  BY <1>24 DEF Gone, DoneInflight, One
    <3>5. PICK i \in 0 .. 1 : i = Up  BY <3>3
    <3>6. b = a + i - o /\ g + i = s2 + d
      BY <3>3, <3>4, <3>5, <1>6, <1>19, <1>20, <1>22, <1>23
    <3>7. DoneInflight' = r
      <4>1. ~Fifo!RdEmpty => Fifo!RdData = Written[1] /\ Written[1] \in Words
        <5>1. ~Fifo!RdEmpty => Written # << >> /\ Fifo!RdData = Written[1]  BY DEF Shape
        <5> QED  BY <5>1, <1>4, FrontMoves
      <4>2. \/ rx_reading /\ Written[1].eof /\ rx_frame_done_pulse' = TRUE
            \/ rx_reading /\ ~Written[1].eof /\ rx_frame_done_pulse' = FALSE
            \/ ~rx_reading /\ rx_frame_done_pulse' = FALSE
        BY <1>1, <1>3, <3>1, <4>1, SysParts
      <4>3. p = 1 <=> rx_reading  BY <2>1, <1>4
      <4>4. DoneInflight' = IF rx_frame_done_pulse' THEN 1 ELSE 0  BY DEF DoneInflight
      <4> QED  BY <4>2, <4>3, <4>4, <1>15 DEF Retired
    <3>8. f1 + t1 = f + e /\ t2 = s1  BY <2>1, <1>3, <1>6
    <3>9. b + (g + (t1 + t2) + f1) = (y + e) + r  BY <3>6, <3>8, <1>25
    <3> QED  BY <3>7, <3>9, <1>17, <1>21, <1>23 DEF PendingIsExact
  <2>2. CASE ~s
    <3>1. /\ rx_frames_pending' = rx_frames_pending /\ rx_avail_delay' = rx_avail_delay
          /\ rx_frame_done_pulse' = rx_frame_done_pulse
      BY <2>2 DEF Step, sysRegs
    <3>2. b = a /\ g = d /\ DoneInflight' = o
      BY <3>1, <1>19, <1>20, <1>22, <1>23, <1>24 DEF DoneInflight
    <3>3. r = 0  BY <2>2, <1>4, <1>15 DEF Retired
    <3>4. f1 = f + e /\ t1 = s1 /\ t2 = s2  BY <2>2, <1>3, <1>6
    <3>5. b + (g + (t1 + t2) + f1) = (y + e) + o  BY <3>2, <3>3, <3>4, <1>25
    <3> QED  BY <3>2, <3>5, <1>17, <1>21, <1>23 DEF PendingIsExact
  <2> QED  BY <2>1, <2>2
<1> QED  BY <1>6, <1>13, <1>26 DEF CountInv
\* The reader sees the end of every frame it has been told of.
LEMMA VisibleFrames ==
  ASSUME FlowInv
  PROVE  /\ TrueIn(Ends(Written), 1, Vis2) \in Nat
         /\ rx_frames_pending <= TrueIn(Ends(Written), 1, Vis2) + DoneInflight
<1>1. SysTypes /\ FifoInv /\ CountInv  BY DEF FlowInv
<1>2. q \in Seq(Words) /\ head \in Seq(Words) /\ seen2 \in Nat /\ seen1 \in Nat
      /\ seen2 <= seen1 /\ seen1 <= Len(q)
  BY <1>1 DEF FifoInv
<1>3. Len(q) \in Nat /\ Len(head) \in Nat /\ Len(Written) = Len(head) + Len(q)
  BY <1>2, EmptyLen, ConcatProperties DEF Written
<1>4. Vis2 \in Nat /\ Vis2 <= Len(Written) /\ Len(Written) \in Nat  BY <1>2, <1>3 DEF Vis2
<1> PICK n \in Nat : n = Len(Written)  BY <1>4
<1> PICK v \in Nat : v = Vis2  BY <1>4
<1>5. /\ 1 \in Int /\ v \in Int /\ n \in Int /\ v + 1 \in Int /\ AvailDelay \in Int
      /\ 1 <= v + 1 /\ v <= n
  BY <1>4, CdcRxAssumption
<1>6. PICK z \in Nat : z = TrueIn(Ends(Written), 1, v)  BY <1>5, CountType
<1>7. PICK x \in Nat : x = TrueIn(Ends(Written), v + 1, n)  BY <1>5, CountType
<1>8. PICK d \in Nat : d = TrueIn(rx_avail_delay, 1, AvailDelay)  BY <1>5, CountType
<1>9. EofsHeld = z + x
  <2>1. TrueIn(Ends(Written), 1, n) = TrueIn(Ends(Written), 1, v)
                                        + TrueIn(Ends(Written), v + 1, n)
    BY <1>5, CountSplit
  <2> QED  BY <2>1, <1>1, <1>6, <1>7, CountsAre
<1>10. PICK f, s1, s2, o \in 0 .. 1 :
         f = Fresh /\ s1 = Stage1 /\ s2 = Stage2 /\ o = DoneInflight
  <2>1. {Fresh, Stage1, Stage2, DoneInflight} \subseteq 0 .. 1
    BY DEF Fresh, Stage1, Stage2, DoneInflight, One
  <2> QED  BY <2>1
<1>11. PICK a \in Nat : a = rx_frames_pending  BY <1>1 DEF SysTypes
<1>12. x <= f + s1 + s2  BY <1>1, <1>7, <1>10 DEF CountInv
<1>13. a + (d + (s1 + s2) + f) = (z + x) + o
  BY <1>1, <1>8, <1>9, <1>10, <1>11, CountsAre DEF CountInv, PendingIsExact
<1>14. a <= z + o  BY <1>12, <1>13
<1> QED  BY <1>6, <1>10, <1>11, <1>14

\* The reader starts and goes on only while it sees a whole frame.
LEMMA ReadKeeps ==
  ASSUME FlowInv, NEW m \in BOOLEAN, NEW s \in BOOLEAN,
         NEW sym \in Symbols, NEW er \in BOOLEAN, NEW toggle, Step(m, s, sym, er, toggle),
         NEW p \in 0 .. 1, NEW u \in 0 .. 1, Shape(m, s, p, u)
  PROVE  ReadInv'
<1>1. SysTypes /\ ReadInv /\ FifoInv /\ CountInv  BY DEF FlowInv
<1>2. CASE ~s
  <2>1. /\ rx_frames_pending' = rx_frames_pending /\ rx_frame_done_pulse' = rx_frame_done_pulse
        /\ rx_reading' = rx_reading /\ rx_rd_en' = rx_rd_en /\ rx_pend' = rx_pend
    BY <1>2 DEF Step, sysRegs
  <2>2. Fifo!RdEmpty' = Fifo!RdEmpty  BY <1>2 DEF Shape
  <2>3. FrameReady' <=> FrameReady  BY <2>1 DEF FrameReady, DoneInflight
  <2> QED  BY <1>1, <2>1, <2>2, <2>3 DEF ReadInv
<1>3. CASE s
  <2>1. toggle \in BOOLEAN /\ {Fresh, Stage1, Stage2} \subseteq 0 .. 1
    BY ToggleMoves DEF FlowInv
  <2>2. SysEdge(toggle) /\ TrackFrames(toggle)  BY <1>3 DEF Step, SysEdge
  <2>3. ~Fifo!RdEmpty => Fifo!RdData = Written[1] /\ Written[1] \in Words /\ Written # << >>
    <3>1. ~Fifo!RdEmpty => Written # << >> /\ Fifo!RdData = Written[1]  BY DEF Shape
    <3>2. Written \in Seq(Words)  BY DEF Shape
    <3> QED  BY <3>1, <3>2, FrontMoves
  <2>4. \/ /\ rx_reading /\ ~Fifo!RdEmpty /\ Written[1].eof
           /\ ~rx_pend'.valid /\ rx_frame_done_pulse' = TRUE
           /\ rx_reading' = NextReady /\ rx_rd_en' = NextReady
        \/ /\ rx_reading /\ ~Fifo!RdEmpty /\ ~Written[1].eof
           /\ rx_frame_done_pulse' = FALSE
           /\ rx_reading' = TRUE /\ rx_rd_en' = TRUE
        \/ /\ ~rx_reading
           /\ rx_pend' = rx_pend /\ rx_frame_done_pulse' = FALSE
           /\ rx_reading' = (FrameReady /\ ~Fifo!RdEmpty)
           /\ rx_rd_en' = (FrameReady /\ ~Fifo!RdEmpty)
    BY <1>1, <2>1, <2>2, <2>3, SysParts
  <2>5. /\ rx_frames_pending' = rx_frames_pending + Up - Gone
        /\ Up \in 0 .. 1 /\ Gone \in 0 .. 1
    BY <1>1, <2>1, <2>2, PendingMoves
  <2>6. PICK a \in Nat : a = rx_frames_pending  BY <1>1 DEF SysTypes
  <2>7. SysTypes'  BY SysKeeps
  <2>8. PICK b \in Nat : b = rx_frames_pending'  BY <2>7 DEF SysTypes
  <2>9. PICK o \in 0 .. 1 : o = DoneInflight /\ o = Gone
    <3>1. DoneInflight = Gone  BY DEF Gone, DoneInflight, One
    <3> QED  BY <3>1, <2>5
  <2>10. PICK i \in 0 .. 1 : i = Up  BY <2>5
  <2>11. b = a + i - o  BY <2>5, <2>6, <2>8, <2>9, <2>10
  <2>12. (FrameReady <=> a > o) /\ (NextReady <=> a > o + 1)
    BY <2>6, <2>9 DEF FrameReady, NextReady
  <2>13. FrameReady' <=> b > (IF rx_frame_done_pulse' THEN 1 ELSE 0)
    BY <2>8 DEF FrameReady, DoneInflight
  <2>14. /\ s /\ ~Fifo!RdEmpty /\ (~rx_reading \/ Vis2 >= 2) => ~Fifo!RdEmpty'
         /\ Vis2 \in Nat
    BY DEF Shape
  <2>15. PICK v \in Nat : v = Vis2  BY <2>14
  <2>16. PICK z \in Nat : z = TrueIn(Ends(Written), 1, v) /\ a <= z + o
    BY <2>6, <2>9, <2>15, VisibleFrames
  <2>17. z <= v  BY <2>16, CountBound
  <2>18. rx_reading => a > o  BY <1>1, <2>12 DEF ReadInv
  <2>19. CASE /\ rx_reading /\ ~Fifo!RdEmpty /\ Written[1].eof
              /\ ~rx_pend'.valid /\ rx_frame_done_pulse' = TRUE
              /\ rx_reading' = NextReady /\ rx_rd_en' = NextReady
    <3>1. b > 0  BY <2>19, <2>11, <2>18
    <3>2. ASSUME rx_reading' PROVE FrameReady' /\ ~Fifo!RdEmpty'
      <4>1. a > o + 1  BY <3>2, <2>12, <2>19
      <4>2. b > 1  BY <4>1, <2>11
      <4>3. v >= 2  BY <4>1, <2>16, <2>17
      <4> QED  BY <4>2, <4>3, <2>13, <2>14, <2>15, <2>19, <1>3
    <3> QED  BY <3>1, <3>2, <2>8, <2>19 DEF ReadInv
  <2>20. CASE /\ rx_reading /\ ~Fifo!RdEmpty /\ ~Written[1].eof
              /\ rx_frame_done_pulse' = FALSE
              /\ rx_reading' = TRUE /\ rx_rd_en' = TRUE
    <3>1. b > 0  BY <2>20, <2>11, <2>18
    <3>2. z >= 1  BY <2>16, <2>18, <2>20
    <3>3. v # 1
      <4> SUFFICES ASSUME v = 1 PROVE FALSE  OBVIOUS
      <4>1. TrueIn(Ends(Written), 1, 1) = One(Ends(Written)[1])  BY CountOne
      <4>2. Written \in Seq(Words) /\ Written # << >>  BY <2>3, <2>20 DEF Shape
      <4>3. Len(Written) \in Nat /\ Len(Written) > 0  BY <4>2, EmptyLen
      <4>4. 1 \in 1 .. Len(Written)  BY <4>3
      <4>5. Ends(Written)[1] = Written[1].eof  BY <4>4 DEF Ends
      <4>6. z = 0  BY <4>1, <4>5, <2>16, <2>20 DEF One
      <4> QED  BY <4>6, <3>2
    <3>4. v >= 2  BY <3>2, <3>3, <2>17
    <3>5. FrameReady' /\ ~Fifo!RdEmpty'
      BY <3>1, <3>4, <2>13, <2>14, <2>15, <2>20, <1>3
    <3> QED  BY <3>5, <2>20 DEF ReadInv
  <2>21. CASE /\ ~rx_reading
              /\ rx_pend' = rx_pend /\ rx_frame_done_pulse' = FALSE
              /\ rx_reading' = (FrameReady /\ ~Fifo!RdEmpty)
              /\ rx_rd_en' = (FrameReady /\ ~Fifo!RdEmpty)
    <3>1. ASSUME rx_reading' PROVE FrameReady' /\ ~Fifo!RdEmpty'
      <4>1. FrameReady /\ ~Fifo!RdEmpty  BY <3>1, <2>21
      <4>2. b > 0  BY <4>1, <2>11, <2>12
      <4> QED  BY <4>1, <4>2, <2>13, <2>14, <2>21, <1>3
    <3>2. ~rx_pend'.valid  BY <2>21, <1>1 DEF ReadInv
    <3> QED  BY <3>1, <3>2, <2>21 DEF ReadInv
  <2> QED  BY <2>4, <2>19, <2>20, <2>21
<1> QED  BY <1>2, <1>3

\* The flow of words, toggles and counts is kept by every step.
LEMMA FlowKeeps ==
  ASSUME FlowInv, NEW m \in BOOLEAN, NEW s \in BOOLEAN,
         NEW sym \in Symbols, NEW er \in BOOLEAN, NEW toggle, Step(m, s, sym, er, toggle),
         NEW p \in 0 .. 1, NEW u \in 0 .. 1, Shape(m, s, p, u)
  PROVE  FlowInv'
<1>1. FifoInv'  BY DEF Shape
<1>2. RoomInv'  BY RoomKeeps DEF FlowInv
<1>3. MediaInv'
  <2>1. CASE m
    <3>1. MediaEdge(sym, er)  BY <2>1 DEF Step
    <3> QED  BY <3>1, MediaKeeps DEF FlowInv
  <2>2. CASE ~m
    <3>1. UNCHANGED mediaRegs  BY <2>2 DEF Step
    <3>2. MediaInv  BY DEF FlowInv
    <3> QED  BY <3>1, <3>2 DEF mediaRegs, MediaInv, WritesByte, WritesEof, InFrame
  <2> QED  BY <2>1, <2>2
<1>4. PaceInv'  BY ToggleMoves DEF FlowInv
<1> QED  BY <1>1, <1>2, <1>3, <1>4, SysKeeps, CountKeeps, ReadKeeps DEF FlowInv
-----------------------------------------------------------------------------
(* The order of the words.                                                  *)

\* What the media side does in a step, as far as the words are concerned.
LEMMA MediaFlow ==
  ASSUME MediaInv, NEW m \in BOOLEAN, NEW s \in BOOLEAN,
         NEW sym \in Symbols, NEW er \in BOOLEAN, NEW toggle, Step(m, s, sym, er, toggle),
         NEW p \in 0 .. 1, NEW u \in 0 .. 1, Shape(m, s, p, u)
  PROVE  /\ line.fid \in Nat /\ line'.fid \in Nat /\ line.fid <= line'.fid
         /\ Offered \in Int
         /\ InFrame' => (InFrame /\ line'.fid = line.fid) \/ line'.fid = line.fid + 1
         /\ u = 1 =>
              /\ m /\ WrAccept /\ InFrame /\ FifoDin.fid = line.fid
              /\ FifoDin.eof => WritesEof /\ ~rx_dv_d1
              /\ ~FifoDin.eof => /\ rx_dv_d1 /\ ~rx_drop
                                 /\ FifoDin.idx = Offered /\ Offered + 1 = line.len
         /\ FifoDin.fid \in Nat /\ FifoDin.idx \in Nat
<1>1. line.fid \in Nat /\ line.len \in Nat  BY DEF MediaInv
<1>2. rx_wr.word \in Words /\ FifoDin \in Words  BY FifoDinParts DEF MediaInv
<1>3. /\ line'.fid \in Nat /\ line.fid <= line'.fid
      /\ InFrame' => (InFrame /\ line'.fid = line.fid) \/ line'.fid = line.fid + 1
  <2>1. CASE m
    <3>1. MediaEdge(sym, er)  BY <2>1 DEF Step
    <3>2. \/ rx_dv_d1 /\ InFrame' /\ line'.fid = line.fid
          \/ ~InFrame' /\ line'.fid = line.fid
          \/ ~InFrame /\ InFrame' /\ line'.fid = line.fid + 1
      BY <3>1, MediaKeeps
    <3>3. rx_dv_d1 => InFrame  BY DEF InFrame
    <3> QED  BY <3>2, <3>3, <1>1
  <2>2. CASE ~m
    <3>1. line' = line /\ rx_wr' = rx_wr /\ rx_dv_d1' = rx_dv_d1
      BY <2>2 DEF Step, mediaRegs
    <3>2. InFrame' <=> InFrame  BY <3>1 DEF InFrame, WritesEof
    <3> QED  BY <3>1, <3>2, <1>1
  <2> QED  BY <2>1, <2>2
<1>4. u = 1 => m /\ WrAccept /\ rx_wr.en  BY DEF Shape, WrAccept
<1>5. FifoDin.eof = rx_wr.word.eof /\ FifoDin.fid = rx_wr.word.fid
      /\ (~rx_wr.word.eof => FifoDin = rx_wr.word)
  BY FifoDinParts
<1>6. u = 1 => FifoDin.fid = line.fid  BY <1>4, <1>5 DEF MediaInv
<1>7. u = 1 /\ FifoDin.eof => WritesEof /\ ~rx_dv_d1 /\ InFrame
  BY <1>4, <1>5 DEF MediaInv, WritesEof, InFrame
<1>8. u = 1 /\ ~FifoDin.eof => WritesByte /\ rx_dv_d1 /\ ~rx_drop /\ InFrame
                                /\ FifoDin.idx + 1 = line.len
  BY <1>4, <1>5 DEF MediaInv, WritesByte, InFrame, WrAccept
<1>9. Offered \in Int /\ (WritesByte => Offered = line.len - 1)
  BY <1>1 DEF Offered
<1>10. FifoDin.fid \in Nat /\ FifoDin.idx \in Nat  BY <1>2 DEF Words
<1>11. u = 1 /\ ~FifoDin.eof => FifoDin.idx = Offered /\ Offered + 1 = line.len
  BY <1>1, <1>8, <1>9, <1>10
<1> QED  BY <1>1, <1>3, <1>4, <1>6, <1>7, <1>8, <1>9, <1>10, <1>11

\* The word that joins continues the last one.
LEMMA JoinsTail ==
  ASSUME MediaInv, TailInv, NEW m \in BOOLEAN, NEW s \in BOOLEAN,
         NEW sym \in Symbols, NEW er \in BOOLEAN, NEW toggle, Step(m, s, sym, er, toggle),
         NEW p \in 0 .. 1, NEW u \in 0 .. 1, Shape(m, s, p, u), u = 1
  PROVE  /\ Len(Written) > 0 => Joins(Written[Len(Written)], FifoDin)
         /\ Written = << >> /\ ~FifoDin.eof => FifoDin.idx = 0
<1>1. /\ FifoDin.fid = line.fid /\ InFrame
      /\ ~FifoDin.eof => ~rx_drop /\ FifoDin.idx = Offered
  BY MediaFlow
<1>2. Written \in Seq(Words)  BY DEF Shape
<1>3. Written = << >> /\ ~FifoDin.eof => FifoDin.idx = 0  BY <1>1 DEF TailInv
<1>4. ASSUME Len(Written) > 0
      PROVE  Joins(Written[Len(Written)], FifoDin)
  <2>1. Written # << >>
    <3>1. Written = << >> => Len(Written) = 0  BY <1>2, EmptyLen
    <3> QED  BY <3>1, <1>4
  <2> DEFINE x == Written[Len(Written)]
  <2>2. IF x.eof THEN InFrame /\ ~rx_drop => Offered = 0
                 ELSE /\ InFrame /\ x.fid = line.fid
                      /\ IF rx_drop THEN x.idx + 1 < Offered ELSE x.idx + 1 = Offered
    BY <2>1 DEF TailInv
  <2> HIDE DEF x
  <2>3. Joins(x, FifoDin)  BY <2>2, <1>1 DEF Joins
  <2> QED  BY <2>3 DEF x
<1> QED  BY <1>3, <1>4

\* The words stay in order.
LEMMA OrderKeeps ==
  ASSUME MediaInv, TailInv, OrderInv, NEW m \in BOOLEAN, NEW s \in BOOLEAN,
         NEW sym \in Symbols, NEW er \in BOOLEAN, NEW toggle, Step(m, s, sym, er, toggle),
         NEW p \in 0 .. 1, NEW u \in 0 .. 1, Shape(m, s, p, u)
  PROVE  OrderInv'
<1>1. /\ Written \in Seq(Words) /\ Written' \in Seq(Words) /\ FifoDin \in Words
      /\ Moved(Written, Written', p, u, FifoDin)
  BY DEF Shape
<1>2. /\ line.fid \in Nat /\ line'.fid \in Nat /\ line.fid <= line'.fid
      /\ InFrame' => (InFrame /\ line'.fid = line.fid) \/ line'.fid = line.fid + 1
      /\ u = 1 => m /\ InFrame /\ FifoDin.fid = line.fid
      /\ u = 1 /\ FifoDin.eof => WritesEof /\ ~rx_dv_d1
  BY MediaFlow
<1>3. UpTo(Written, line.fid, InFrame) /\ Ordered(Written) /\ Linked(Written)
  BY DEF OrderInv
<1>4. \A i \in 1 .. Len(Written) : u = 1 => Precedes(Written[i], FifoDin)
  <2> SUFFICES ASSUME NEW i \in 1 .. Len(Written), u = 1
               PROVE  Precedes(Written[i], FifoDin)
    OBVIOUS
  <2>1. Written[i].fid <= line.fid /\ (Written[i].eof => Written[i].fid < line.fid)
    BY <1>2, <1>3 DEF UpTo
  <2> QED  BY <2>1, <1>2 DEF Precedes
<1>5. Ordered(Written')  BY <1>1, <1>3, <1>4, OrderedMoves
<1>6. u = 1 /\ Len(Written) > 0 => Joins(Written[Len(Written)], FifoDin)
  BY JoinsTail
<1>7. Linked(Written')  BY <1>1, <1>3, <1>6, LinkedMoves
<1>8. UpTo(Written', line'.fid, InFrame')
  <2> SUFFICES ASSUME NEW i \in 1 .. Len(Written')
               PROVE  /\ Written'[i].fid <= line'.fid
                      /\ Written'[i].eof /\ InFrame' => Written'[i].fid < line'.fid
    BY DEF UpTo
  <2>1. \/ \E j \in 1 .. Len(Written) : Written'[i] = Written[j]
        \/ u = 1 /\ Written'[i] = FifoDin
    BY <1>1, WordsAfter
  <2>2. CASE \E j \in 1 .. Len(Written) : Written'[i] = Written[j]
    <3>1. PICK j \in 1 .. Len(Written) : Written'[i] = Written[j]  BY <2>2
    <3>2. Written[j].fid <= line.fid /\ (Written[j].eof /\ InFrame => Written[j].fid < line.fid)
      BY <1>3 DEF UpTo
    <3>3. Written[j].fid \in Nat
      <4>1. Written[j] \in Words  BY <1>1, ElementOfSeq
      <4> QED  BY <4>1 DEF Words
    <3>4. PICK f \in Nat : f = Written[j].fid  BY <3>3
    <3>5. PICK a \in Nat : a = line.fid  BY <1>2
    <3>6. PICK b \in Nat : b = line'.fid  BY <1>2
    <3>7. f <= a /\ (Written[j].eof /\ InFrame => f < a)  BY <3>2, <3>4, <3>5
    <3>8. a <= b /\ (InFrame' => (InFrame /\ b = a) \/ b = a + 1)
      BY <3>5, <3>6, <1>2
    <3>9. f <= b  BY <3>7, <3>8
    <3>10. Written[j].eof /\ InFrame' => f < b  BY <3>7, <3>8
    <3> QED  BY <3>1, <3>4, <3>6, <3>9, <3>10
  <2>3. CASE u = 1 /\ Written'[i] = FifoDin
    <3>1. FifoDin.fid = line.fid  BY <2>3, <1>2
    <3>2. FifoDin.eof /\ InFrame' => line'.fid = line.fid + 1
      <4> SUFFICES ASSUME FifoDin.eof, InFrame' PROVE line'.fid = line.fid + 1  OBVIOUS
      <4>1. m /\ WritesEof /\ ~rx_dv_d1  BY <2>3, <1>2
      <4>2. MediaEdge(sym, er)  BY <4>1 DEF Step
      <4>3. \/ rx_dv_d1
            \/ ~InFrame'
            \/ ~InFrame /\ InFrame' /\ line'.fid = line.fid + 1
        BY <4>2, MediaKeeps
      <4> QED  BY <4>1, <4>3
    <3> QED  BY <2>3, <3>1, <3>2, <1>2
  <2> QED  BY <2>1, <2>2, <2>3
<1> QED  BY <1>5, <1>7, <1>8 DEF OrderInv
-----------------------------------------------------------------------------
(* The reader's end of the words.                                           *)

\* While a byte is held, the end of its frame is still in the queue.
LEMMA HeldHasWords ==
  ASSUME ReadInv, NEW m, NEW s, NEW p, NEW u, Shape(m, s, p, u)
  PROVE  rx_pend.valid => Len(Written) > 0
<1>1. Written \in Seq(Words) /\ (~Fifo!RdEmpty => Written # << >>)  BY DEF Shape
<1>2. Written # << >> => Len(Written) > 0  BY <1>1, EmptyLen
<1> QED  BY <1>1, <1>2 DEF ReadInv

\* What the reader does in a step, as far as the words are concerned.
LEMMA ReaderFlow ==
  ASSUME FlowInv, FlowInv', NEW m \in BOOLEAN, NEW s \in BOOLEAN,
         NEW sym \in Symbols, NEW er \in BOOLEAN, NEW toggle, Step(m, s, sym, er, toggle),
         NEW p \in 0 .. 1, NEW u \in 0 .. 1, Shape(m, s, p, u)
  PROVE  /\ Seen \in Nat /\ Seen' \in Nat /\ rx_pend \in Bytes /\ rx_pend' \in Bytes
         /\ p = 1 => s /\ Len(Written) > 0
         /\ p = 0 => rx_pend' = rx_pend /\ Seen' = Seen
         /\ p = 1 => Seen' = IF rx_pend.valid THEN rx_pend.fid ELSE Seen
         /\ p = 1 /\ Written[1].eof => ~rx_pend'.valid
         /\ p = 1 /\ ~Written[1].eof =>
              /\ rx_pend'.valid /\ rx_pend'.er = Written[1].err
              /\ rx_pend'.fid = Written[1].fid /\ rx_pend'.idx = Written[1].idx
              /\ Len(Written') > 0
         /\ rx_pend.valid => Len(Written) > 0
<1>1. SysTypes /\ SysTypes' /\ ReadInv /\ ReadInv' /\ FifoInv'  BY DEF FlowInv
<1>2. rx_pend \in Bytes /\ rx_pend' \in Bytes  BY <1>1 DEF SysTypes
<1>3. Seen \in Nat /\ Seen' \in Nat
  <2>1. gmii_out \in Bytes /\ rcv \in Bytes /\ gmii_out' \in Bytes /\ rcv' \in Bytes
    BY <1>1 DEF SysTypes
  <2> QED  BY <2>1 DEF Seen, Bytes
<1>4. /\ Written \in Seq(Words)
      /\ ~Fifo!RdEmpty => Written # << >> /\ Fifo!RdData = Written[1]
      /\ p = 1 <=> s /\ rx_reading
  BY DEF Shape
<1>5. ~Fifo!RdEmpty => Len(Written) > 0 /\ Written[1] \in Words
  BY <1>4, EmptyLen, FrontMoves
<1>6. rx_pend.valid => Len(Written) > 0  BY <1>1, <1>5 DEF ReadInv
<1>7. CASE ~s
  <2>1. rx_pend' = rx_pend /\ gmii_out' = gmii_out /\ rcv' = rcv
    BY <1>7 DEF Step, sysRegs
  <2>2. Seen' = Seen  BY <2>1 DEF Seen
  <2>3. p # 1  BY <1>4, <1>7
  <2> QED  BY <1>2, <1>3, <1>6, <2>1, <2>2, <2>3
<1>8. CASE s
  <2>1. toggle \in BOOLEAN  BY ToggleMoves DEF FlowInv
  <2>2. SysEdge(toggle)  BY <1>8 DEF Step
  <2>3. /\ gmii_out'.valid = rx_pend.valid
        /\ rx_pend.valid => gmii_out'.fid = rx_pend.fid
        /\ rcv'.fid = Seen
        /\ \/ /\ rx_reading /\ ~Fifo!RdEmpty /\ Written[1].eof
              /\ ~rx_pend'.valid
           \/ /\ rx_reading /\ ~Fifo!RdEmpty /\ ~Written[1].eof
              /\ rx_pend'.valid /\ rx_pend'.er = Written[1].err
              /\ rx_pend'.fid = Written[1].fid /\ rx_pend'.idx = Written[1].idx
              /\ rx_reading' = TRUE
           \/ /\ ~rx_reading
              /\ rx_pend' = rx_pend
    BY <1>1, <1>4, <1>5, <2>1, <2>2, SysParts
  <2>4. Seen' = IF rx_pend.valid THEN rx_pend.fid ELSE Seen  BY <2>3 DEF Seen
  <2>5. ~rx_reading => ~rx_pend.valid  BY <1>1 DEF ReadInv
  <2>6. rx_reading' => Len(Written') > 0
    <3> SUFFICES ASSUME rx_reading' PROVE Len(Written') > 0  OBVIOUS
    <3>1. ~Fifo!RdEmpty'  BY <1>1 DEF ReadInv
    <3>2. /\ head' \in Seq(Words) /\ q' \in Seq(Words) /\ seen1' \in Nat /\ seen2' \in Nat
          /\ seen2' <= seen1' /\ seen1' <= Len(q')
      BY <1>1 DEF FifoInv
    <3>3. PICK h \in Nat : h = Len(head')  BY <3>2, EmptyLen
    <3>4. PICK k \in Nat : k = Len(q')  BY <3>2, EmptyLen
    <3>5. Len(Written') = h + k  BY <3>2, <3>3, <3>4, ConcatProperties DEF Written
    <3>6. CASE Block
      <4>1. head' # << >>  BY <3>1, <3>6 DEF Fifo!RdEmpty
      <4>2. h > 0  BY <3>2, <3>3, <4>1, EmptyLen
      <4> QED  BY <4>2, <3>5
    <3>7. CASE ~Block
      <4>1. seen2' # 0  BY <3>1, <3>7 DEF Fifo!RdEmpty
      <4>2. k > 0  BY <3>2, <3>4, <4>1
      <4> QED  BY <4>2, <3>5
    <3> QED  BY <3>6, <3>7
  <2>7. p = 1 <=> rx_reading  BY <1>4, <1>8
  <2>8. p = 0 <=> ~rx_reading  BY <2>7
  <2>9. rx_reading => ~Fifo!RdEmpty  BY <1>1 DEF ReadInv
  <2> QED  BY <1>2, <1>3, <1>5, <1>6, <1>8, <2>3, <2>4, <2>5, <2>6, <2>7, <2>8, <2>9
<1> QED  BY <1>7, <1>8

\* The first word goes on where the held byte left off.
LEMMA FrontKeeps ==
  ASSUME FlowInv, FlowInv', TailInv, OrderInv, FrontInv,
         NEW m \in BOOLEAN, NEW s \in BOOLEAN,
         NEW sym \in Symbols, NEW er \in BOOLEAN, NEW toggle, Step(m, s, sym, er, toggle),
         NEW p \in 0 .. 1, NEW u \in 0 .. 1, Shape(m, s, p, u)
  PROVE  FrontInv'
<1>1. /\ Written \in Seq(Words) /\ Written' \in Seq(Words) /\ FifoDin \in Words
      /\ Moved(Written, Written', p, u, FifoDin)
  BY DEF Shape
<1>2. /\ line.fid \in Nat
      /\ u = 1 => m /\ InFrame /\ FifoDin.fid = line.fid
  BY MediaFlow DEF FlowInv
<1>3. /\ Seen \in Nat /\ Seen' \in Nat /\ rx_pend \in Bytes /\ rx_pend' \in Bytes
      /\ p = 1 => s /\ Len(Written) > 0
      /\ p = 0 => rx_pend' = rx_pend /\ Seen' = Seen
      /\ p = 1 => Seen' = IF rx_pend.valid THEN rx_pend.fid ELSE Seen
      /\ p = 1 /\ Written[1].eof => ~rx_pend'.valid
      /\ p = 1 /\ ~Written[1].eof =>
           /\ rx_pend'.valid
           /\ rx_pend'.fid = Written[1].fid /\ rx_pend'.idx = Written[1].idx
      /\ rx_pend.valid => Len(Written) > 0
  BY ReaderFlow
<1> PICK n \in Nat : n = Len(Written)  BY <1>1, EmptyLen
<1> PICK k \in Nat : k = Len(Written')  BY <1>1, EmptyLen
<1>4. (Written = << >> <=> n = 0) /\ (Written' = << >> <=> k = 0)
  <2>1. Written # << >> => n > 0  BY <1>1, EmptyLen
  <2>2. Written = << >> => n = 0  BY <1>1, EmptyLen
  <2>3. Written' # << >> => k > 0  BY <1>1, EmptyLen
  <2>4. Written' = << >> => k = 0  BY <1>1, EmptyLen
  <2> QED  BY <2>1, <2>2, <2>3, <2>4
<1>5. p <= n /\ k = n - p + u  BY <1>1 DEF Moved
<1>6. \A i \in 1 .. n : Written[i] \in Words /\ Written[i].fid \in Nat
  <2>1. \A i \in 1 .. n : Written[i] \in Words  BY <1>1, ElementOfSeq
  <2> QED  BY <2>1 DEF Words
<1>7. UpTo(Written, line.fid, InFrame) /\ Ordered(Written) /\ Linked(Written)
  BY DEF OrderInv
<1>8. rx_pend.fid \in Nat /\ rx_pend.idx \in Nat  BY <1>3 DEF Bytes
<1>9. \A i \in 1 .. n : IF rx_pend.valid THEN Written[i].fid >= rx_pend.fid
                                         ELSE Written[i].fid > Seen
  BY DEF FrontInv
<1>10. /\ n > 0 /\ rx_pend.valid => Written[1].fid = rx_pend.fid
       /\ n > 0 /\ ~Written[1].eof =>
            Written[1].idx = IF rx_pend.valid THEN rx_pend.idx + 1 ELSE 0
  BY <1>4 DEF FrontInv
<1>11. p = 1 => 1 \in 1 .. n  BY <1>5
\* the frame of the word that joins
<1>12. u = 1 => IF rx_pend.valid THEN line.fid >= rx_pend.fid ELSE line.fid > Seen
  <2> SUFFICES ASSUME u = 1
               PROVE  IF rx_pend.valid THEN line.fid >= rx_pend.fid ELSE line.fid > Seen
    OBVIOUS
  <2>1. CASE n = 0
    <3>1. ~rx_pend.valid  BY <2>1, <1>3
    <3>2. Seen < line.fid  BY <2>1, <1>2, <1>4 DEF TailInv
    <3> QED  BY <3>1, <3>2, <1>2, <1>3
  <2>2. CASE n > 0
    <3>1. 1 \in 1 .. n  BY <2>2
    <3>2. Written[1].fid <= line.fid  BY <3>1, <1>7 DEF UpTo
    <3>3. PICK f \in Nat : f = Written[1].fid  BY <3>1, <1>6
    <3>4. PICK l \in Nat : l = line.fid  BY <1>2
    <3>5. PICK g \in Nat : g = rx_pend.fid  BY <1>8
    <3>6. PICK h \in Nat : h = Seen  BY <1>3
    <3>7. f <= l /\ (IF rx_pend.valid THEN f >= g ELSE f > h)
      BY <3>1, <3>2, <3>3, <3>4, <3>5, <3>6, <1>9
    <3> QED  BY <3>4, <3>5, <3>6, <3>7
  <2> QED  BY <2>1, <2>2
<1>13. ASSUME NEW i \in 1 .. k
       PROVE  IF rx_pend'.valid THEN Written'[i].fid >= rx_pend'.fid
                                ELSE Written'[i].fid > Seen'
  <2>1. \/ \E j \in 1 .. n : j = i + p /\ Written'[i] = Written[j]
        \/ u = 1 /\ Written'[i] = FifoDin
    BY <1>1, WordsAfter
  <2>2. CASE p = 0
    <3>1. CASE \E j \in 1 .. n : j = i + p /\ Written'[i] = Written[j]
      BY <2>2, <3>1, <1>3, <1>9
    <3>2. CASE u = 1 /\ Written'[i] = FifoDin
      BY <2>2, <3>2, <1>2, <1>3, <1>12
    <3> QED  BY <2>1, <3>1, <3>2
  <2>3. CASE p = 1
    <3>1. 1 \in 1 .. n /\ Written[1].fid \in Nat  BY <2>3, <1>6, <1>11
    <3>2. PICK f \in Nat : f = Written[1].fid  BY <3>1
    <3>3. PICK x \in Nat : x = Written'[i].fid
      <4>1. Written'[i] \in Words  BY <1>1, ElementOfSeq
      <4>2. Written'[i].fid \in Nat  BY <4>1 DEF Words
      <4> QED  BY <4>2
    <3>4. f <= x /\ (Written[1].eof => f < x)
      <4>1. CASE \E j \in 1 .. n : j = i + p /\ Written'[i] = Written[j]
        <5>1. PICK j \in 1 .. n : j = i + p /\ Written'[i] = Written[j]  BY <4>1
        <5>2. 1 < j  BY <5>1, <2>3
        <5>3. Precedes(Written[1], Written[j])  BY <5>2, <3>1, <1>7 DEF Ordered
        <5> QED  BY <5>1, <5>3, <3>2, <3>3 DEF Precedes
      <4>2. CASE u = 1 /\ Written'[i] = FifoDin
        <5>1. x = line.fid /\ InFrame  BY <4>2, <3>3, <1>2
        <5>2. Written[1].fid <= line.fid /\ (Written[1].eof => Written[1].fid < line.fid)
          BY <5>1, <3>1, <1>7 DEF UpTo
        <5> QED  BY <5>1, <5>2, <3>2
      <4> QED  BY <2>1, <4>1, <4>2
    <3>5. CASE ~Written[1].eof
      <4>1. rx_pend'.valid /\ rx_pend'.fid = f  BY <2>3, <3>2, <3>5, <1>3
      <4> QED  BY <4>1, <3>3, <3>4
    <3>6. CASE Written[1].eof
      <4>1. ~rx_pend'.valid  BY <2>3, <3>6, <1>3
      <4>2. PICK h \in Nat : h = Seen'  BY <1>3
      <4>3. h <= f
        <5>1. CASE rx_pend.valid
          <6>1. h = rx_pend.fid  BY <5>1, <4>2, <2>3, <1>3
          <6>2. f = rx_pend.fid  BY <5>1, <3>1, <3>2, <1>10
          <6> QED  BY <6>1, <6>2
        <5>2. CASE ~rx_pend.valid
          <6>1. h = Seen  BY <5>2, <4>2, <2>3, <1>3
          <6>2. f > h  BY <5>2, <6>1, <3>1, <3>2, <1>9
          <6> QED  BY <6>2
        <5> QED  BY <5>1, <5>2
      <4>4. h < x  BY <4>3, <3>4, <3>6
      <4> QED  BY <4>1, <4>2, <4>4, <3>3
    <3> QED  BY <3>5, <3>6
  <2> QED  BY <2>2, <2>3
<1>14. k > 0 => Written'[1] = IF n > p THEN Written[1 + p] ELSE FifoDin
  BY <1>1, WordsAfter
<1>15. k > 0 /\ ~(n > p) => u = 1 /\ n = p  BY <1>5
<1>16. ASSUME k > 0
       PROVE  /\ rx_pend'.valid => Written'[1].fid = rx_pend'.fid
              /\ ~Written'[1].eof =>
                   Written'[1].idx = IF rx_pend'.valid THEN rx_pend'.idx + 1 ELSE 0
  <2>1. CASE p = 0 /\ n > 0
    <3>1. Written'[1] = Written[1]
      <4>1. 1 + p = 1 /\ n > p  BY <2>1
      <4> QED  BY <4>1, <1>14, <1>16
    <3>2. rx_pend' = rx_pend  BY <2>1, <1>3
    <3> QED  BY <3>1, <3>2, <2>1, <1>10
  <2>2. CASE p = 0 /\ n = 0
    <3>1. u = 1 /\ Written'[1] = FifoDin  BY <2>2, <1>14, <1>15, <1>16
    <3>2. ~rx_pend'.valid  BY <2>2, <1>3
    <3>3. ~FifoDin.eof => FifoDin.idx = 0
      BY <2>2, <3>1, <1>4, JoinsTail DEF FlowInv
    <3> QED  BY <3>1, <3>2, <3>3
  <2>3. CASE p = 1
    <3>1. Joins(Written[1], Written'[1])
      <4>1. CASE n > 1
        <5>1. Written'[1] = Written[2]
          <6>1. 1 + p = 2 /\ n > p  BY <2>3, <4>1
          <6> QED  BY <6>1, <1>14, <1>16
        <5>2. 1 \in 1 .. n - 1 /\ 1 + 1 = 2  BY <4>1
        <5> QED  BY <5>1, <5>2, <1>7 DEF Linked
      <4>2. CASE ~(n > 1)
        <5>1. n = 1 /\ u = 1 /\ Written'[1] = FifoDin
          BY <2>3, <4>2, <1>5, <1>14, <1>15, <1>16
        <5>2. Joins(Written[n], FifoDin)
          BY <5>1, JoinsTail DEF FlowInv
        <5> QED  BY <5>1, <5>2
      <4> QED  BY <4>1, <4>2
    <3>2. CASE Written[1].eof
      <4>1. ~rx_pend'.valid  BY <2>3, <3>2, <1>3
      <4> QED  BY <4>1, <3>1, <3>2 DEF Joins
    <3>3. CASE ~Written[1].eof
      <4>1. /\ rx_pend'.valid /\ rx_pend'.fid = Written[1].fid
            /\ rx_pend'.idx = Written[1].idx
        BY <2>3, <3>3, <1>3
      <4> QED  BY <4>1, <3>1, <3>3 DEF Joins
    <3> QED  BY <3>2, <3>3
  <2>4. p = 0 \/ p = 1  OBVIOUS
  <2>5. n = 0 \/ n > 0  OBVIOUS
  <2> QED  BY <2>1, <2>2, <2>3, <2>4, <2>5
<1>17. Written' # << >> => k > 0  BY <1>4
<1> QED  BY <1>13, <1>16, <1>17 DEF FrontInv
\* The outputs show the bytes one after the other.
LEMMA OutKeeps ==
  ASSUME FlowInv, FrontInv, OutInv, NEW m \in BOOLEAN, NEW s \in BOOLEAN,
         NEW sym \in Symbols, NEW er \in BOOLEAN, NEW toggle, Step(m, s, sym, er, toggle),
         NEW p \in 0 .. 1, NEW u \in 0 .. 1, Shape(m, s, p, u)
  PROVE  OutInv'
<1>1. SysTypes /\ ReadInv  BY DEF FlowInv
<1>2. CASE ~s
  <2>1. rx_pend' = rx_pend /\ gmii_out' = gmii_out /\ rcv' = rcv
    BY <1>2 DEF Step, sysRegs
  <2> QED  BY <2>1 DEF OutInv, NeverMerged
<1>3. CASE s
  <2>1. toggle \in BOOLEAN  BY ToggleMoves DEF FlowInv
  <2>2. SysEdge(toggle)  BY <1>3 DEF Step
  <2>3. /\ Written \in Seq(Words)
        /\ ~Fifo!RdEmpty => Written # << >> /\ Fifo!RdData = Written[1]
    BY DEF Shape
  <2>4. ~Fifo!RdEmpty => Len(Written) > 0 /\ Len(Written) \in Nat /\ Written[1] \in Words
    BY <2>3, EmptyLen, FrontMoves
  <2>5. /\ gmii_out'.valid = rx_pend.valid
        /\ rx_pend.valid => gmii_out'.fid = rx_pend.fid /\ gmii_out'.idx = rx_pend.idx
        /\ rcv'.valid = gmii_out.valid /\ rcv'.fid = Seen
        /\ gmii_out.valid => rcv'.idx = gmii_out.idx
        /\ \/ ~rx_pend'.valid
           \/ /\ rx_reading /\ ~Fifo!RdEmpty /\ ~Written[1].eof
              /\ rx_pend'.valid
              /\ rx_pend'.fid = Written[1].fid /\ rx_pend'.idx = Written[1].idx
           \/ /\ ~rx_reading
              /\ rx_pend' = rx_pend
    BY <1>1, <2>1, <2>2, <2>3, <2>4, SysParts
  <2>6. ~rx_reading => ~rx_pend.valid  BY <1>1 DEF ReadInv
  <2>7. rx_pend.valid =>
          IF gmii_out.valid
          THEN rx_pend.fid = gmii_out.fid /\ rx_pend.idx = gmii_out.idx + 1
          ELSE rx_pend.fid > rcv.fid /\ rx_pend.idx = 0
    BY DEF OutInv
  <2>8. NeverMerged'
    <3> SUFFICES ASSUME gmii_out'.valid
                 PROVE  IF rcv'.valid
                        THEN gmii_out'.fid = rcv'.fid /\ gmii_out'.idx = rcv'.idx + 1
                        ELSE gmii_out'.fid > rcv'.fid /\ gmii_out'.idx = 0
      BY DEF NeverMerged
    <3>1. CASE gmii_out.valid  BY <2>5, <2>7, <3>1 DEF Seen
    <3>2. CASE ~gmii_out.valid  BY <2>5, <2>7, <3>2 DEF Seen
    <3> QED  BY <3>1, <3>2
  <2>9. ASSUME rx_pend'.valid
        PROVE  IF gmii_out'.valid
               THEN rx_pend'.fid = gmii_out'.fid /\ rx_pend'.idx = gmii_out'.idx + 1
               ELSE rx_pend'.fid > rcv'.fid /\ rx_pend'.idx = 0
    <3>1. /\ ~Fifo!RdEmpty /\ ~Written[1].eof
          /\ rx_pend'.fid = Written[1].fid /\ rx_pend'.idx = Written[1].idx
      BY <2>5, <2>6, <2>9
    <3>2. /\ IF rx_pend.valid THEN Written[1].fid >= rx_pend.fid
                              ELSE Written[1].fid > Seen
          /\ rx_pend.valid => Written[1].fid = rx_pend.fid
          /\ Written[1].idx = IF rx_pend.valid THEN rx_pend.idx + 1 ELSE 0
      <4>1. 1 \in 1 .. Len(Written) /\ Written # << >>  BY <3>1, <2>3, <2>4
      <4> QED  BY <3>1, <4>1 DEF FrontInv
    <3>3. CASE rx_pend.valid  BY <2>5, <3>1, <3>2, <3>3
    <3>4. CASE ~rx_pend.valid  BY <2>5, <3>1, <3>2, <3>4
    <3> QED  BY <3>3, <3>4
  <2> QED  BY <2>8, <2>9 DEF OutInv
<1> QED  BY <1>2, <1>3
-----------------------------------------------------------------------------
(* The writer's end of the words.                                           *)

\* What the frame on the line leaves behind an edge, by whether a word joins.
LineStep(m, u) ==
  /\ line.len \in Nat /\ Offered \in Int /\ Offered' \in Int
  /\ rx_drop \in BOOLEAN /\ rx_drop' \in BOOLEAN
  /\ WritesByte => Offered = line.len - 1
  /\ ~WritesByte => Offered = line.len
  /\ \/ /\ ~m /\ u = 0 /\ InFrame' = InFrame /\ line'.fid = line.fid
        /\ Offered' = Offered /\ rx_drop' = rx_drop
     \/ /\ rx_dv_d1 /\ InFrame /\ InFrame' /\ line'.fid = line.fid
        /\ Offered' = line.len
        /\ u = 1 => rx_drop' = rx_drop
        /\ u = 0 => rx_drop' = (rx_drop \/ WritesByte)
     \/ ~rx_dv_d1 /\ WritesEof /\ ~InFrame' /\ (u = 0 => ~WrAccept)
     \/ ~InFrame /\ ~InFrame'
     \/ ~InFrame /\ InFrame' /\ Offered' = 0 /\ ~rx_drop'

\* Every step moves the frame on the line so.
LEMMA LineMoves ==
  ASSUME FlowInv, NEW m \in BOOLEAN, NEW s \in BOOLEAN,
         NEW sym \in Symbols, NEW er \in BOOLEAN, NEW toggle, Step(m, s, sym, er, toggle),
         NEW p \in 0 .. 1, NEW u \in 0 .. 1, Shape(m, s, p, u)
  PROVE  LineStep(m, u)
<1>1. MediaInv /\ MediaInv'
  <2>1. FlowInv'  BY FlowKeeps
  <2> QED  BY <2>1 DEF FlowInv
<1>2. /\ line.len \in Nat /\ line'.len \in Nat
      /\ rx_drop \in BOOLEAN /\ rx_drop' \in BOOLEAN
  BY <1>1 DEF MediaInv
<1>3. /\ Offered \in Int /\ Offered' \in Int
      /\ WritesByte => Offered = line.len - 1
      /\ ~WritesByte => Offered = line.len
  BY <1>2 DEF Offered
<1>4. u = 1 <=> m /\ WrAccept  BY DEF Shape
<1>5. CASE ~m
  <2>1. line' = line /\ rx_wr' = rx_wr /\ rx_dv_d1' = rx_dv_d1 /\ rx_drop' = rx_drop
    BY <1>5 DEF Step, mediaRegs
  <2>2. (InFrame' = InFrame) /\ Offered' = Offered
    BY <2>1 DEF InFrame, WritesEof, WritesByte, Offered
  <2>3. u = 0  BY <1>4, <1>5
  <2> QED  BY <1>2, <1>3, <1>5, <2>1, <2>2, <2>3 DEF LineStep
<1>6. CASE m
  <2>1. MediaEdge(sym, er)  BY <1>6 DEF Step
  <2>2. \/ /\ rx_dv_d1 /\ InFrame' /\ line'.fid = line.fid /\ Offered' = line.len
           /\ rx_drop' = (rx_drop \/ DataRefuse)
        \/ ~rx_dv_d1 /\ WritesEof /\ ~InFrame' /\ line'.fid = line.fid
        \/ ~InFrame /\ ~InFrame' /\ line'.fid = line.fid
        \/ /\ ~InFrame /\ InFrame' /\ line'.fid = line.fid + 1
           /\ Offered' = 0 /\ ~rx_drop'
    BY <1>1, <2>1, MediaKeeps
  <2>3. rx_dv_d1 => InFrame  BY DEF InFrame
  <2>4. u = 1 => ~DataRefuse  BY <1>4 DEF DataRefuse
  <2>5. u = 0 => ~WrAccept  BY <1>4, <1>6
  <2>6. u = 0 => (DataRefuse <=> WritesByte)  BY <2>5 DEF DataRefuse, WritesByte
  <2> QED  BY <1>2, <1>3, <2>2, <2>3, <2>4, <2>5, <2>6 DEF LineStep
<1> QED  BY <1>5, <1>6

\* Behind an end word, or nothing, a frame that has lost no byte is at its first one.
LEMMA EndedWaits ==
  ASSUME FlowInv, NEW m \in BOOLEAN, NEW s \in BOOLEAN,
         NEW sym \in Symbols, NEW er \in BOOLEAN, NEW toggle, Step(m, s, sym, er, toggle),
         NEW p \in 0 .. 1, NEW u \in 0 .. 1, Shape(m, s, p, u)
  PROVE  u = 0 /\ (InFrame /\ ~rx_drop => Offered = 0)
           => (InFrame' /\ ~rx_drop' => Offered' = 0)
<1>1. LineStep(m, u)  BY LineMoves
<1> QED  BY <1>1 DEF LineStep

\* Behind a byte the frame on the line goes on with the next one, or loses it.
LEMMA OpenWaits ==
  ASSUME FlowInv, NEW m \in BOOLEAN, NEW s \in BOOLEAN,
         NEW sym \in Symbols, NEW er \in BOOLEAN, NEW toggle, Step(m, s, sym, er, toggle),
         NEW p \in 0 .. 1, NEW u \in 0 .. 1, Shape(m, s, p, u), u = 0,
         NEW k \in Nat, InFrame, WritesEof => WrAccept,
         IF rx_drop THEN k + 1 < Offered ELSE k + 1 = Offered
  PROVE  /\ InFrame' /\ line'.fid = line.fid
         /\ IF rx_drop' THEN k + 1 < Offered' ELSE k + 1 = Offered'
<1>0. LineStep(m, u)  BY LineMoves
<1>1. /\ line.len \in Nat /\ Offered \in Int /\ Offered' \in Int
      /\ rx_drop \in BOOLEAN /\ rx_drop' \in BOOLEAN
      /\ WritesByte => Offered = line.len - 1
      /\ ~WritesByte => Offered = line.len
      /\ \/ /\ InFrame' /\ line'.fid = line.fid
            /\ Offered' = Offered /\ rx_drop' = rx_drop
         \/ /\ InFrame' /\ line'.fid = line.fid
            /\ Offered' = line.len /\ rx_drop' = (rx_drop \/ WritesByte)
  BY <1>0 DEF LineStep
<1> PICK a \in Int : a = Offered  BY <1>1
<1> PICK b \in Int : b = Offered'  BY <1>1
<1> PICK l \in Nat : l = line.len  BY <1>1
<1>2. CASE b = a /\ rx_drop' = rx_drop  BY <1>1, <1>2
<1>3. CASE b = l /\ rx_drop' = (rx_drop \/ WritesByte)
  <2>1. CASE WritesByte
    <3>1. a = l - 1  BY <2>1, <1>1
    <3>2. k + 1 <= a
      <4>1. CASE rx_drop  BY <4>1
      <4>2. CASE ~rx_drop  BY <4>2
      <4> QED  BY <4>1, <4>2
    <3>3. k + 1 < b  BY <3>1, <3>2, <1>3
    <3>4. rx_drop'  BY <2>1, <1>3
    <3> QED  BY <3>3, <3>4, <1>1
  <2>2. CASE ~WritesByte
    <3>1. (rx_drop' <=> rx_drop) /\ a = b  BY <2>2, <1>1, <1>3
    <3> QED  BY <3>1, <1>1
  <2> QED  BY <2>1, <2>2
<1> QED  BY <1>1, <1>2, <1>3
\* The frame on the line stays behind the last word.
LEMMA TailKeeps ==
  ASSUME FlowInv, FlowInv', TailInv, OrderInv, FrontInv,
         NEW m \in BOOLEAN, NEW s \in BOOLEAN,
         NEW sym \in Symbols, NEW er \in BOOLEAN, NEW toggle, Step(m, s, sym, er, toggle),
         NEW p \in 0 .. 1, NEW u \in 0 .. 1, Shape(m, s, p, u)
  PROVE  TailInv'
<1>1. /\ Written \in Seq(Words) /\ Written' \in Seq(Words) /\ FifoDin \in Words
      /\ Moved(Written, Written', p, u, FifoDin)
  BY DEF Shape
<1> PICK n \in Nat : n = Len(Written)  BY <1>1, EmptyLen
<1> PICK k \in Nat : k = Len(Written')  BY <1>1, EmptyLen
<1>2. (Written = << >> <=> n = 0) /\ (Written' = << >> <=> k = 0)
  <2>1. Written # << >> => n > 0  BY <1>1, EmptyLen
  <2>2. Written = << >> => n = 0  BY <1>1, EmptyLen
  <2>3. Written' # << >> => k > 0  BY <1>1, EmptyLen
  <2>4. Written' = << >> => k = 0  BY <1>1, EmptyLen
  <2> QED  BY <2>1, <2>2, <2>3, <2>4
<1>3. /\ u = 1 => k > 0 /\ Written'[k] = FifoDin
      /\ u = 0 /\ k > 0 => n > 0 /\ Written'[k] = Written[n]
      /\ k = 0 => n = p /\ u = 0
  <2>1. LastWord(Written, Written', p, u, FifoDin)  BY <1>1, LastAfter
  <2> QED  BY <2>1 DEF LastWord
<1>4. CASE u = 1
  <2>1. /\ m /\ WrAccept /\ InFrame /\ FifoDin.fid = line.fid
        /\ FifoDin.eof => WritesEof /\ ~rx_dv_d1
        /\ ~FifoDin.eof => /\ rx_dv_d1 /\ ~rx_drop
                           /\ FifoDin.idx = Offered /\ Offered + 1 = line.len
    BY <1>4, MediaFlow DEF FlowInv
  <2>2. \/ /\ rx_dv_d1 /\ InFrame' /\ line'.fid = line.fid
           /\ Offered' = line.len /\ rx_drop' = rx_drop
        \/ ~rx_dv_d1 /\ WritesEof /\ ~InFrame'
    <3>1. LineStep(m, u)  BY LineMoves
    <3> QED  BY <3>1, <1>4, <2>1 DEF LineStep
  <2>3. rx_dv_d1 => ~WritesEof  BY DEF FlowInv, MediaInv
  <2> PICK w \in Words : w = FifoDin  BY <1>1
  <2>4. IF w.eof
        THEN InFrame' /\ ~rx_drop' => Offered' = 0
        ELSE /\ InFrame' /\ w.fid = line'.fid
             /\ IF rx_drop' THEN w.idx + 1 < Offered' ELSE w.idx + 1 = Offered'
    <3>1. CASE w.eof  BY <3>1, <2>1, <2>2
    <3>2. CASE ~w.eof  BY <3>2, <2>1, <2>2
    <3> QED  BY <3>1, <3>2
  <2>5. Written' # << >> /\ Written'[Len(Written')] = w  BY <1>2, <1>3, <1>4
  <2> QED  BY <2>4, <2>5 DEF TailInv
<1>5. CASE u = 0 /\ k > 0
  <2>1. n > 0 /\ Written'[k] = Written[n]  BY <1>3, <1>5
  <2>2. Written # << >> /\ Written' # << >>  BY <2>1, <1>2, <1>5
  <2> PICK w \in Words : w = Written[n]
    <3>1. n \in 1 .. n  BY <2>1
    <3> QED  BY <3>1, <1>1, ElementOfSeq
  <2>3. IF w.eof
        THEN InFrame /\ ~rx_drop => Offered = 0
        ELSE /\ InFrame /\ w.fid = line.fid
             /\ IF rx_drop THEN w.idx + 1 < Offered ELSE w.idx + 1 = Offered
    BY <2>2 DEF TailInv
  <2>4. IF w.eof
        THEN InFrame' /\ ~rx_drop' => Offered' = 0
        ELSE /\ InFrame' /\ w.fid = line'.fid
             /\ IF rx_drop' THEN w.idx + 1 < Offered' ELSE w.idx + 1 = Offered'
    <3>1. CASE w.eof
      <4>1. InFrame /\ ~rx_drop => Offered = 0  BY <2>3, <3>1
      <4>2. InFrame' /\ ~rx_drop' => Offered' = 0  BY <4>1, <1>5, EndedWaits
      <4> QED  BY <4>2, <3>1
    <3>2. CASE ~w.eof
      <4>1. WritesEof => WrAccept
        <5>1. FifoInv /\ RoomInv /\ MediaInv  BY DEF FlowInv
        <5> QED  BY <5>1, <2>2, <3>2, AcceptedHasRoom
      <4>2. w.idx \in Nat  BY DEF Words
      <4>3. InFrame /\ IF rx_drop THEN w.idx + 1 < Offered ELSE w.idx + 1 = Offered
        BY <2>3, <3>2
      <4>4. /\ InFrame' /\ line'.fid = line.fid
            /\ IF rx_drop' THEN w.idx + 1 < Offered' ELSE w.idx + 1 = Offered'
        BY <4>1, <4>2, <4>3, <1>5, OpenWaits
      <4> QED  BY <4>4, <2>3, <3>2
    <3> QED  BY <3>1, <3>2
  <2> QED  BY <2>1, <2>2, <2>4 DEF TailInv
<1>6. CASE k = 0
  <2>1. n = p /\ u = 0  BY <1>3, <1>6
  <2>2. /\ Seen \in Nat /\ Seen' \in Nat /\ rx_pend \in Bytes
        /\ p = 0 => Seen' = Seen
        /\ p = 1 => Seen' = IF rx_pend.valid THEN rx_pend.fid ELSE Seen
        /\ p = 1 /\ ~Written[1].eof => Len(Written') > 0
    BY ReaderFlow
  <2>3. /\ line.fid \in Nat /\ line'.fid \in Nat /\ line.fid <= line'.fid
        /\ InFrame' => (InFrame /\ line'.fid = line.fid) \/ line'.fid = line.fid + 1
    BY MediaFlow DEF FlowInv
  <2>4. Seen' <= line.fid /\ (InFrame => Seen' < line.fid)
    <3>1. CASE p = 0
      <4>1. Written = << >>  BY <2>1, <3>1, <1>2
      <4> QED  BY <4>1, <2>2, <3>1 DEF TailInv
    <3>2. CASE p = 1
      <4>1. Written[1].eof /\ 1 \in 1 .. Len(Written)  BY <2>1, <2>2, <3>2, <1>6
      <4>2. PICK w \in Words : w = Written[1]  BY <4>1, <1>1, ElementOfSeq
      <4>3. w.fid \in Nat /\ rx_pend.fid \in Nat  BY <2>2 DEF Words, Bytes
      <4>4. w.fid <= line.fid /\ (InFrame => w.fid < line.fid)
        BY <4>1, <4>2 DEF OrderInv, UpTo
      <4>5. IF rx_pend.valid THEN w.fid >= rx_pend.fid ELSE w.fid > Seen
        BY <4>1, <4>2 DEF FrontInv
      <4>6. PICK f \in Nat : f = w.fid  BY <4>3
      <4>7. PICK h \in Nat : h = Seen'  BY <2>2
      <4>8. h <= f
        <5>1. CASE rx_pend.valid  BY <5>1, <4>3, <4>5, <4>6, <4>7, <2>2, <3>2
        <5>2. CASE ~rx_pend.valid  BY <5>2, <4>5, <4>6, <4>7, <2>2, <3>2
        <5> QED  BY <5>1, <5>2
      <4> QED  BY <4>4, <4>6, <4>7, <4>8, <2>3
    <3> QED  BY <3>1, <3>2
  <2>5. Seen' <= line'.fid /\ (InFrame' => Seen' < line'.fid)
    <3>1. PICK a \in Nat : a = line.fid  BY <2>3
    <3>2. PICK b \in Nat : b = line'.fid  BY <2>3
    <3>3. PICK h \in Nat : h = Seen'  BY <2>2
    <3> QED  BY <2>3, <2>4, <3>1, <3>2, <3>3
  <2>6. InFrame /\ ~rx_drop => Offered = 0
    <3>1. CASE p = 0
      <4>1. Written = << >>  BY <2>1, <3>1, <1>2
      <4> QED  BY <4>1 DEF TailInv
    <3>2. CASE p = 1
      <4>1. Written[1].eof /\ n = 1  BY <2>1, <2>2, <3>2, <1>6
      <4>2. Written # << >>  BY <4>1, <1>2
      <4> QED  BY <4>1, <4>2 DEF TailInv
    <3> QED  BY <3>1, <3>2
  <2>7. InFrame' /\ ~rx_drop' => Offered' = 0  BY <2>1, <2>6, EndedWaits
  <2> QED  BY <2>5, <2>7, <1>2, <1>6 DEF TailInv
<1>7. k = 0 \/ k > 0  OBVIOUS
<1>8. u = 0 \/ u = 1  OBVIOUS
<1> QED  BY <1>4, <1>5, <1>6, <1>7, <1>8
-----------------------------------------------------------------------------
(* The invariant holds at the start and is kept.                            *)

\* The crossing starts in order: nothing written, nothing pending.
LEMMA StartsInOrder ==
  ASSUME Init
  PROVE  FlowInv /\ StreamInv
<1>1. /\ rx_wr = NoWrite
      /\ rx_dv_d1 = FALSE /\ rx_drop = FALSE /\ rx_er_noce = FALSE
      /\ rx_data_room = TRUE /\ rx_frame_toggle = FALSE
      /\ toggle_s = [i \in 1 .. 3 |-> FALSE]
      /\ rx_avail_delay = [i \in 1 .. AvailDelay |-> FALSE]
      /\ rx_frames_pending = 0
      /\ rx_frame_done_pulse = FALSE /\ rx_reading = FALSE /\ rx_rd_en = FALSE
      /\ rx_pend = NoByte /\ gmii_out = NoByte
      /\ line = [fid |-> 0, len |-> 0, er |-> FALSE, gap |-> MinGap]
      /\ sent = << >>
      /\ rcv = NoByte
      /\ ratio = 0
  BY DEF Init
<1>2. /\ q = << >> /\ head = << >>
      /\ seen1 = 0 /\ seen2 = 0 /\ lag1 = 0 /\ lag2 = 0
  BY DEF Init, Fifo!Init
<1>3. /\ Depth \in Nat /\ Depth > 2 /\ AvailDelay \in Nat \ {0}
      /\ MinGap \in Nat /\ MinGap >= 2 /\ MaxRatio \in Nat
  BY CdcRxAssumption, GapIsTwo
<1>4. << >> \in Seq(Words) /\ Len(<< >>) = 0  OBVIOUS
<1>5. Written = << >>  BY <1>2 DEF Written
<1>6. Fifo!WrCount = 0  BY <1>2, <1>4 DEF Fifo!WrCount
<1>7. FifoInv  BY <1>2, <1>3, <1>4, <1>6 DEF FifoInv
<1>8. RoomInv  BY <1>3, <1>5, <1>6 DEF RoomInv
<1>9. rx_wr \in [en : BOOLEAN, word : Words] /\ ~rx_wr.en
  BY <1>1 DEF NoWrite, Byte, Words
<1>10. ~WritesEof /\ ~WritesByte /\ ~InFrame
  BY <1>1, <1>9 DEF WritesEof, WritesByte, InFrame
<1>11. /\ line \in [fid : Nat, len : Nat, er : BOOLEAN, gap : 0 .. MinGap]
       /\ line.fid = 0 /\ line.len = 0 /\ line.gap = MinGap
  BY <1>1, <1>3
<1>12. MediaInv
  <2>1. sent \in Seq([len : Nat, er : BOOLEAN]) /\ Len(sent) = 0  BY <1>1
  <2> QED  BY <1>1, <1>3, <1>9, <1>10, <1>11, <2>1 DEF MediaInv
<1>13. /\ toggle_s \in [1 .. 3 -> BOOLEAN]
       /\ toggle_s[1] = FALSE /\ toggle_s[2] = FALSE /\ toggle_s[3] = FALSE
  BY <1>1
<1>14. PaceInv
  <2>1. ratio \in 0 .. MaxRatio  BY <1>1, <1>3
  <2>2. rx_frame_toggle = toggle_s[1]  BY <1>1, <1>13
  <2> QED  BY <2>1, <2>2 DEF PaceInv
<1>15. NoByte \in Bytes /\ ~NoByte.valid /\ NoByte.fid = 0  BY DEF NoByte, Bytes
<1>16. /\ rx_avail_delay \in [1 .. AvailDelay -> BOOLEAN]
       /\ \A i \in 1 .. AvailDelay : rx_avail_delay[i] = FALSE
  BY <1>1
<1>17. SysTypes  BY <1>1, <1>13, <1>15, <1>16 DEF SysTypes
<1>18. CountInv
  <2>1. Fresh = 0 /\ Stage1 = 0 /\ Stage2 = 0
    BY <1>1, <1>13 DEF Fresh, Stage1, Stage2, One
  <2>2. Len(Written) = 0 /\ Vis1 = 0 /\ Vis2 = 0
    BY <1>2, <1>4, <1>5 DEF Vis1, Vis2
  <2>3. TrueIn(Ends(Written), 1, 0) = 0  BY CountNone
  <2>4. TrueIn(rx_avail_delay, 1, AvailDelay) = 0
    <3>1. {i \in 1 .. AvailDelay : rx_avail_delay[i]} = {}  BY <1>16
    <3> QED  BY <3>1, FS_EmptySet DEF TrueIn
  <2>5. EofsHeld = 0 /\ InTransit = 0
    <3>1. /\ EofsHeld = TrueIn(Ends(Written), 1, Len(Written))
          /\ InTransit = TrueIn(rx_avail_delay, 1, AvailDelay) + (Stage1 + Stage2) + Fresh
      BY <1>7, <1>17, CountsAre
    <3> QED  BY <3>1, <2>1, <2>2, <2>3, <2>4
  <2>6. DoneInflight = 0  BY <1>1 DEF DoneInflight
  <2>7. PendingIsExact  BY <1>1, <2>5, <2>6 DEF PendingIsExact
  <2> QED  BY <2>1, <2>2, <2>3, <2>7 DEF CountInv
<1>19. ReadInv  BY <1>1, <1>15 DEF ReadInv
<1>20. TailInv
  <2>1. Seen = 0  BY <1>1, <1>15 DEF Seen
  <2> QED  BY <2>1, <1>5, <1>10, <1>11 DEF TailInv
<1>21. OrderInv  BY <1>4, <1>5 DEF OrderInv, Ordered, Linked, UpTo
<1>22. FrontInv  BY <1>4, <1>5 DEF FrontInv
<1>23. OutInv  BY <1>1, <1>15 DEF OutInv, NeverMerged
<1> QED
  BY <1>7, <1>8, <1>12, <1>14, <1>17, <1>18, <1>19, <1>20, <1>21, <1>22, <1>23
  DEF FlowInv, StreamInv

\* Every step keeps the crossing in order.
LEMMA StaysInOrder ==
  ASSUME FlowInv, StreamInv, [Next]_vars
  PROVE  FlowInv' /\ StreamInv'
<1>1. CASE Next
  <2>1. PICK m, s \in BOOLEAN, sym \in Symbols, er \in BOOLEAN :
          \E t : Step(m, s, sym, er, t)
    BY <1>1, NextIsStep
  <2>11. PICK toggle : Step(m, s, sym, er, toggle)  BY <2>1
  <2>2. /\ FifoInv /\ RoomInv /\ MediaInv /\ SysTypes /\ ReadInv
        /\ TailInv /\ OrderInv /\ FrontInv /\ OutInv
    BY DEF FlowInv, StreamInv
  <2>3. PICK p, u \in 0 .. 1 : Shape(m, s, p, u)  BY <2>11, <2>2, StepShape
  <2>4. FlowInv'  BY <2>11, <2>3, FlowKeeps
  <2>5. OrderInv'  BY <2>11, <2>2, <2>3, OrderKeeps
  <2>6. FrontInv'  BY <2>11, <2>2, <2>3, <2>4, FrontKeeps
  <2>7. TailInv'  BY <2>11, <2>2, <2>3, <2>4, TailKeeps
  <2>8. OutInv'  BY <2>11, <2>2, <2>3, OutKeeps
  <2> QED  BY <2>4, <2>5, <2>6, <2>7, <2>8 DEF StreamInv
<1>2. CASE UNCHANGED vars
  <2>1. UNCHANGED <<rx_wr, rx_dv_d1, rx_drop, rx_er_noce, rx_data_room, rx_frame_toggle,
                    line, sent, q, head, seen1, seen2, lag1, lag2, toggle_s,
                    rx_avail_delay, rx_frames_pending, rx_frame_done_pulse, rx_reading,
                    rx_rd_en, rx_pend, gmii_out, rcv, ratio>>
    BY <1>2 DEF vars, mediaRegs, fifo, sysRegs
  <2>2. /\ Written' = Written /\ Fifo!WrCount' = Fifo!WrCount /\ Vis1' = Vis1
        /\ Vis2' = Vis2 /\ Fifo!RdEmpty' = Fifo!RdEmpty
    BY <2>1 DEF Written, Fifo!WrCount, Vis1, Vis2, Fifo!RdEmpty
  <2>3. /\ WritesEof' = WritesEof /\ WritesByte' = WritesByte /\ InFrame' = InFrame
        /\ Offered' = Offered /\ Seen' = Seen
        /\ Fresh' = Fresh /\ Stage1' = Stage1 /\ Stage2' = Stage2
    BY <2>1 DEF WritesEof, WritesByte, InFrame, Offered, Seen, Fresh, Stage1, Stage2
  <2>4. FifoInv' /\ RoomInv'  BY <2>1, <2>2 DEF FlowInv, FifoInv, RoomInv
  <2>5. MediaInv' /\ PaceInv' /\ SysTypes'
    BY <2>1, <2>3 DEF FlowInv, MediaInv, PaceInv, SysTypes
  <2>6. PendingIsExact' = PendingIsExact
    BY <2>1 DEF PendingIsExact, InTransit, EofsHeld, DoneInflight
  <2>7. CountInv'  BY <2>2, <2>3, <2>6 DEF FlowInv, CountInv, Ends
  <2>8. ReadInv'
    BY <2>1, <2>2 DEF FlowInv, ReadInv, FrameReady, DoneInflight
  <2>9. TailInv' /\ OrderInv' /\ FrontInv'
    BY <2>1, <2>2, <2>3 DEF StreamInv, TailInv, OrderInv, FrontInv, UpTo
  <2>10. OutInv'  BY <2>1 DEF StreamInv, OutInv, NeverMerged
  <2> QED  BY <2>4, <2>5, <2>7, <2>8, <2>9, <2>10 DEF FlowInv, StreamInv
<1> QED  BY <1>1, <1>2

\* The flow of words, toggles and counts, and the order of the words from the line to the
\* outputs, hold in every reachable state: the inductive invariant behind what follows.
THEOREM CrossingInductive == Spec => [](FlowInv /\ StreamInv)
<1>1. Init => FlowInv /\ StreamInv  BY StartsInOrder
<1>2. FlowInv /\ StreamInv /\ [Next]_vars => (FlowInv /\ StreamInv)'  BY StaysInOrder
<1> QED  BY <1>1, <1>2, PTL DEF Spec

\* FramesKeptApart, whatever the depth of the FIFO, the number of frames and their length:
\* the end of a frame always has room, no byte of one frame reaches the MAC as part of
\* another, and each whole frame is counted exactly once (gmii_cdc.v 105-132, 218-248).
THEOREM FramesStayApart == Spec => []FramesKeptApart
<1>1. FlowInv /\ StreamInv => FramesKeptApart
  <2> SUFFICES ASSUME FlowInv, StreamInv PROVE FramesKeptApart  OBVIOUS
  <2>1. FifoInv /\ RoomInv /\ MediaInv  BY DEF FlowInv
  <2>2. EofAlwaysFits  BY <2>1, AcceptedHasRoom DEF EofAlwaysFits, WritesEof
  <2>3. NeverMerged  BY DEF StreamInv, OutInv
  <2>4. PendingIsExact  BY DEF FlowInv, CountInv
  <2> QED  BY <2>2, <2>3, <2>4 DEF FramesKeptApart
<1> QED  BY <1>1, CrossingInductive, PTL
-----------------------------------------------------------------------------
(* Errors and refused bytes.                                                *)

\* A byte, or a queue of words, that shows an error of frame f.
ByteBad(b, f) == b.valid /\ b.fid = f /\ b.er
BadIn(W, f)   == \E i \in 1 .. Len(W) : W[i].fid = f /\ W[i].err

\* The crossing holds an error mark of frame f.
Bad(f) == ByteBad(rcv, f) \/ ByteBad(gmii_out, f) \/ ByteBad(rx_pend, f) \/ BadIn(Written, f)

\* Frame f was not whole and without error when n bytes of it have come across.
Damaged(f, n) == sent[f].er \/ n < sent[f].len

\* Whether bytes came before the i-th word in its frame, and how many.
HasBytes(i) == IF i = 1 THEN rx_pend.valid ELSE ~Written[i - 1].eof
BytesOf(i)  == 1 + (IF i = 1 THEN rx_pend.idx ELSE Written[i - 1].idx)

\* An end word finds an error mark of its frame in the crossing exactly if the frame is
\* damaged; so do the outputs and the receiver once the end has been read; and so does
\* the line, as long as no byte of its frame has been refused.
EndsMarked ==
  \A i \in 1 .. Len(Written) :
    Written[i].eof =>
      /\ Written[i].fid \in 1 .. Len(sent)
      /\ HasBytes(i) => (Bad(Written[i].fid) <=> Damaged(Written[i].fid, BytesOf(i)))

OutMarked ==
  gmii_out.valid /\ ~rx_pend.valid =>
    /\ gmii_out.fid \in 1 .. Len(sent)
    /\ (gmii_out.er \/ (rcv.valid /\ rcv.er)) <=> Damaged(gmii_out.fid, gmii_out.idx + 1)

SeenMarked ==
  rcv.valid /\ ~gmii_out.valid =>
    /\ rcv.fid \in 1 .. Len(sent)
    /\ rcv.er <=> Damaged(rcv.fid, rcv.idx + 1)

LineMarked ==
  InFrame /\ ~rx_drop =>
    ((Bad(line.fid) \/ rx_er_noce \/ (rx_wr.en /\ rx_wr.word.err)) <=> line.er)

ErrInv == EndsMarked /\ OutMarked /\ SeenMarked /\ LineMarked

\* The error marks of a frame in the words, through a step of the queue.
LEMMA BadWords ==
  ASSUME NEW W \in Seq(Words), NEW V \in Seq(Words), NEW w \in Words,
         NEW p \in 0 .. 1, NEW u \in 0 .. 1, Moved(W, V, p, u, w), NEW f
  PROVE  BadIn(V, f) \/ (p = 1 /\ W[1].fid = f /\ W[1].err)
           <=> BadIn(W, f) \/ (u = 1 /\ w.fid = f /\ w.err)
<1> PICK n \in Nat : n = Len(W)  BY EmptyLen
<1> PICK k \in Nat : k = Len(V)  BY EmptyLen
<1>1. p <= n /\ k = n - p + u
      /\ \A i \in 1 .. k : V[i] = IF i + p <= n THEN W[i + p] ELSE w
  BY DEF Moved
<1>2. ASSUME NEW i \in 1 .. k, V[i].fid = f, V[i].err
      PROVE  BadIn(W, f) \/ (u = 1 /\ w.fid = f /\ w.err)
  <2>1. CASE i + p <= n
    <3>1. i + p \in 1 .. n /\ V[i] = W[i + p]  BY <2>1, <1>1
    <3> QED  BY <3>1, <1>2 DEF BadIn
  <2>2. CASE ~(i + p <= n)
    <3>1. V[i] = w /\ u = 1  BY <2>2, <1>1
    <3> QED  BY <3>1, <1>2
  <2> QED  BY <2>1, <2>2
<1>3. ASSUME p = 1, W[1].fid = f, W[1].err
      PROVE  BadIn(W, f)
  <2>1. 1 \in 1 .. n  BY <1>1, <1>3
  <2> QED  BY <2>1, <1>3 DEF BadIn
<1>4. ASSUME NEW j \in 1 .. n, W[j].fid = f, W[j].err
      PROVE  BadIn(V, f) \/ (p = 1 /\ W[1].fid = f /\ W[1].err)
  <2>1. CASE j > p
    <3>1. PICK i \in 1 .. k : j = i + p
      <4>1. j - p \in 1 .. k /\ j = (j - p) + p  BY <2>1, <1>1
      <4> QED  BY <4>1
    <3>2. V[i] = W[j]  BY <3>1, <1>1
    <3> QED  BY <3>2, <1>4 DEF BadIn
  <2>2. CASE ~(j > p)
    <3>1. j = 1 /\ p = 1  BY <2>2
    <3> QED  BY <3>1, <1>4
  <2> QED  BY <2>1, <2>2
<1>5. ASSUME u = 1, w.fid = f, w.err
      PROVE  BadIn(V, f)
  <2>1. k \in 1 .. k /\ ~(k + p <= n)  BY <1>1, <1>5
  <2>2. V[k] = w  BY <2>1, <1>1
  <2> QED  BY <2>1, <2>2, <1>5 DEF BadIn
<1>6. BadIn(V, f) <=> \E i \in 1 .. k : V[i].fid = f /\ V[i].err  BY DEF BadIn
<1>7. BadIn(W, f) <=> \E j \in 1 .. n : W[j].fid = f /\ W[j].err  BY DEF BadIn
<1> QED  BY <1>2, <1>3, <1>4, <1>5, <1>6, <1>7

\* An error mark of a frame stays in the crossing until the frame has been received.
LEMMA BadMoves ==
  ASSUME FlowInv, FlowInv', FrontInv, OutInv, NEW m \in BOOLEAN, NEW s \in BOOLEAN,
         NEW sym \in Symbols, NEW er \in BOOLEAN, NEW toggle, Step(m, s, sym, er, toggle),
         NEW p \in 0 .. 1, NEW u \in 0 .. 1, Shape(m, s, p, u), NEW f \in Nat,
         s /\ ~gmii_out.valid => f # rcv.fid,
         p = 1 /\ Written[1].eof /\ ~rx_pend.valid => f # Written[1].fid
  PROVE  Bad(f)' <=> Bad(f) \/ (u = 1 /\ FifoDin.fid = f /\ FifoDin.err)
<1>1. /\ Written \in Seq(Words) /\ Written' \in Seq(Words) /\ FifoDin \in Words
      /\ Moved(Written, Written', p, u, FifoDin)
      /\ ~Fifo!RdEmpty => Written # << >> /\ Fifo!RdData = Written[1]
      /\ p = 1 <=> s /\ rx_reading
  BY DEF Shape
<1>2. BadIn(Written', f) \/ (p = 1 /\ Written[1].fid = f /\ Written[1].err)
        <=> BadIn(Written, f) \/ (u = 1 /\ FifoDin.fid = f /\ FifoDin.err)
  BY <1>1, BadWords
<1>3. Bad(f) <=> \/ ByteBad(rcv, f) \/ ByteBad(gmii_out, f)
                 \/ ByteBad(rx_pend, f) \/ BadIn(Written, f)
  BY DEF Bad
<1>4. Bad(f)' <=> \/ ByteBad(rcv', f) \/ ByteBad(gmii_out', f)
                  \/ ByteBad(rx_pend', f) \/ BadIn(Written', f)
  BY DEF Bad, ByteBad, BadIn
<1>5. CASE ~s
  <2>1. rx_pend' = rx_pend /\ gmii_out' = gmii_out /\ rcv' = rcv
    BY <1>5 DEF Step, sysRegs
  <2>2. p # 1  BY <1>1, <1>5
  <2> QED  BY <2>1, <2>2, <1>2, <1>3, <1>4
<1>6. CASE s
  <2>1. SysTypes /\ ReadInv  BY DEF FlowInv
  <2>2. toggle \in BOOLEAN  BY ToggleMoves DEF FlowInv
  <2>3. SysEdge(toggle)  BY <1>6 DEF Step
  <2>4. ~Fifo!RdEmpty => Written[1] \in Words /\ Len(Written) > 0
    BY <1>1, FrontMoves
  <2>5. /\ gmii_out'.valid = rx_pend.valid
        /\ rx_pend.valid =>
             /\ gmii_out'.fid = rx_pend.fid
             /\ gmii_out'.er = (rx_pend.er \/ (Written[1].eof /\ Written[1].err))
        /\ rcv'.valid = gmii_out.valid /\ rcv'.fid = Seen
        /\ gmii_out.valid => rcv'.er = (gmii_out.er \/ (rcv.valid /\ rcv.er))
        /\ \/ rx_reading /\ Written[1].eof /\ ~rx_pend'.valid
           \/ /\ rx_reading /\ ~Written[1].eof
              /\ rx_pend'.valid /\ rx_pend'.er = Written[1].err
              /\ rx_pend'.fid = Written[1].fid
           \/ ~rx_reading /\ rx_pend' = rx_pend
    BY <1>1, <2>1, <2>2, <2>3, <2>4, SysParts
  <2>6. ~rx_reading => ~rx_pend.valid  BY <2>1 DEF ReadInv
  <2>7. ByteBad(rcv', f) <=> ByteBad(rcv, f) \/ ByteBad(gmii_out, f)
    <3>1. gmii_out.valid /\ rcv.valid => gmii_out.fid = rcv.fid
      BY DEF OutInv, NeverMerged
    <3>2. CASE gmii_out.valid  BY <3>1, <3>2, <2>5 DEF ByteBad, Seen
    <3>3. CASE ~gmii_out.valid
      <4>1. f # rcv.fid  BY <3>3, <1>6
      <4> QED  BY <4>1, <3>3, <2>5 DEF ByteBad
    <3> QED  BY <3>2, <3>3
  <2>8. p = 1 <=> rx_reading  BY <1>1, <1>6
  <2>9. rx_pend.valid => p = 1 /\ Written[1].fid = rx_pend.fid
    <3> SUFFICES ASSUME rx_pend.valid PROVE p = 1 /\ Written[1].fid = rx_pend.fid  OBVIOUS
    <3>1. p = 1 /\ ~Fifo!RdEmpty  BY <2>1, <2>6, <2>8 DEF ReadInv
    <3> QED  BY <3>1, <1>1 DEF FrontInv
  <2>10. ByteBad(gmii_out', f) \/ ByteBad(rx_pend', f)
           <=> ByteBad(rx_pend, f) \/ (p = 1 /\ Written[1].fid = f /\ Written[1].err)
    <3>1. CASE p = 1 /\ Written[1].eof
      <4>1. ~rx_pend'.valid  BY <3>1, <2>5, <2>8
      <4>2. CASE rx_pend.valid  BY <4>1, <4>2, <3>1, <2>5, <2>9 DEF ByteBad
      <4>3. CASE ~rx_pend.valid  BY <4>1, <4>3, <3>1, <2>5 DEF ByteBad
      <4> QED  BY <4>2, <4>3
    <3>2. CASE p = 1 /\ ~Written[1].eof
      <4>1. rx_pend'.valid /\ rx_pend'.er = Written[1].err /\ rx_pend'.fid = Written[1].fid
        BY <3>2, <2>5, <2>8
      <4>2. CASE rx_pend.valid  BY <4>1, <4>2, <3>2, <2>5, <2>9 DEF ByteBad
      <4>3. CASE ~rx_pend.valid  BY <4>1, <4>3, <3>2, <2>5 DEF ByteBad
      <4> QED  BY <4>2, <4>3
    <3>3. CASE p # 1
      <4>1. ~rx_pend.valid /\ rx_pend' = rx_pend  BY <3>3, <2>5, <2>8, <2>9
      <4> QED  BY <4>1, <3>3, <2>5 DEF ByteBad
    <3> QED  BY <3>1, <3>2, <3>3
  <2> QED  BY <2>7, <2>10, <1>2, <1>3, <1>4
<1> QED  BY <1>5, <1>6
\* A frame that still has words, or is on the line, is not one the receiver has finished;
\* and the next frame of the line has left no mark yet.
LEMMA FramesAlive ==
  ASSUME FlowInv, StreamInv, Written \in Seq(Words), rx_pend.valid => Len(Written) > 0
  PROVE  /\ \A i \in 1 .. Len(Written) : ~gmii_out.valid => Written[i].fid # rcv.fid
         /\ InFrame /\ ~gmii_out.valid => line.fid # rcv.fid
         /\ ~Bad(line.fid + 1)
         /\ Seen <= line.fid
<1> PICK n \in Nat : n = Len(Written)  BY EmptyLen
<1>1. SysTypes /\ MediaInv /\ TailInv /\ OrderInv /\ FrontInv /\ OutInv
  BY DEF FlowInv, StreamInv
<1> PICK l \in Nat : l = line.fid
  <2>1. line.fid \in Nat  BY <1>1 DEF MediaInv
  <2> QED  BY <2>1
<1>2. rx_pend.fid \in Nat /\ gmii_out.fid \in Nat /\ rcv.fid \in Nat
  BY <1>1 DEF SysTypes, Bytes
<1> PICK g \in Nat : g = rx_pend.fid  BY <1>2
<1> PICK r \in Nat : r = rcv.fid  BY <1>2
<1> PICK h \in Nat : h = Seen  BY <1>2 DEF Seen
<1>3. rx_pend.valid => IF gmii_out.valid THEN g = h ELSE g > r
  BY <1>1 DEF OutInv, Seen
<1>4. ~gmii_out.valid => h = r  BY DEF Seen
<1>5. \A i \in 1 .. n : Written[i].fid \in Nat
  <2>1. \A i \in 1 .. n : Written[i] \in Words  BY ElementOfSeq
  <2> QED  BY <2>1 DEF Words
<1>6. ASSUME NEW i \in 1 .. n
      PROVE  /\ Written[i].fid <= l
             /\ IF rx_pend.valid THEN Written[i].fid >= g ELSE Written[i].fid > h
  BY <1>1 DEF OrderInv, UpTo, FrontInv
<1>7. ASSUME NEW i \in 1 .. n, ~gmii_out.valid
      PROVE  Written[i].fid > r
  <2> PICK f \in Nat : f = Written[i].fid  BY <1>5
  <2>1. IF rx_pend.valid THEN f >= g ELSE f > h  BY <1>6
  <2>2. (rx_pend.valid => g > r) /\ h = r  BY <1>3, <1>4, <1>7
  <2>3. f > r
    <3>1. CASE rx_pend.valid  BY <3>1, <2>1, <2>2
    <3>2. CASE ~rx_pend.valid  BY <3>2, <2>1, <2>2
    <3> QED  BY <3>1, <3>2
  <2> QED  BY <2>3
<1>8. n > 0 => g <= l \/ ~rx_pend.valid
  <2> SUFFICES ASSUME n > 0, rx_pend.valid PROVE g <= l  OBVIOUS
  <2>1. 1 \in 1 .. n  OBVIOUS
  <2> PICK f \in Nat : f = Written[1].fid  BY <2>1, <1>5
  <2>2. f <= l /\ f >= g  BY <2>1, <1>6
  <2> QED  BY <2>2
<1>9. n = 0 => Written = << >>
  <2>1. Written # << >> => n > 0  BY EmptyLen
  <2> QED  BY <2>1
<1>10. h <= l
  <2>1. CASE n = 0
    <3>1. Written = << >>  BY <2>1, <1>9
    <3> QED  BY <3>1, <1>1 DEF TailInv
  <2>2. CASE n > 0
    <3>1. 1 \in 1 .. n  BY <2>2
    <3> PICK f \in Nat : f = Written[1].fid  BY <3>1, <1>5
    <3>2. f <= l /\ (IF rx_pend.valid THEN f >= g ELSE f > h)  BY <3>1, <1>6
    <3>3. CASE rx_pend.valid
      <4>1. g >= h
        <5>1. CASE gmii_out.valid  BY <5>1, <3>3, <1>3
        <5>2. CASE ~gmii_out.valid  BY <5>2, <3>3, <1>3, <1>4
        <5> QED  BY <5>1, <5>2
      <4> QED  BY <4>1, <3>2, <3>3
    <3>4. CASE ~rx_pend.valid  BY <3>2, <3>4
    <3> QED  BY <3>3, <3>4
  <2> QED  BY <2>1, <2>2
<1>11. InFrame /\ ~gmii_out.valid => l # r
  <2> SUFFICES ASSUME InFrame, ~gmii_out.valid PROVE l # r  OBVIOUS
  <2>1. CASE n = 0
    <3>1. h < l
      <4>1. Written = << >>  BY <2>1, <1>9
      <4> QED  BY <4>1, <1>1 DEF TailInv
    <3> QED  BY <3>1, <1>4
  <2>2. CASE n > 0
    <3>1. 1 \in 1 .. n  BY <2>2
    <3> PICK f \in Nat : f = Written[1].fid  BY <3>1, <1>5
    <3>2. f <= l /\ f > r  BY <3>1, <1>6, <1>7
    <3> QED  BY <3>2
  <2> QED  BY <2>1, <2>2
<1>12. ~Bad(l + 1)
  <2>1. ~ByteBad(rcv, l + 1) /\ ~ByteBad(gmii_out, l + 1)
    <3>1. h # l + 1  BY <1>10
    <3>2. gmii_out.valid => gmii_out.fid = h  BY DEF Seen
    <3>3. rcv.valid => rcv.fid = h  BY <1>1 DEF Seen, OutInv, NeverMerged
    <3> QED  BY <3>1, <3>2, <3>3 DEF ByteBad
  <2>2. ~ByteBad(rx_pend, l + 1)
    <3>1. rx_pend.valid => g <= l  BY <1>8
    <3>2. rx_pend.valid => g # l + 1  BY <3>1
    <3> QED  BY <3>2 DEF ByteBad
  <2>3. ASSUME NEW i \in 1 .. n
        PROVE  Written[i].fid # l + 1
    <3> PICK f \in Nat : f = Written[i].fid  BY <1>5
    <3>1. f <= l  BY <1>6
    <3>2. f # l + 1  BY <3>1
    <3> QED  BY <3>2
  <2> QED  BY <2>1, <2>2, <2>3 DEF Bad, BadIn
<1> QED  BY <1>7, <1>10, <1>11, <1>12, <1>2, <1>5

\* What was recorded of a frame stays.
LEMMA SentKeeps ==
  ASSUME MediaInv, NEW m \in BOOLEAN, NEW s \in BOOLEAN,
         NEW sym \in Symbols, NEW er \in BOOLEAN, NEW toggle, Step(m, s, sym, er, toggle),
         NEW f \in 1 .. Len(sent)
  PROVE  f \in 1 .. Len(sent') /\ sent'[f] = sent[f]
<1>1. sent \in Seq([len : Nat, er : BOOLEAN])  BY DEF MediaInv
<1> PICK c \in Nat : c = Len(sent)  BY <1>1, LenProperties
<1>2. CASE ~m
  <2>1. sent' = sent  BY <1>2 DEF Step, mediaRegs
  <2> QED  BY <2>1
<1>3. CASE m
  <2>1. TakeLine(sym, er)  BY <1>3 DEF Step, MediaEdge
  <2>2. \/ sent' = sent
        \/ sent' = Append(sent, [len |-> line.len, er |-> line.er])
    BY <2>1 DEF TakeLine
  <2>3. CASE sent' = sent  BY <2>3
  <2>4. CASE sent' = Append(sent, [len |-> line.len, er |-> line.er])
    <3>1. [len |-> line.len, er |-> line.er] \in [len : Nat, er : BOOLEAN]
      BY DEF MediaInv
    <3>2. Len(sent') = c + 1 /\ \A i \in 1 .. c : sent'[i] = sent[i]
      BY <2>4, <3>1, <1>1, AppendProperties
    <3> QED  BY <3>2
  <2> QED  BY <2>2, <2>3, <2>4
<1> QED  BY <1>2, <1>3
\* The marks of a frame whose end is in the queue: none joins, and none is lost while the
\* end, or a byte before it, stays.
LEMMA MarksOfEnded ==
  ASSUME FlowInv, FlowInv', StreamInv, NEW m \in BOOLEAN, NEW s \in BOOLEAN,
         NEW sym \in Symbols, NEW er \in BOOLEAN, NEW toggle, Step(m, s, sym, er, toggle),
         NEW p \in 0 .. 1, NEW u \in 0 .. 1, Shape(m, s, p, u),
         NEW j \in 1 .. Len(Written), Written[j].eof, j > p \/ rx_pend.valid,
         NEW f \in Nat, f = Written[j].fid
  PROVE  Bad(f)' <=> Bad(f)
<1>1. Written \in Seq(Words) /\ (rx_pend.valid => Len(Written) > 0)
  BY ReaderFlow DEF Shape
<1> PICK n \in Nat : n = Len(Written)  BY <1>1, EmptyLen
<1>2. FrontInv /\ OutInv /\ OrderInv /\ MediaInv  BY DEF StreamInv, FlowInv
<1>3. ~gmii_out.valid => f # rcv.fid  BY <1>1, FramesAlive
<1>4. p = 1 /\ Written[1].eof /\ ~rx_pend.valid => f # Written[1].fid
  <2> SUFFICES ASSUME p = 1, Written[1].eof, ~rx_pend.valid
               PROVE  f # Written[1].fid
    OBVIOUS
  <2>1. 1 < j /\ 1 \in 1 .. n
    <3>1. j > 1  OBVIOUS
    <3> QED  BY <3>1
  <2>2. Precedes(Written[1], Written[j])  BY <2>1, <1>2 DEF OrderInv, Ordered
  <2>3. Written[1] \in Words  BY <2>1, <1>1, ElementOfSeq
  <2> PICK g \in Nat : g = Written[1].fid  BY <2>3 DEF Words
  <2>4. g < f  BY <2>2 DEF Precedes
  <2> QED  BY <2>4
<1>5. ~(u = 1 /\ FifoDin.fid = f)
  <2> SUFFICES ASSUME u = 1 PROVE FifoDin.fid # f  OBVIOUS
  <2>1. InFrame /\ FifoDin.fid = line.fid /\ line.fid \in Nat  BY <1>2, MediaFlow
  <2> PICK l \in Nat : l = line.fid  BY <2>1
  <2>2. f < l  BY <1>2, <2>1 DEF OrderInv, UpTo
  <2> QED  BY <2>1, <2>2
<1>6. Bad(f)' <=> Bad(f) \/ (u = 1 /\ FifoDin.fid = f /\ FifoDin.err)
  BY <1>2, <1>3, <1>4, BadMoves
<1> QED  BY <1>5, <1>6

\* The end that joins finds the marks of its frame.
LEMMA JoiningEnd ==
  ASSUME FlowInv, FlowInv', StreamInv, LineMarked, NEW m \in BOOLEAN, NEW s \in BOOLEAN,
         NEW sym \in Symbols, NEW er \in BOOLEAN, NEW toggle, Step(m, s, sym, er, toggle),
         NEW p \in 0 .. 1, NEW u \in 0 .. 1, Shape(m, s, p, u), u = 1, FifoDin.eof,
         NEW f \in Nat, f = line.fid
  PROVE  /\ FifoDin.fid = f /\ f \in 1 .. Len(sent')
         /\ sent'[f].len = line.len /\ sent'[f].er = line.er /\ Offered = line.len
         /\ rx_drop => Bad(f)'
         /\ ~rx_drop => (Bad(f)' <=> line.er)
<1>1. Written \in Seq(Words) /\ (rx_pend.valid => Len(Written) > 0)
  <2>1. Written \in Seq(Words)  BY DEF Shape
  <2>2. rx_pend.valid => Len(Written) > 0  BY HeldHasWords DEF FlowInv
  <2> QED  BY <2>1, <2>2
<1> PICK n \in Nat : n = Len(Written)  BY <1>1, EmptyLen
<1>2. FrontInv /\ OutInv /\ OrderInv /\ MediaInv  BY DEF StreamInv, FlowInv
<1>3. m /\ WrAccept /\ InFrame /\ FifoDin.fid = line.fid /\ WritesEof /\ ~rx_dv_d1
  BY <1>2, MediaFlow
<1>4. /\ Len(sent) = line.fid /\ line.fid > 0 /\ ~rx_er_noce
      /\ sent[line.fid] = [len |-> line.len, er |-> line.er]
  BY <1>2, <1>3 DEF MediaInv
<1>5. f \in 1 .. Len(sent)  BY <1>4
<1>6. f \in 1 .. Len(sent') /\ sent'[f] = sent[f]  BY <1>2, <1>5, SentKeeps
<1>7. sent'[f].len = line.len /\ sent'[f].er = line.er  BY <1>4, <1>6
<1>8. Offered = line.len
  <2>1. ~WritesByte  BY <1>3 DEF WritesByte, WritesEof
  <2>2. line.len \in Nat  BY <1>2 DEF MediaInv
  <2> QED  BY <2>1, <2>2 DEF Offered
<1>9. ~gmii_out.valid => f # rcv.fid  BY <1>1, <1>3, FramesAlive
<1>10. p = 1 /\ Written[1].eof /\ ~rx_pend.valid => f # Written[1].fid
  <2> SUFFICES ASSUME p = 1, Written[1].eof PROVE f # Written[1].fid  OBVIOUS
  <2>1. p <= n  BY DEF Shape, Moved
  <2>2. 1 \in 1 .. n  BY <2>1
  <2>3. Written[1].fid < line.fid  BY <2>2, <1>2, <1>3 DEF OrderInv, UpTo
  <2>4. Written[1] \in Words  BY <2>2, <1>1, ElementOfSeq
  <2> PICK g \in Nat : g = Written[1].fid  BY <2>4 DEF Words
  <2>5. g < f  BY <2>3
  <2> QED  BY <2>5
<1>11. Bad(f)' <=> Bad(f) \/ (u = 1 /\ FifoDin.fid = f /\ FifoDin.err)
  BY <1>2, <1>9, <1>10, BadMoves
<1>12. FifoDin.err = (rx_drop \/ rx_wr.word.err)
  BY <1>2, <1>3, FifoDinParts DEF WritesEof
<1>13. ~rx_drop => (Bad(f) \/ rx_wr.word.err <=> line.er)
  BY <1>3, <1>4 DEF LineMarked, WritesEof
<1> QED  BY <1>3, <1>6, <1>7, <1>8, <1>11, <1>12, <1>13
\* The place of the word that joins.
LEMMA JoinPlace ==
  ASSUME NEW n \in Nat, NEW p \in Nat, NEW i \in Nat, i = n - p + 1, i = 1
  PROVE  n = p
OBVIOUS

\* Every end word that is there or joins finds the marks of its frame.
LEMMA EndsKeep ==
  ASSUME FlowInv, FlowInv', StreamInv, EndsMarked, LineMarked,
         NEW m \in BOOLEAN, NEW s \in BOOLEAN,
         NEW sym \in Symbols, NEW er \in BOOLEAN, NEW toggle, Step(m, s, sym, er, toggle),
         NEW p \in 0 .. 1, NEW u \in 0 .. 1, Shape(m, s, p, u)
  PROVE  EndsMarked'
<1>1. /\ Written \in Seq(Words) /\ Written' \in Seq(Words) /\ FifoDin \in Words
      /\ Moved(Written, Written', p, u, FifoDin)
  BY DEF Shape
<1> PICK n \in Nat : n = Len(Written)  BY <1>1, EmptyLen
<1> PICK k \in Nat : k = Len(Written')  BY <1>1, EmptyLen
<1>2. p <= n /\ k = n - p + u
      /\ \A i \in 1 .. k : Written'[i] = IF i + p <= n THEN Written[i + p] ELSE FifoDin
  BY <1>1 DEF Moved
<1>3. /\ rx_pend \in Bytes /\ rx_pend' \in Bytes
      /\ p = 0 => rx_pend' = rx_pend
      /\ p = 1 /\ Written[1].eof => ~rx_pend'.valid
      /\ p = 1 /\ ~Written[1].eof => rx_pend'.valid /\ rx_pend'.idx = Written[1].idx
      /\ rx_pend.valid => n > 0
  BY ReaderFlow
<1>4. SUFFICES ASSUME NEW i \in 1 .. k, Written'[i].eof
               PROVE  /\ Written'[i].fid \in 1 .. Len(sent')
                      /\ HasBytes(i)' =>
                           (Bad(Written[i].fid)' <=> Damaged(Written[i].fid, BytesOf(i))')
  BY DEF EndsMarked
<1>5. Written'[i] \in Words  BY <1>1, ElementOfSeq
<1> PICK f \in Nat : f = Written'[i].fid  BY <1>5 DEF Words
<1>6. HasBytes(i)' <=> IF i = 1 THEN rx_pend'.valid ELSE ~Written'[i - 1].eof
  BY DEF HasBytes
<1>7. BytesOf(i)' = 1 + (IF i = 1 THEN rx_pend'.idx ELSE Written'[i - 1].idx)
  BY DEF BytesOf
<1>8. CASE i + p <= n
  <2> PICK j \in 1 .. n : j = i + p  BY <1>8
  <2>1. Written'[i] = Written[j]  BY <1>2, <1>8
  <2>2. j > p  OBVIOUS
  <2>3. Bad(f)' <=> Bad(f)  BY <1>4, <2>1, <2>2, MarksOfEnded
  <2>4. f \in 1 .. Len(sent) /\ (HasBytes(j) => (Bad(f) <=> Damaged(f, BytesOf(j))))
    BY <1>4, <2>1 DEF EndsMarked
  <2>5. f \in 1 .. Len(sent') /\ sent'[f] = sent[f]  BY <2>4, SentKeeps DEF FlowInv
  <2>6. /\ HasBytes(i)' <=> HasBytes(j)
        /\ HasBytes(j) => BytesOf(i)' = BytesOf(j)
    <3>1. HasBytes(j) <=> IF j = 1 THEN rx_pend.valid ELSE ~Written[j - 1].eof
      BY DEF HasBytes
    <3>2. BytesOf(j) = 1 + (IF j = 1 THEN rx_pend.idx ELSE Written[j - 1].idx)
      BY DEF BytesOf
    <3>3. CASE i > 1
      <4>1. i - 1 \in 1 .. k /\ (i - 1) + p <= n /\ (i - 1) + p = j - 1 /\ j # 1
        BY <3>3, <1>8
      <4>2. Written'[i - 1] = Written[j - 1]  BY <4>1, <1>2
      <4> QED  BY <4>1, <4>2, <3>1, <3>2, <3>3, <1>6, <1>7
    <3>4. CASE i = 1 /\ p = 0
      <4>1. j = 1 /\ rx_pend' = rx_pend  BY <3>4, <1>3
      <4> QED  BY <4>1, <3>1, <3>2, <3>4, <1>6, <1>7
    <3>5. CASE i = 1 /\ p = 1
      <4>1. j # 1 /\ j - 1 = 1  BY <3>5
      <4>2. rx_pend'.valid <=> ~Written[1].eof  BY <3>5, <1>3
      <4>3. ~Written[1].eof => rx_pend'.idx = Written[1].idx  BY <3>5, <1>3
      <4> QED  BY <4>1, <4>2, <4>3, <3>1, <3>2, <3>5, <1>6, <1>7
    <3>6. (i > 1 \/ i = 1) /\ (p = 0 \/ p = 1)  OBVIOUS
    <3> QED  BY <3>3, <3>4, <3>5, <3>6
  <2>7. HasBytes(i)' => (Bad(Written[i].fid)' <=> Damaged(Written[i].fid, BytesOf(i))')
    <3> SUFFICES ASSUME HasBytes(i)'
                 PROVE  Bad(Written[i].fid)' <=> Damaged(Written[i].fid, BytesOf(i))'
      OBVIOUS
    <3>1. Bad(f)' <=> Damaged(f, BytesOf(j))  BY <2>3, <2>4, <2>6
    <3>2. Damaged(Written[i].fid, BytesOf(i))'
            <=> sent'[f].er \/ BytesOf(j) < sent'[f].len
      BY <2>6 DEF Damaged
    <3>3. Damaged(f, BytesOf(j)) <=> sent'[f].er \/ BytesOf(j) < sent'[f].len
      BY <2>5 DEF Damaged
    <3>4. Bad(Written[i].fid)' <=> Bad(f)'  BY DEF Bad
    <3> QED  BY <3>1, <3>2, <3>3, <3>4
  <2> QED  BY <2>5, <2>7
<1>9. CASE ~(i + p <= n)
  <2>1. Written'[i] = FifoDin /\ u = 1 /\ i = n - p + 1  BY <1>2, <1>9
  <2>2. FifoDin.fid = line.fid  BY <2>1, MediaFlow DEF FlowInv
  <2>3. f = line.fid /\ FifoDin.eof  BY <2>1, <2>2, <1>4
  <2>4. /\ f \in 1 .. Len(sent')
        /\ sent'[f].len = line.len /\ sent'[f].er = line.er /\ Offered = line.len
        /\ rx_drop => Bad(f)'
        /\ ~rx_drop => (Bad(f)' <=> line.er)
    BY <2>1, <2>3, JoiningEnd
  <2>5. HasBytes(i)' => n > 0 /\ ~Written[n].eof /\ BytesOf(i)' = 1 + Written[n].idx
    <3> SUFFICES ASSUME HasBytes(i)'
                 PROVE  n > 0 /\ ~Written[n].eof /\ BytesOf(i)' = 1 + Written[n].idx
      OBVIOUS
    <3>1. CASE i > 1
      <4>1. i - 1 \in 1 .. k /\ (i - 1) + p = n /\ n > 0  BY <3>1, <2>1
      <4>2. Written'[i - 1] = Written[n]  BY <4>1, <1>2
      <4> QED  BY <4>1, <4>2, <3>1, <1>6, <1>7
    <3>2. CASE i = 1 /\ p = 0
      <4>1. n = 0
        <5>1. i \in Nat /\ p \in Nat  OBVIOUS
        <5> QED  BY <5>1, <3>2, <2>1, JoinPlace
      <4>2. rx_pend'.valid  BY <3>2, <1>6
      <4>3. rx_pend.valid  BY <4>2, <3>2, <1>3
      <4> QED  BY <4>1, <4>3, <1>3
    <3>3. CASE i = 1 /\ p = 1
      <4>1. n = 1
        <5>1. i \in Nat /\ p \in Nat  OBVIOUS
        <5> QED  BY <5>1, <3>3, <2>1, JoinPlace
      <4>2. rx_pend'.valid  BY <3>3, <1>6
      <4>3. ~Written[1].eof /\ rx_pend'.idx = Written[1].idx  BY <4>2, <3>3, <1>3
      <4> QED  BY <4>1, <4>3, <3>3, <1>7
    <3>4. (i > 1 \/ i = 1) /\ (p = 0 \/ p = 1)  OBVIOUS
    <3> QED  BY <3>1, <3>2, <3>3, <3>4
  <2>6. HasBytes(i)' => (Bad(Written[i].fid)' <=> Damaged(Written[i].fid, BytesOf(i))')
    <3> SUFFICES ASSUME HasBytes(i)'
                 PROVE  Bad(Written[i].fid)' <=> Damaged(Written[i].fid, BytesOf(i))'
      OBVIOUS
    <3>1. n > 0 /\ n \in 1 .. n  BY <2>5
    <3>2. Written[n] \in Words  BY <3>1, <1>1, ElementOfSeq
    <3> PICK x \in Nat : x = Written[n].idx  BY <3>2 DEF Words
    <3>3. Written # << >> /\ ~Written[n].eof
      <4>1. Written = << >> => n = 0  BY <1>1, EmptyLen
      <4> QED  BY <4>1, <3>1, <2>5
    <3>4. IF rx_drop THEN x + 1 < Offered ELSE x + 1 = Offered
      BY <3>3 DEF StreamInv, TailInv
    <3> PICK l \in Nat : l = line.len  BY DEF FlowInv, MediaInv
    <3>5. (rx_drop => 1 + x < l) /\ (~rx_drop => ~(1 + x < l))  BY <3>4, <2>4
    <3>6. Damaged(Written[i].fid, BytesOf(i))' <=> line.er \/ 1 + x < l
      BY <2>4, <2>5 DEF Damaged
    <3>7. Bad(Written[i].fid)' <=> Bad(f)'  BY DEF Bad
    <3> QED  BY <3>5, <3>6, <3>7, <2>4
  <2> QED  BY <2>4, <2>6
<1> QED  BY <1>8, <1>9
\* The last byte goes out with the marks of its whole frame.
LEMMA OutMarksKeep ==
  ASSUME FlowInv, FlowInv', StreamInv, StreamInv', EndsMarked, OutMarked,
         NEW m \in BOOLEAN, NEW s \in BOOLEAN,
         NEW sym \in Symbols, NEW er \in BOOLEAN, NEW toggle, Step(m, s, sym, er, toggle),
         NEW p \in 0 .. 1, NEW u \in 0 .. 1, Shape(m, s, p, u)
  PROVE  OutMarked'
<1>1. /\ Written \in Seq(Words) /\ Written' \in Seq(Words)
      /\ ~Fifo!RdEmpty => Written # << >> /\ Fifo!RdData = Written[1]
      /\ p = 1 <=> s /\ rx_reading
  BY DEF Shape
<1>2. CASE ~s
  <2>1. rx_pend' = rx_pend /\ gmii_out' = gmii_out /\ rcv' = rcv
    BY <1>2 DEF Step, sysRegs
  <2>2. gmii_out.fid \in 1 .. Len(sent) =>
          gmii_out.fid \in 1 .. Len(sent') /\ sent'[gmii_out.fid] = sent[gmii_out.fid]
    BY SentKeeps DEF FlowInv
  <2> QED  BY <2>1, <2>2 DEF OutMarked, Damaged
<1>3. CASE s
  <2> SUFFICES ASSUME gmii_out'.valid, ~rx_pend'.valid
               PROVE  /\ gmii_out'.fid \in 1 .. Len(sent')
                      /\ (gmii_out'.er \/ (rcv'.valid /\ rcv'.er))
                           <=> Damaged(gmii_out.fid, gmii_out.idx + 1)'
    BY DEF OutMarked
  <2>1. SysTypes /\ ReadInv /\ StreamInv /\ MediaInv  BY DEF FlowInv
  <2>2. toggle \in BOOLEAN  BY ToggleMoves DEF FlowInv
  <2>3. SysEdge(toggle)  BY <1>3 DEF Step
  <2>4. ~Fifo!RdEmpty => Written[1] \in Words /\ Len(Written) > 0
    BY <1>1, FrontMoves
  <2>5. /\ gmii_out'.valid = rx_pend.valid
        /\ rx_pend.valid => gmii_out'.fid = rx_pend.fid /\ gmii_out'.idx = rx_pend.idx
        /\ \/ rx_reading /\ ~Fifo!RdEmpty /\ Written[1].eof
           \/ rx_pend'.valid
           \/ ~rx_reading
    BY <1>1, <2>1, <2>2, <2>3, <2>4, SysParts
  <2>6. rx_pend.valid /\ rx_reading  BY <2>1, <2>5 DEF ReadInv
  <2>7. Written[1].eof /\ 1 \in 1 .. Len(Written) /\ Written # << >>
    <3>1. Len(Written) \in Nat  BY <1>1, EmptyLen
    <3> QED  BY <3>1, <1>1, <2>4, <2>5, <2>6
  <2>8. Written[1].fid = rx_pend.fid  BY <2>6, <2>7 DEF StreamInv, FrontInv
  <2> PICK f \in Nat : f = rx_pend.fid  BY <2>1 DEF SysTypes, Bytes
  <2>9. /\ f \in 1 .. Len(sent)
        /\ Bad(f) <=> Damaged(f, 1 + rx_pend.idx)
    BY <2>6, <2>7, <2>8 DEF EndsMarked, HasBytes, BytesOf
  <2>10. Bad(f)' <=> Bad(f)  BY <2>6, <2>7, <2>8, MarksOfEnded
  <2>11. f \in 1 .. Len(sent') /\ sent'[f] = sent[f]  BY <2>1, <2>9, SentKeeps
  <2>12. gmii_out'.fid = f /\ gmii_out'.idx = rx_pend.idx  BY <2>5, <2>6
  <2>13. Bad(f)' <=> gmii_out'.er \/ (rcv'.valid /\ rcv'.er)
    <3>1. Bad(f)' <=> \/ ByteBad(rcv', f) \/ ByteBad(gmii_out', f)
                      \/ ByteBad(rx_pend', f) \/ BadIn(Written', f)
      BY DEF Bad, ByteBad, BadIn
    <3>2. ~ByteBad(rx_pend', f)  BY DEF ByteBad
    <3>3. ByteBad(gmii_out', f) <=> gmii_out'.er  BY <2>12 DEF ByteBad
    <3>4. rcv'.valid => rcv'.fid = f  BY <2>12 DEF StreamInv, OutInv, NeverMerged
    <3>5. ByteBad(rcv', f) <=> rcv'.valid /\ rcv'.er  BY <3>4 DEF ByteBad
    <3>6. ~BadIn(Written', f)
      <4> SUFFICES ASSUME NEW i \in 1 .. Len(Written') PROVE Written'[i].fid # f
        BY DEF BadIn
      <4>1. Written'[i].fid > f  BY <2>12 DEF StreamInv, FrontInv, Seen
      <4>2. Written'[i] \in Words  BY <1>1, ElementOfSeq
      <4> PICK g \in Nat : g = Written'[i].fid  BY <4>2 DEF Words
      <4>3. g > f  BY <4>1
      <4> QED  BY <4>3
    <3> QED  BY <3>1, <3>2, <3>3, <3>5, <3>6
  <2>14. Damaged(gmii_out.fid, gmii_out.idx + 1)' <=> Damaged(f, 1 + rx_pend.idx)
    <3> PICK x \in Nat : x = rx_pend.idx  BY <2>1 DEF SysTypes, Bytes
    <3>1. 1 + x = x + 1  OBVIOUS
    <3>2. Damaged(gmii_out.fid, gmii_out.idx + 1)' <=> sent[f].er \/ x + 1 < sent[f].len
      BY <2>11, <2>12 DEF Damaged
    <3>3. Damaged(f, 1 + rx_pend.idx) <=> sent[f].er \/ x + 1 < sent[f].len
      BY <3>1 DEF Damaged
    <3> QED  BY <3>2, <3>3
  <2> QED  BY <2>9, <2>10, <2>11, <2>12, <2>13, <2>14
<1> QED  BY <1>2, <1>3

\* The receiver holds what the outputs showed.
LEMMA SeenMarksKeep ==
  ASSUME FlowInv, FlowInv', OutMarked, SeenMarked,
         NEW m \in BOOLEAN, NEW s \in BOOLEAN,
         NEW sym \in Symbols, NEW er \in BOOLEAN, NEW toggle, Step(m, s, sym, er, toggle),
         NEW p \in 0 .. 1, NEW u \in 0 .. 1, Shape(m, s, p, u)
  PROVE  SeenMarked'
<1>1. /\ Written \in Seq(Words)
      /\ ~Fifo!RdEmpty => Written # << >> /\ Fifo!RdData = Written[1]
  BY DEF Shape
<1>2. \A f \in 1 .. Len(sent) : f \in 1 .. Len(sent') /\ sent'[f] = sent[f]
  BY SentKeeps DEF FlowInv
<1>3. CASE ~s
  <2>1. gmii_out' = gmii_out /\ rcv' = rcv  BY <1>3 DEF Step, sysRegs
  <2> QED  BY <2>1, <1>2 DEF SeenMarked, Damaged
<1>4. CASE s
  <2>1. SysTypes /\ ReadInv  BY DEF FlowInv
  <2>2. toggle \in BOOLEAN  BY ToggleMoves DEF FlowInv
  <2>3. SysEdge(toggle)  BY <1>4 DEF Step
  <2>4. ~Fifo!RdEmpty => Written[1] \in Words  BY <1>1, FrontMoves
  <2>5. /\ gmii_out'.valid = rx_pend.valid
        /\ rcv'.valid = gmii_out.valid /\ rcv'.fid = Seen
        /\ gmii_out.valid => /\ rcv'.idx = gmii_out.idx
                             /\ rcv'.er = (gmii_out.er \/ (rcv.valid /\ rcv.er))
    BY <1>1, <2>1, <2>2, <2>3, <2>4, SysParts
  <2> SUFFICES ASSUME rcv'.valid, ~gmii_out'.valid
               PROVE  /\ rcv'.fid \in 1 .. Len(sent')
                      /\ rcv'.er <=> Damaged(rcv.fid, rcv.idx + 1)'
    BY DEF SeenMarked
  <2>6. gmii_out.valid /\ ~rx_pend.valid  BY <2>5
  <2>7. /\ rcv'.fid = gmii_out.fid /\ rcv'.idx = gmii_out.idx
        /\ rcv'.er <=> gmii_out.er \/ (rcv.valid /\ rcv.er)
    BY <2>5, <2>6 DEF Seen
  <2>8. /\ gmii_out.fid \in 1 .. Len(sent)
        /\ (gmii_out.er \/ (rcv.valid /\ rcv.er))
             <=> Damaged(gmii_out.fid, gmii_out.idx + 1)
    BY <2>6 DEF OutMarked
  <2> QED  BY <2>7, <2>8, <1>2 DEF Damaged
<1> QED  BY <1>3, <1>4

\* What the line showed of its frame is in the crossing or in the write registers.
LEMMA LineMarksKeep ==
  ASSUME FlowInv, FlowInv', StreamInv, LineMarked,
         NEW m \in BOOLEAN, NEW s \in BOOLEAN,
         NEW sym \in Symbols, NEW er \in BOOLEAN, NEW toggle, Step(m, s, sym, er, toggle),
         NEW p \in 0 .. 1, NEW u \in 0 .. 1, Shape(m, s, p, u)
  PROVE  LineMarked'
<1>1. Written \in Seq(Words) /\ (rx_pend.valid => Len(Written) > 0)
  BY ReaderFlow DEF Shape
<1> PICK n \in Nat : n = Len(Written)  BY <1>1, EmptyLen
<1>2. FrontInv /\ OutInv /\ OrderInv /\ MediaInv  BY DEF StreamInv, FlowInv
<1> PICK f \in Nat : f = line'.fid  BY DEF FlowInv, MediaInv
<1>3. line.fid \in Nat  BY <1>2 DEF MediaInv
<1>4. SUFFICES ASSUME InFrame', ~rx_drop'
               PROVE  Bad(f)' \/ rx_er_noce' \/ (rx_wr'.en /\ rx_wr'.word.err) <=> line'.er
  <2>1. Bad(line.fid)' <=> Bad(f)'  BY DEF Bad
  <2> QED  BY <1>4, <2>1 DEF LineMarked
\* the marks of the frame that stays on the line
<1>5. ASSUME InFrame, line'.fid = line.fid
      PROVE  Bad(f)' <=> Bad(f) \/ (u = 1 /\ FifoDin.fid = f /\ FifoDin.err)
  <2>1. ~gmii_out.valid => f # rcv.fid  BY <1>1, <1>5, FramesAlive
  <2>2. p = 1 /\ Written[1].eof => f # Written[1].fid
    <3> SUFFICES ASSUME p = 1, Written[1].eof PROVE f # Written[1].fid  OBVIOUS
    <3>1. p <= n  BY DEF Shape, Moved
    <3>2. 1 \in 1 .. n  BY <3>1
    <3>3. Written[1].fid < line.fid  BY <3>2, <1>2, <1>5 DEF OrderInv, UpTo
    <3>4. Written[1] \in Words  BY <3>2, <1>1, ElementOfSeq
    <3> PICK g \in Nat : g = Written[1].fid  BY <3>4 DEF Words
    <3>5. g < f  BY <3>3, <1>5
    <3> QED  BY <3>5
  <2> QED  BY <2>1, <2>2, <1>2, BadMoves
<1>6. CASE ~m
  <2>1. /\ line' = line /\ rx_wr' = rx_wr /\ rx_dv_d1' = rx_dv_d1 /\ rx_drop' = rx_drop
        /\ rx_er_noce' = rx_er_noce
    BY <1>6 DEF Step, mediaRegs
  <2>2. InFrame /\ ~rx_drop  BY <1>4, <2>1 DEF InFrame, WritesEof
  <2>3. u # 1  BY <1>6 DEF Shape
  <2>4. Bad(f)' <=> Bad(f)  BY <1>5, <2>1, <2>2, <2>3
  <2>5. Bad(line.fid) \/ rx_er_noce \/ (rx_wr.en /\ rx_wr.word.err) <=> line.er
    BY <2>2 DEF LineMarked
  <2> QED  BY <2>1, <2>4, <2>5
<1>7. CASE m
  <2>1. MediaEdge(sym, er)  BY <1>7 DEF Step
  <2>2. \/ /\ rx_dv_d1 /\ line'.fid = line.fid /\ rx_drop' = (rx_drop \/ DataRefuse)
        \/ ~InFrame /\ line'.fid = line.fid + 1
    BY <1>2, <1>4, <2>1, MediaKeeps
  <2>3. TakeLine(sym, er) /\ rx_dv_d1' = (sym # "idle")  BY <2>1 DEF MediaEdge
  <2>4. CASE /\ rx_dv_d1 /\ line'.fid = line.fid /\ rx_drop' = (rx_drop \/ DataRefuse)
    <3>1. InFrame /\ ~rx_drop /\ ~DataRefuse  BY <1>4, <2>4 DEF InFrame
    <3>2. Bad(f) \/ rx_er_noce \/ (rx_wr.en /\ rx_wr.word.err) <=> line.er
      BY <2>4, <3>1 DEF LineMarked
    <3>3. (u = 1 /\ FifoDin.fid = f /\ FifoDin.err) <=> rx_wr.en /\ rx_wr.word.err
      <4>1. ~WritesEof  BY <1>2, <2>4 DEF MediaInv
      <4>2. rx_wr.en <=> u = 1
        <5>1. rx_wr.en => WrAccept  BY <4>1, <3>1 DEF DataRefuse, WritesEof
        <5>2. WrAccept => rx_wr.en  BY DEF WrAccept
        <5> QED  BY <5>1, <5>2, <1>7 DEF Shape
      <4>3. rx_wr.en => FifoDin = rx_wr.word
        BY <1>2, <4>1, FifoDinParts DEF WritesEof
      <4>4. u = 1 => FifoDin.fid = f  BY <1>2, <2>4, MediaFlow
      <4> QED  BY <4>2, <4>3, <4>4
    <3>4. Bad(f)' <=> Bad(f) \/ (rx_wr.en /\ rx_wr.word.err)
      BY <1>5, <2>4, <3>1, <3>3
    <3>5. /\ line'.er <=> line.er \/ (sym # "idle" /\ er)
          /\ rx_er_noce' \/ (rx_wr'.en /\ rx_wr'.word.err)
               <=> rx_er_noce \/ (sym # "idle" /\ er)
      BY <1>2, <2>3, <2>4, TakeLineParts
    <3> QED  BY <3>2, <3>4, <3>5
  <2>5. CASE ~InFrame /\ line'.fid = line.fid + 1
    <3>1. ~Bad(f)  BY <1>1, <2>5, FramesAlive
    <3>2. u # 1  BY <1>2, <2>5, MediaFlow
    <3>3. Bad(f)' <=> Bad(f)
      <4>1. s /\ ~gmii_out.valid => f # rcv.fid
        <5> SUFFICES ASSUME ~gmii_out.valid PROVE f # rcv.fid  OBVIOUS
        <5>1. rcv.fid <= line.fid
          <6>1. Seen = rcv.fid  BY DEF Seen
          <6> QED  BY <6>1, <1>1, FramesAlive
        <5> PICK r \in Nat : r = rcv.fid  BY DEF FlowInv, SysTypes, Bytes
        <5>2. r < f  BY <5>1, <2>5, <1>3
        <5> QED  BY <5>2
      <4>2. p = 1 => f # Written[1].fid
        <5> SUFFICES ASSUME p = 1 PROVE f # Written[1].fid  OBVIOUS
        <5>1. p <= n  BY DEF Shape, Moved
        <5>2. 1 \in 1 .. n  BY <5>1
        <5>3. Written[1].fid <= line.fid  BY <5>2, <1>2 DEF OrderInv, UpTo
        <5>4. Written[1] \in Words  BY <5>2, <1>1, ElementOfSeq
        <5> PICK g \in Nat : g = Written[1].fid  BY <5>4 DEF Words
        <5>5. g < f  BY <5>3, <2>5, <1>3
        <5> QED  BY <5>5
      <4> QED  BY <4>1, <4>2, <3>2, <1>2, BadMoves
    <3>4. ~rx_dv_d1 /\ ~rx_er_noce  BY <1>2, <2>5 DEF MediaInv, InFrame
    <3>5. sym # "idle"
      <4> SUFFICES ASSUME sym = "idle" PROVE FALSE  OBVIOUS
      <4>1. line'.fid = line.fid  BY <1>2, <2>3, <3>4, TakeLineParts
      <4> QED  BY <4>1, <2>5, <1>3
    <3>6. /\ line'.er <=> er
          /\ rx_er_noce' \/ (rx_wr'.en /\ rx_wr'.word.err) <=> er
      BY <1>2, <2>3, <3>4, <3>5, TakeLineParts
    <3> QED  BY <3>1, <3>3, <3>6
  <2> QED  BY <2>2, <2>4, <2>5
<1> QED  BY <1>6, <1>7
\* At the start there is no error mark and no frame to mark.
LEMMA MarksStart ==
  ASSUME Init
  PROVE  ErrInv
<1>1. /\ Written = << >> /\ Len(<< >>) = 0
      /\ rx_dv_d1 = FALSE /\ rx_wr = NoWrite
      /\ gmii_out = NoByte /\ rcv = NoByte
  BY DEF Init, Fifo!Init, Written
<1>2. ~NoWrite.en /\ ~NoByte.valid  BY DEF NoWrite, NoByte
<1>3. ~InFrame  BY <1>1, <1>2 DEF InFrame, WritesEof
<1> QED
  BY <1>1, <1>2, <1>3 DEF ErrInv, EndsMarked, OutMarked, SeenMarked, LineMarked

\* Every step keeps the error marks.
LEMMA MarksStay ==
  ASSUME FlowInv, StreamInv, FlowInv', StreamInv', ErrInv, [Next]_vars
  PROVE  ErrInv'
<1>1. CASE Next
  <2>1. PICK m, s \in BOOLEAN, sym \in Symbols, er \in BOOLEAN :
          \E t : Step(m, s, sym, er, t)
    BY <1>1, NextIsStep
  <2>11. PICK toggle : Step(m, s, sym, er, toggle)  BY <2>1
  <2>2. FifoInv /\ RoomInv /\ MediaInv /\ SysTypes /\ ReadInv  BY DEF FlowInv
  <2>3. PICK p, u \in 0 .. 1 : Shape(m, s, p, u)  BY <2>11, <2>2, StepShape
  <2>4. EndsMarked /\ OutMarked /\ SeenMarked /\ LineMarked  BY DEF ErrInv
  <2>5. EndsMarked'  BY <2>11, <2>3, <2>4, EndsKeep
  <2>6. OutMarked'  BY <2>11, <2>3, <2>4, OutMarksKeep
  <2>7. SeenMarked'  BY <2>11, <2>3, <2>4, SeenMarksKeep
  <2>8. LineMarked'  BY <2>11, <2>3, <2>4, LineMarksKeep
  <2> QED  BY <2>5, <2>6, <2>7, <2>8 DEF ErrInv
<1>2. CASE UNCHANGED vars
  <2>1. UNCHANGED <<rx_wr, rx_dv_d1, rx_drop, rx_er_noce, line, sent, q, head,
                    rx_pend, gmii_out, rcv>>
    BY <1>2 DEF vars, mediaRegs, fifo, sysRegs
  <2>2. Written' = Written /\ InFrame' = InFrame
    BY <2>1 DEF Written, InFrame, WritesEof
  <2> QED
    BY <2>1, <2>2
    DEF ErrInv, EndsMarked, OutMarked, SeenMarked, LineMarked, Bad, Damaged, HasBytes, BytesOf
<1> QED  BY <1>1, <1>2

\* FlaggedIffDamaged, whatever the depth of the FIFO, the number of frames and their length:
\* a frame that the MAC has received whole shows rx_er exactly if the line showed an error
\* in it or bytes of it were refused, on whichever word the error travelled: a byte, the
\* end of the frame, or the end that tells of the refused bytes (gmii_cdc.v 105-160,
\* 262-302).
THEOREM DamageIsFlagged == Spec => []FlaggedIffDamaged
<1>1. Init => ErrInv  BY MarksStart
<1>2. /\ (FlowInv /\ StreamInv) /\ (FlowInv /\ StreamInv)' /\ ErrInv /\ [Next]_vars
      => ErrInv'
  BY MarksStay
<1>3. FlowInv /\ ErrInv => FlaggedIffDamaged
  <2> SUFFICES ASSUME FlowInv, ErrInv, rcv.valid, ~gmii_out.valid
               PROVE  rcv.er = (sent[rcv.fid].er \/ rcv.idx + 1 < sent[rcv.fid].len)
    BY DEF FlaggedIffDamaged
  <2>1. rcv.er <=> Damaged(rcv.fid, rcv.idx + 1)  BY DEF ErrInv, SeenMarked
  <2>2. rcv.er \in BOOLEAN  BY DEF FlowInv, SysTypes, Bytes
  <2> QED  BY <2>1, <2>2 DEF Damaged
<1> QED  BY <1>1, <1>2, <1>3, CrossingInductive, PTL DEF Spec
=============================================================================
