-------------------------- MODULE SimModelsProofs ---------------------------
(***************************************************************************)
(* Proofs about the store-and-forward transmitter and its reference model, *)
(* for every FIFO depth, frame limit and minimum, source and gate.         *)
(***************************************************************************)
EXTENDS SimModels, SequenceTheorems, FiniteSetTheorems, WellFoundedInduction, TLAPS

-----------------------------------------------------------------------------
(* The reference reads the stream byte by byte.                             *)

\* One byte of the stream s in saf_expected, and where it starts.
Reader(s, acc, i) ==
  LET last   == s[i]
      cur_   == Append(acc.cur, i)
      forced == Len(cur_) = MAX_FRAME /\ ~last
  IN IF acc.dropping THEN [acc EXCEPT !.dropping = ~last]
     ELSE IF last \/ forced
          THEN [frames |-> Append(acc.frames, Saf!pad_payload(cur_)), cur |-> <<>>,
                dropping |-> forced]
          ELSE [acc EXCEPT !.cur = cur_]
Unread == [frames |-> <<>>, cur |-> <<>>, dropping |-> FALSE]

\* g is what the fold of saf_expected computes on the way, for each set of places of s.
IsFold(g, s) ==
  g = [S \in SUBSET (1 .. Len(s)) |->
         IF S = {} THEN Unread ELSE Reader(s, g[S \ {Saf!Max(S)}], Saf!Max(S))]

\* The fold is there, and it is one.
Folds(s) == /\ \E g : IsFold(g, s)
            /\ \A g, h : IsFold(g, s) /\ IsFold(h, s) => g[1 .. Len(s)] = h[1 .. Len(s)]

\* What is left of the stream s when all of it was read.
ReadAll(s) == (CHOOSE g : IsFold(g, s))[1 .. Len(s)]

\* A set of places has a last one.
LEMMA GreatestOf ==
  ASSUME NEW n \in Nat, NEW S \in SUBSET (1 .. n), S # {}
  PROVE  Saf!Max(S) \in S /\ \A k \in S : Saf!Max(S) >= k
<1> DEFINE Above == {i \in Nat : \A k \in S : k <= i}
<1>1. IsWellFoundedOn(OpToRel(<, Nat), Nat)  BY NatLessThanWellFounded
<1>2. Above \subseteq Nat /\ n \in Above
  OBVIOUS
<1>3. PICK t \in Above : \A u \in Above : ~(<<u, t>> \in OpToRel(<, Nat))
  <2> HIDE DEF Above
  <2> QED  BY <1>1, <1>2, WFMin
<1>4. t \in Nat /\ (\A k \in S : k <= t) /\ \A u \in Above : ~(u < t)
  BY <1>3 DEF OpToRel
<1>5. t \in S
  <2> SUFFICES ASSUME t \notin S PROVE FALSE  OBVIOUS
  <2>1. PICK k \in S : TRUE  OBVIOUS
  <2>2. t >= 1  BY <2>1, <1>4
  <2>3. t - 1 \in Above
    <3>1. \A j \in S : j # t /\ j <= t /\ j \in Nat  BY <1>4
    <3>2. \A j \in S : j <= t - 1  BY <3>1, <1>4
    <3> QED  BY <3>2, <2>2, <1>4
  <2> QED  BY <2>3, <1>4
<1>6. \A k \in S : t >= k  BY <1>4
<1>7. \E m \in S : \A k \in S : m >= k  BY <1>5, <1>6
<1> QED  BY <1>7 DEF Saf!Max

\* A new last place is the last one.
LEMMA GreatestIs ==
  ASSUME NEW n \in Nat, NEW S \in SUBSET (1 .. n + 1), n + 1 \in S
  PROVE  Saf!Max(S) = n + 1
<1>1. Saf!Max(S) \in S /\ Saf!Max(S) >= n + 1  BY GreatestOf, n + 1 \in Nat
<1>2. PICK m \in 1 .. n + 1 : m = Saf!Max(S) /\ m >= n + 1  BY <1>1
<1> QED  BY <1>2

\* saf_expected is the list of frames in it.
LEMMA ExpectedIs ==
  ASSUME stream \in Seq(BOOLEAN)
  PROVE  Saf!saf_expected = ReadAll(stream).frames
<1> DEFINE Places == [i \in 1 .. Len(stream) |-> i]
           F(g)   == g = [S \in SUBSET DOMAIN Places |->
                            IF S = {} THEN Unread
                            ELSE LET x == Saf!Max(S)
                                 IN Saf!saf_step(g[S \ {x}], Places[x])]
<1>1. Saf!saf_expected = (CHOOSE g : F(g))[DOMAIN Places].frames
  BY DEF Saf!saf_expected, Saf!FoldLeft, Saf!MapThenFoldSet, Unread
<1>2. DOMAIN Places = 1 .. Len(stream) /\ \A x \in 1 .. Len(stream) : Places[x] = x
  OBVIOUS
<1>3. ASSUME NEW S \in SUBSET (1 .. Len(stream)), S # {}
      PROVE  Saf!Max(S) \in 1 .. Len(stream)
  BY <1>3, GreatestOf, LenProperties
<1>4. ASSUME NEW acc, NEW i
      PROVE  Saf!saf_step(acc, i) = Reader(stream, acc, i)
  BY DEF Saf!saf_step, Reader
<1>5. ASSUME NEW g PROVE F(g) <=> IsFold(g, stream)
  <2>1. ASSUME NEW S \in SUBSET (1 .. Len(stream))
        PROVE  (IF S = {} THEN Unread
                ELSE Saf!saf_step(g[S \ {Saf!Max(S)}], Places[Saf!Max(S)]))
               = (IF S = {} THEN Unread
                  ELSE Reader(stream, g[S \ {Saf!Max(S)}], Saf!Max(S)))
    <3> HIDE DEF Places
    <3> QED  BY <1>2, <1>3, <1>4
  <2> QED  BY <1>2, <2>1 DEF IsFold
<1>6. (CHOOSE g : F(g)) = (CHOOSE g : IsFold(g, stream))
  <2> HIDE DEF F
  <2> QED  BY <1>5
<1> QED  BY <1>1, <1>2, <1>6 DEF ReadAll

\* The first places of a longer stream are read as before.
LEMMA FoldRestricts ==
  ASSUME NEW s \in Seq(BOOLEAN), NEW l \in BOOLEAN, NEW g, IsFold(g, Append(s, l))
  PROVE  /\ IsFold([S \in SUBSET (1 .. Len(s)) |-> g[S]], s)
         /\ g[1 .. Len(s) + 1] = Reader(Append(s, l), g[1 .. Len(s)], Len(s) + 1)
<1> DEFINE t == Append(s, l)
           n == Len(s)
           h == [S \in SUBSET (1 .. n) |-> g[S]]
<1>1. n \in Nat /\ Len(t) = n + 1 /\ \A i \in 1 .. n : t[i] = s[i]
  BY AppendProperties, LenProperties
<1>2. ASSUME NEW acc, NEW i \in 1 .. n PROVE Reader(t, acc, i) = Reader(s, acc, i)
  BY <1>1 DEF Reader
<1>3. g = [S \in SUBSET (1 .. n + 1) |->
             IF S = {} THEN Unread ELSE Reader(t, g[S \ {Saf!Max(S)}], Saf!Max(S))]
  BY <1>1 DEF IsFold
<1> HIDE DEF t, n
<1>4. ASSUME NEW S \in SUBSET (1 .. n)
      PROVE  h[S] = IF S = {} THEN Unread
                    ELSE Reader(s, h[S \ {Saf!Max(S)}], Saf!Max(S))
  <2>1. S \in SUBSET (1 .. n + 1)  BY <1>1
  <2>2. g[S] = IF S = {} THEN Unread ELSE Reader(t, g[S \ {Saf!Max(S)}], Saf!Max(S))
    BY <1>3, <2>1
  <2>3. S # {} => Saf!Max(S) \in 1 .. n  BY <1>1, GreatestOf
  <2>4. S # {} => Reader(t, g[S \ {Saf!Max(S)}], Saf!Max(S))
                  = Reader(s, g[S \ {Saf!Max(S)}], Saf!Max(S))
    BY <1>2, <2>3
  <2>5. h[S] = g[S] /\ h[S \ {Saf!Max(S)}] = g[S \ {Saf!Max(S)}]
    OBVIOUS
  <2> QED  BY <2>2, <2>4, <2>5
<1>5. IsFold(h, s)
  BY <1>4 DEF IsFold, n
<1>6. g[1 .. n + 1] = Reader(t, g[1 .. n], n + 1)
  <2>1. 1 .. n + 1 \in SUBSET (1 .. n + 1) /\ n + 1 \in 1 .. n + 1  BY <1>1
  <2>2. Saf!Max(1 .. n + 1) = n + 1  BY <1>1, <2>1, GreatestIs
  <2>3. \A i : i \in (1 .. n + 1) \ {n + 1} <=> i \in 1 .. n
    <3>1. ASSUME NEW i \in 1 .. n + 1, i # n + 1 PROVE i \in 1 .. n  BY <1>1, <3>1
    <3>2. ASSUME NEW i \in 1 .. n PROVE i \in 1 .. n + 1 /\ i # n + 1  BY <1>1
    <3> QED  BY <3>1, <3>2
  <2>4. (1 .. n + 1) \ {n + 1} = 1 .. n /\ 1 .. n + 1 # {}  BY <2>1, <2>3
  <2> QED  BY <1>3, <2>1, <2>2, <2>4
<1> QED  BY <1>5, <1>6 DEF t, n

\* A longer stream can be read as well.
LEMMA FoldExtends ==
  ASSUME NEW s \in Seq(BOOLEAN), NEW l \in BOOLEAN, NEW g, IsFold(g, s)
  PROVE  \E h : IsFold(h, Append(s, l))
<1> DEFINE t == Append(s, l)
           n == Len(s)
           h == [S \in SUBSET (1 .. n + 1) |->
                   IF n + 1 \in S THEN Reader(t, g[S \ {n + 1}], n + 1) ELSE g[S]]
<1>1. n \in Nat /\ Len(t) = n + 1 /\ \A i \in 1 .. n : t[i] = s[i]
  BY AppendProperties, LenProperties
<1>2. ASSUME NEW acc, NEW i \in 1 .. n PROVE Reader(t, acc, i) = Reader(s, acc, i)
  BY <1>1 DEF Reader
<1>3. g = [S \in SUBSET (1 .. n) |->
             IF S = {} THEN Unread ELSE Reader(s, g[S \ {Saf!Max(S)}], Saf!Max(S))]
  BY DEF IsFold
<1> HIDE DEF t, n
<1>4. ASSUME NEW S \in SUBSET (1 .. n + 1)
      PROVE  h[S] = IF S = {} THEN Unread
                    ELSE Reader(t, h[S \ {Saf!Max(S)}], Saf!Max(S))
  <2>1. CASE n + 1 \in S
    <3>1. Saf!Max(S) = n + 1  BY <1>1, <2>1, GreatestIs
    <3>2. S \ {n + 1} \in SUBSET (1 .. n + 1) /\ n + 1 \notin S \ {n + 1}  OBVIOUS
    <3>3. h[S \ {n + 1}] = g[S \ {n + 1}]  BY <3>2
    <3>4. h[S] = Reader(t, g[S \ {n + 1}], n + 1)  BY <2>1
    <3> QED  BY <2>1, <3>1, <3>3, <3>4
  <2>2. CASE n + 1 \notin S
    <3>1. S \in SUBSET (1 .. n)  BY <1>1, <2>2
    <3>2. S # {} => Saf!Max(S) \in 1 .. n  BY <1>1, <3>1, GreatestOf
    <3>3. S \ {Saf!Max(S)} \in SUBSET (1 .. n + 1) /\ n + 1 \notin S \ {Saf!Max(S)}
      BY <2>2
    <3>4. h[S \ {Saf!Max(S)}] = g[S \ {Saf!Max(S)}] /\ h[S] = g[S]  BY <2>2, <3>3
    <3>5. g[S] = IF S = {} THEN Unread ELSE Reader(s, g[S \ {Saf!Max(S)}], Saf!Max(S))
      BY <1>3, <3>1
    <3> QED  BY <1>2, <3>2, <3>4, <3>5
  <2> QED  BY <2>1, <2>2
<1>5. IsFold(h, t)
  <2>1. h = [S \in SUBSET (1 .. n + 1) |->
               IF S = {} THEN Unread ELSE Reader(t, h[S \ {Saf!Max(S)}], Saf!Max(S))]
    BY <1>4
  <2> QED  BY <2>1, <1>1 DEF IsFold
<1> QED  BY <1>5 DEF t

\* Nothing is read from an empty stream.
LEMMA FoldBegins == Folds(<<>>) /\ ReadAll(<<>>) = Unread
<1>1. 1 .. Len(<<>>) = {}  OBVIOUS
<1>2. ASSUME NEW g PROVE IsFold(g, <<>>) => g[1 .. Len(<<>>)] = Unread
  BY <1>1 DEF IsFold
<1>3. IsFold([S \in SUBSET {} |-> Unread], <<>>)
  BY <1>1 DEF IsFold
<1>4. IsFold(CHOOSE g : IsFold(g, <<>>), <<>>)  BY <1>3
<1> QED  BY <1>2, <1>3, <1>4 DEF Folds, ReadAll

\* Reading a longer stream is reading the stream and then its new byte.
LEMMA FoldGoesOn ==
  ASSUME NEW s \in Seq(BOOLEAN), NEW l \in BOOLEAN, Folds(s)
  PROVE  /\ Folds(Append(s, l))
         /\ ReadAll(Append(s, l)) = Reader(Append(s, l), ReadAll(s), Len(s) + 1)
<1>1. PICK g : IsFold(g, s)  BY DEF Folds
<1>2. IsFold(CHOOSE h : IsFold(h, s), s)  BY <1>1
<1>3. Len(Append(s, l)) = Len(s) + 1  BY AppendProperties
<1>4. ASSUME NEW h, IsFold(h, Append(s, l))
      PROVE  h[1 .. Len(s) + 1] = Reader(Append(s, l), ReadAll(s), Len(s) + 1)
  <2>1. IsFold([S \in SUBSET (1 .. Len(s)) |-> h[S]], s)
    BY <1>4, FoldRestricts
  <2>2. [S \in SUBSET (1 .. Len(s)) |-> h[S]][1 .. Len(s)] = ReadAll(s)
    BY <1>2, <2>1 DEF Folds, ReadAll
  <2>3. h[1 .. Len(s)] = ReadAll(s)  BY <2>2
  <2> QED  BY <1>4, <2>3, FoldRestricts
<1>5. \E h : IsFold(h, Append(s, l))  BY <1>1, FoldExtends
<1>6. IsFold(CHOOSE h : IsFold(h, Append(s, l)), Append(s, l))  BY <1>5
<1> QED  BY <1>3, <1>4, <1>5, <1>6 DEF Folds, ReadAll

-----------------------------------------------------------------------------
(* Counters that wrap.                                                      *)

\* The remainder is the only one.
LEMMA ModIs ==
  ASSUME NEW n \in Nat \ {0}, NEW x \in Int, NEW q \in Int, NEW r \in 0 .. n - 1,
         x = n * q + r
  PROVE  x % n = r
<1>1. x = n * (x \div n) + (x % n) /\ x % n \in 0 .. n - 1 /\ x \div n \in Int
  OBVIOUS
<1>2. ASSUME NEW p \in Int, NEW s \in 0 .. n - 1, n * q + r = n * p + s
      PROVE  r = s
  BY <1>2
<1> QED  BY <1>1, <1>2

\* One step up, and one down.
LEMMA ModSteps ==
  ASSUME NEW n \in Nat \ {0}, NEW x \in Int
  PROVE  /\ ((x % n) + 1) % n = (x + 1) % n
         /\ ((x % n) - 1) % n = (x - 1) % n
<1>1. PICK q \in Int, r \in 0 .. n - 1 : x = n * q + r /\ x % n = r
  <2>1. x = n * (x \div n) + (x % n) /\ x % n \in 0 .. n - 1 /\ x \div n \in Int
    OBVIOUS
  <2> QED  BY <2>1
<1>2. /\ n * (q + 1) = n * q + n /\ n * (q - 1) = n * q - n
      /\ n * 0 = 0 /\ n * 1 = n /\ n * (-1) = -n
      /\ q + 1 \in Int /\ q - 1 \in Int
  BY <1>1
<1>3. (r + 1) % n = (x + 1) % n
  <2>1. CASE r # n - 1
    <3>1. r + 1 = n * 0 + (r + 1) /\ x + 1 = n * q + (r + 1) /\ r + 1 \in 0 .. n - 1
      BY <1>1, <1>2, <2>1
    <3>2. (r + 1) % n = r + 1 /\ (x + 1) % n = r + 1
      BY ONLY <3>1, ModIs, n \in Nat \ {0}, x + 1 \in Int, r + 1 \in Int, q \in Int, 0 \in Int
    <3> QED  BY <3>2
  <2>2. CASE r = n - 1
    <3>1. r + 1 = n * 1 + 0 /\ x + 1 = n * (q + 1) + 0 /\ 0 \in 0 .. n - 1
      BY <1>1, <1>2, <2>2
    <3>2. (r + 1) % n = 0 /\ (x + 1) % n = 0
      BY ONLY <3>1, <1>2, ModIs, n \in Nat \ {0}, x + 1 \in Int, r + 1 \in Int, 1 \in Int
    <3> QED  BY <3>2
  <2> QED  BY <2>1, <2>2
<1>4. (r - 1) % n = (x - 1) % n
  <2>1. CASE r # 0
    <3>1. r - 1 = n * 0 + (r - 1) /\ x - 1 = n * q + (r - 1) /\ r - 1 \in 0 .. n - 1
      BY <1>1, <1>2, <2>1
    <3>2. (r - 1) % n = r - 1 /\ (x - 1) % n = r - 1
      BY ONLY <3>1, ModIs, n \in Nat \ {0}, x - 1 \in Int, r - 1 \in Int, q \in Int, 0 \in Int
    <3> QED  BY <3>2
  <2>2. CASE r = 0
    <3>1. r - 1 = n * (-1) + (n - 1) /\ x - 1 = n * (q - 1) + (n - 1) /\ n - 1 \in 0 .. n - 1
      BY <1>1, <1>2, <2>2
    <3>2. (r - 1) % n = n - 1 /\ (x - 1) % n = n - 1
      BY ONLY <3>1, <1>2, ModIs, n \in Nat \ {0}, x - 1 \in Int, r - 1 \in Int, -1 \in Int
    <3> QED  BY <3>2
  <2> QED  BY <2>1, <2>2
<1> QED  BY <1>1, <1>3, <1>4

-----------------------------------------------------------------------------
(* What was written, what is visible and what was sent.                     *)

Sym  == {"preamble", "sfd"} \cup Int \cup Seq(Int)
Cell == [byte : Int, last : BOOLEAN]

SafTypes ==
  /\ stream \in Seq(BOOLEAN) /\ mem \in Seq(Cell)
  /\ frame_bytes \in Nat
  /\ dropping \in BOOLEAN /\ hot \in BOOLEAN /\ hot_eof \in BOOLEAN /\ src_ctl \in BOOLEAN
  /\ rd_ptr \in Nat /\ dcnt \in Nat /\ cur \in Cell
  /\ crc \in Seq(Int) /\ payloads \in Seq(Seq(Int)) /\ wire \in Seq(Sym)

\* The reference, having read the stream so far.
Ref == ReadAll(stream)

\* The n bytes behind place a of the memory.
Bytes(m, a, n) == [i \in 1 .. n |-> m[a + i].byte]

\* p, filled up to n bytes.
PadTo(p, n) == [i \in 1 .. n |-> IF i <= Len(p) THEN p[i] ELSE Saf!Pad]

\* The words behind a up to b are a frame, and the reference predicts f for it.
Framed(m, a, b, f) ==
  /\ a < b /\ m[b].last
  /\ \A p \in a + 1 .. b - 1 : ~m[p].last
  /\ f = Saf!pad_payload(Bytes(m, a, b - a))

\* Place E[k] of the memory holds the last byte of the k-th frame of the reference, and
\* behind the last of them are the bytes it has no frame for yet.
LayoutInv(E) ==
  /\ Folds(stream)
  /\ Ref.frames \in Seq(Seq(Int))
  /\ E \in [0 .. Len(Ref.frames) -> 0 .. Len(mem)] /\ E[0] = 0
  /\ \A i, j \in 0 .. Len(Ref.frames) : i <= j => E[i] <= E[j]
  /\ \A k \in 1 .. Len(Ref.frames) : Framed(mem, E[k - 1], E[k], Ref.frames[k])
  /\ E[Len(Ref.frames)] + frame_bytes = Len(mem)
  /\ \A p \in E[Len(Ref.frames)] + 1 .. Len(mem) : ~mem[p].last
  /\ Ref = [frames |-> Ref.frames, dropping |-> dropping,
            cur |-> Bytes(mem, E[Len(Ref.frames)], frame_bytes)]
  /\ dropping => frame_bytes = 0
  /\ frame_wr = Len(Ref.frames) % Saf!Counts
  /\ hot_eof => hot /\ frame_bytes = 0 /\ Len(Ref.frames) > 0

\* The stages of the synchronizers show the counts c1, c2, c3 of frames and the write
\* pointers w1, w2: a frame that is counted by the last stage can be read whole.
CrossInv(E, c1, c2, c3, w1, w2) ==
  /\ fw_sync = <<c1 % Saf!Counts, c2 % Saf!Counts, c3 % Saf!Counts>>
  /\ wp_sync = <<w1, w2>>
  /\ c3 <= c2 /\ c2 <= c1 /\ c1 <= Len(Ref.frames)
  /\ w2 <= w1 /\ w1 <= Len(mem)
  /\ E[c2] <= w1 /\ E[c3] <= w2
  /\ hot => E[c1] < Len(mem) /\ w1 < Len(mem)

\* The place of the frame that is next, or being sent.
At == Len(payloads)

\* Where the framer is in the memory and in its frame.
ReadInv(E, c3) ==
  /\ st \in {"IDLE", "PRE", "DATA", "PAD", "FCS", "IFG"}
  /\ frame_rd = At % Saf!Counts /\ At <= c3
  /\ st # "IDLE" /\ ~src_ctl => At < c3
  /\ st \in {"IDLE", "PRE"} \/ src_ctl => rd_ptr = E[At]
  /\ st = "DATA" /\ src_ctl => dcnt = 0 /\ cur.last
  /\ st = "DATA" /\ ~src_ctl => /\ E[At] < rd_ptr /\ rd_ptr <= E[At + 1]
                                /\ dcnt = rd_ptr - E[At] - 1
                                /\ cur = mem[rd_ptr]
  /\ st \in {"PAD", "FCS", "IFG"} /\ ~src_ctl => rd_ptr = E[At + 1]

\* The bytes c are on the wire w, behind the preamble.
Shown(w, c) == /\ w[1] = "preamble" /\ w[2] = "sfd"
               /\ \A i \in 1 .. Len(c) : w[i + 2] = c[i]

\* What was sent of the frame, and what the monitor took off the wire.
SentInv(E) ==
  /\ ~errors
  /\ \A i \in 1 .. At : payloads[i] = Ref.frames[i]
  /\ st \in {"DATA", "PAD"} => Len(crc) = dcnt
  /\ st = "DATA" /\ ~src_ctl => crc = Bytes(mem, E[At], dcnt)
  /\ st = "PAD" => dcnt < MIN_FRAME
  /\ st = "PAD" /\ ~src_ctl => /\ E[At + 1] - E[At] <= dcnt
                               /\ crc = PadTo(Bytes(mem, E[At], E[At + 1] - E[At]), dcnt)
  /\ st \in {"FCS", "IFG"} /\ ~src_ctl => crc = Ref.frames[At + 1]
  /\ st \in {"DATA", "PAD", "FCS", "IFG"} => Shown(wire, crc)
  /\ st \in {"DATA", "PAD", "FCS"} => Len(wire) = Len(crc) + 2
  /\ st = "IFG" => Len(wire) = Len(crc) + 3 /\ wire[Len(crc) + 3] = crc

SafInv ==
  /\ SafTypes
  /\ \E E : \E c1, c2, c3, w1, w2 \in Nat :
       LayoutInv(E) /\ CrossInv(E, c1, c2, c3, w1, w2) /\ ReadInv(E, c3) /\ SentInv(E)

-----------------------------------------------------------------------------
(* Bytes, padding and frames as the memory grows.                           *)

\* A function of places is a sequence.
LEMMA SeqOf ==
  ASSUME NEW S, NEW n \in Nat, NEW f \in [1 .. n -> S]
  PROVE  f \in Seq(S) /\ Len(f) = n
<1>1. f \in Seq(S)  BY SeqDef
<1>2. Len(f) \in Nat /\ DOMAIN f = 1 .. Len(f) /\ DOMAIN f = 1 .. n  BY <1>1, LenProperties
<1>3. PICK k \in Nat : k = Len(f)  BY <1>2
<1>4. \A i \in Int : i \in 1 .. k <=> i \in 1 .. n  BY <1>2, <1>3
<1>5. k = n
  <2>1. k \in 1 .. k <=> k \in 1 .. n  BY <1>4
  <2>2. n \in 1 .. k <=> n \in 1 .. n  BY <1>4
  <2> QED  BY <2>1, <2>2
<1> QED  BY <1>1, <1>3, <1>5

\* The bytes of a stretch of the memory.
LEMMA BytesAre ==
  ASSUME NEW m \in Seq(Cell), NEW a \in Nat, NEW n \in Nat, a + n <= Len(m)
  PROVE  /\ Bytes(m, a, n) \in Seq(Int) /\ Len(Bytes(m, a, n)) = n
         /\ \A i \in 1 .. n : Bytes(m, a, n)[i] = m[a + i].byte
<1>1. ASSUME NEW i \in 1 .. n PROVE m[a + i].byte \in Int
  <2>1. a + i \in 1 .. Len(m)  BY LenProperties
  <2>2. m[a + i] \in Cell  BY <2>1, ElementOfSeq
  <2> QED  BY <2>2 DEF Cell
<1>2. Bytes(m, a, n) \in [1 .. n -> Int]  BY <1>1 DEF Bytes
<1>3. Bytes(m, a, n) \in Seq(Int) /\ Len(Bytes(m, a, n)) = n  BY <1>2, SeqOf
<1> QED  BY <1>3 DEF Bytes

\* One more byte.
LEMMA BytesNext ==
  ASSUME NEW m \in Seq(Cell), NEW a \in Nat, NEW n \in Nat, a + n + 1 <= Len(m)
  PROVE  Append(Bytes(m, a, n), m[a + n + 1].byte) = Bytes(m, a, n + 1)
<1>1. /\ Bytes(m, a, n) \in Seq(Int) /\ Len(Bytes(m, a, n)) = n
      /\ \A i \in 1 .. n : Bytes(m, a, n)[i] = m[a + i].byte
  BY BytesAre
<1>2. /\ Bytes(m, a, n + 1) \in Seq(Int) /\ Len(Bytes(m, a, n + 1)) = n + 1
      /\ \A i \in 1 .. n + 1 : Bytes(m, a, n + 1)[i] = m[a + i].byte
  <2>1. n + 1 \in Nat /\ a + (n + 1) <= Len(m)  BY LenProperties
  <2> QED  BY <2>1, BytesAre
<1>3. m[a + n + 1].byte \in Int
  <2>1. a + n + 1 \in 1 .. Len(m)  BY LenProperties
  <2>2. m[a + n + 1] \in Cell  BY <2>1, ElementOfSeq
  <2> QED  BY <2>2 DEF Cell
<1> DEFINE s == Append(Bytes(m, a, n), m[a + n + 1].byte)
           t == Bytes(m, a, n + 1)
<1>4. /\ s \in Seq(Int) /\ Len(s) = n + 1 /\ s[n + 1] = m[a + n + 1].byte
      /\ \A i \in 1 .. n : s[i] = m[a + i].byte
  BY <1>1, <1>3, AppendProperties
<1>5. ASSUME NEW i \in 1 .. n + 1 PROVE s[i] = t[i]
  <2>1. CASE i = n + 1
    <3>1. a + i = a + n + 1  BY <2>1
    <3> QED  BY <3>1, <2>1, <1>2, <1>4
  <2>2. CASE i # n + 1
    <3>1. i \in 1 .. n  BY <2>2
    <3> QED  BY <3>1, <1>2, <1>4
  <2> QED  BY <2>1, <2>2
<1> HIDE DEF s, t
<1>6. s = t  BY <1>2, <1>4, <1>5, SeqEqual DEF t
<1> QED  BY <1>6 DEF s, t

\* What is filled up has the length it was filled up to.
LEMMA PadToIs ==
  ASSUME NEW p \in Seq(Int), NEW n \in Nat
  PROVE  PadTo(p, n) \in Seq(Int) /\ Len(PadTo(p, n)) = n
<1>1. ASSUME NEW i \in 1 .. n
      PROVE  (IF i <= Len(p) THEN p[i] ELSE Saf!Pad) \in Int
  <2>1. CASE i <= Len(p)
    <3>1. i \in 1 .. Len(p)  BY <2>1, LenProperties
    <3> QED  BY <3>1, <2>1, ElementOfSeq
  <2>2. CASE ~(i <= Len(p))  BY <2>2 DEF Saf!Pad
  <2> QED  BY <2>1, <2>2
<1>2. PadTo(p, n) \in [1 .. n -> Int]  BY <1>1 DEF PadTo
<1> QED  BY <1>2, SeqOf

\* Nothing to fill up.
LEMMA PadNone ==
  ASSUME NEW p \in Seq(Int)
  PROVE  PadTo(p, Len(p)) = p
<1>1. Len(p) \in Nat /\ PadTo(p, Len(p)) \in Seq(Int) /\ Len(PadTo(p, Len(p))) = Len(p)
  BY PadToIs, LenProperties
<1>2. \A i \in 1 .. Len(p) : PadTo(p, Len(p))[i] = p[i]  BY <1>1 DEF PadTo
<1> QED  BY <1>1, <1>2, SeqEqual

\* One more byte of it.
LEMMA PadNext ==
  ASSUME NEW p \in Seq(Int), NEW n \in Nat, Len(p) <= n
  PROVE  Append(PadTo(p, n), Saf!Pad) = PadTo(p, n + 1)
<1> DEFINE s == Append(PadTo(p, n), Saf!Pad)
           t == PadTo(p, n + 1)
<1>0. n + 1 \in Nat /\ Saf!Pad \in Int  BY DEF Saf!Pad
<1>1. PadTo(p, n) \in Seq(Int) /\ Len(PadTo(p, n)) = n  BY PadToIs
<1>2. t \in Seq(Int) /\ Len(t) = n + 1  BY <1>0, PadToIs
<1>3. /\ s \in Seq(Int) /\ Len(s) = n + 1 /\ s[n + 1] = Saf!Pad
      /\ \A i \in 1 .. n : s[i] = PadTo(p, n)[i]
  BY <1>0, <1>1, AppendProperties
<1>4. ASSUME NEW i \in 1 .. n + 1 PROVE s[i] = t[i]
  <2>1. CASE i = n + 1
    <3>1. ~(i <= Len(p))  BY <2>1, LenProperties
    <3> QED  BY <3>1, <2>1, <1>3 DEF PadTo
  <2>2. CASE i # n + 1
    <3>1. i \in 1 .. n  BY <2>2
    <3> QED  BY <3>1, <1>3 DEF PadTo
  <2> QED  BY <2>1, <2>2
<1> HIDE DEF s, t
<1>5. s = t  BY <1>2, <1>3, <1>4, SeqEqual
<1> QED  BY <1>5 DEF s, t

\* pad_payload fills up to the minimum.
LEMMA PadIs ==
  ASSUME NEW p \in Seq(Int)
  PROVE  /\ Len(p) >= MIN_FRAME => Saf!pad_payload(p) = p
         /\ Len(p) < MIN_FRAME => Saf!pad_payload(p) = PadTo(p, MIN_FRAME)
         /\ Saf!pad_payload(p) \in Seq(Int)
<1>0. MIN_FRAME \in Nat /\ Len(p) \in Nat  BY SafAssumption, LenProperties
<1>1. Len(p) >= MIN_FRAME => Saf!pad_payload(p) = p  BY <1>0 DEF Saf!pad_payload
<1>2. ASSUME Len(p) < MIN_FRAME PROVE Saf!pad_payload(p) = PadTo(p, MIN_FRAME)
  <2> DEFINE q == [i \in 1 .. MIN_FRAME - Len(p) |-> Saf!Pad]
             s == p \o q
             t == PadTo(p, MIN_FRAME)
  <2>1. MIN_FRAME - Len(p) \in Nat  BY <1>0, <1>2
  <2>2. q \in [1 .. MIN_FRAME - Len(p) -> Int]  BY DEF Saf!Pad
  <2>3. q \in Seq(Int) /\ Len(q) = MIN_FRAME - Len(p)  BY <2>1, <2>2, SeqOf
  <2>4. \A i \in 1 .. Len(q) : q[i] = Saf!Pad  BY <2>3
  <2> HIDE DEF q
  <2>5. /\ s \in Seq(Int) /\ Len(s) = Len(p) + Len(q)
        /\ \A i \in 1 .. Len(s) : s[i] = IF i <= Len(p) THEN p[i] ELSE q[i - Len(p)]
    BY <2>3, ConcatProperties
  <2>6. Len(s) = MIN_FRAME  BY <2>5, <2>3, <1>0
  <2>7. t \in Seq(Int) /\ Len(t) = MIN_FRAME  BY <1>0, PadToIs
  <2>8. ASSUME NEW i \in 1 .. MIN_FRAME PROVE s[i] = t[i]
    <3>1. t[i] = IF i <= Len(p) THEN p[i] ELSE Saf!Pad  BY DEF PadTo
    <3>2. s[i] = IF i <= Len(p) THEN p[i] ELSE q[i - Len(p)]  BY <2>5, <2>6
    <3>3. ~(i <= Len(p)) => i - Len(p) \in 1 .. Len(q)  BY <1>0, <2>3
    <3> QED  BY <3>1, <3>2, <3>3, <2>4
  <2> HIDE DEF s, t
  <2>9. s = t  BY <2>5, <2>6, <2>7, <2>8, SeqEqual
  <2>10. Saf!pad_payload(p) = s  BY <1>2 DEF Saf!pad_payload, s, q
  <2> QED  BY <2>9, <2>10 DEF t
<1>3. Saf!pad_payload(p) \in Seq(Int)
  <2>1. CASE Len(p) >= MIN_FRAME  BY <1>1, <2>1
  <2>2. CASE Len(p) < MIN_FRAME
    <3>1. PadTo(p, MIN_FRAME) \in Seq(Int)  BY <1>0, PadToIs
    <3> QED  BY <1>2, <2>2, <3>1
  <2> QED  BY <1>0, <2>1, <2>2
<1> QED  BY <1>1, <1>2, <1>3

\* What the memory holds stays when a word is appended.
LEMMA GrownSame ==
  ASSUME NEW m \in Seq(Cell), NEW w \in Cell, NEW a \in Nat, NEW b \in Nat, a <= b, b <= Len(m)
  PROVE  /\ Bytes(Append(m, w), a, b - a) = Bytes(m, a, b - a)
         /\ \A f : Framed(m, a, b, f) => Framed(Append(m, w), a, b, f)
<1> DEFINE t == Append(m, w)
<1>1. t \in Seq(Cell) /\ Len(t) = Len(m) + 1 /\ \A p \in 1 .. Len(m) : t[p] = m[p]
  BY AppendProperties
<1> HIDE DEF t
<1>2. Len(m) \in Nat /\ b - a \in Nat  BY LenProperties
<1>3. ASSUME NEW i \in 1 .. b - a PROVE t[a + i].byte = m[a + i].byte
  <2>1. a + i \in 1 .. Len(m)  BY <1>2
  <2> QED  BY <2>1, <1>1
<1>4. Bytes(t, a, b - a) = Bytes(m, a, b - a)  BY <1>3 DEF Bytes
<1>5. ASSUME NEW f, Framed(m, a, b, f) PROVE Framed(t, a, b, f)
  <2>1. a < b /\ m[b].last /\ \A p \in a + 1 .. b - 1 : ~m[p].last  BY <1>5 DEF Framed
  <2>2. t[b].last
    <3>1. b \in 1 .. Len(m)  BY <1>2, <2>1
    <3> QED  BY <3>1, <1>1, <2>1
  <2>3. ASSUME NEW p \in a + 1 .. b - 1 PROVE ~t[p].last
    <3>1. p \in 1 .. Len(m)  BY <1>2
    <3> QED  BY <3>1, <1>1, <2>1
  <2> QED  BY <1>4, <1>5, <2>1, <2>2, <2>3 DEF Framed
<1> QED  BY <1>4, <1>5 DEF t

-----------------------------------------------------------------------------
(* The steps of the transmitter.                                            *)

\* What stays when the writer stands still.
LEMMA LayoutSame ==
  ASSUME NEW E, LayoutInv(E),
         UNCHANGED <<stream, mem, frame_bytes, dropping, frame_wr, hot, hot_eof>>
  PROVE  LayoutInv(E)' /\ Ref' = Ref
<1>1. Ref' = Ref  BY DEF Ref
<1> QED  BY <1>1 DEF LayoutInv

\* What stays when neither the writer nor the synchronizers move.
LEMMA CrossSame ==
  ASSUME NEW E, NEW c1, NEW c2, NEW c3, NEW w1, NEW w2, CrossInv(E, c1, c2, c3, w1, w2),
         UNCHANGED <<stream, mem, hot, fw_sync, wp_sync>>
  PROVE  CrossInv(E, c1, c2, c3, w1, w2)'
BY DEF CrossInv, Ref

\* What stays when the framer stands still.
LEMMA FramerSame ==
  ASSUME NEW E, NEW c3, ReadInv(E, c3), SentInv(E),
         UNCHANGED <<stream, mem, Saf!framer, Saf!monitor>>
  PROVE  ReadInv(E, c3)' /\ SentInv(E)'
<1>1. UNCHANGED <<stream, mem, st, rd_ptr, frame_rd, src_ctl, cur, dcnt, crc, wire, payloads,
                  errors>>
  BY DEF Saf!framer, Saf!monitor
<1>2. At' = At /\ Ref' = Ref  BY <1>1 DEF At, Ref
<1> QED  BY <1>1, <1>2 DEF ReadInv, SentInv

\* A count of one stage below another is a place of the layout.
LEMMA Places ==
  ASSUME SafTypes, NEW E, NEW c1 \in Nat, NEW c2 \in Nat, NEW c3 \in Nat, NEW w1 \in Nat,
         NEW w2 \in Nat, LayoutInv(E), CrossInv(E, c1, c2, c3, w1, w2), ReadInv(E, c3)
  PROVE  /\ Len(Ref.frames) \in Nat /\ Len(mem) \in Nat /\ At \in Nat
         /\ \A k \in 0 .. Len(Ref.frames) : E[k] \in Nat /\ E[k] <= Len(mem)
         /\ {c1, c2, c3, At} \subseteq 0 .. Len(Ref.frames)
         /\ E[c3] <= E[c2] /\ E[c2] <= E[c1]
<1>1. Len(Ref.frames) \in Nat /\ Len(mem) \in Nat /\ At \in Nat
  BY LenProperties DEF SafTypes, LayoutInv, At
<1> PICK n \in Nat, l \in Nat, d \in Nat : n = Len(Ref.frames) /\ l = Len(mem) /\ d = At
  BY <1>1
<1>2. \A k \in 0 .. n : E[k] \in 0 .. l  BY DEF LayoutInv
<1>3. c3 <= c2 /\ c2 <= c1 /\ c1 <= n  BY DEF CrossInv
<1>4. d <= c3  BY DEF ReadInv
<1>5. {c1, c2, c3, d} \subseteq 0 .. n  BY <1>3, <1>4
<1>6. \A i, j \in 0 .. n : i <= j => E[i] <= E[j]  BY DEF LayoutInv
<1>7. E[c3] <= E[c2] /\ E[c2] <= E[c1]  BY <1>3, <1>5, <1>6
<1> QED  BY <1>1, <1>2, <1>5, <1>7

\* The frame being sent: it is all in the memory and all visible.
LEMMA FrameAt ==
  ASSUME SafTypes, NEW E, NEW c1 \in Nat, NEW c2 \in Nat, NEW c3 \in Nat, NEW w1 \in Nat,
         NEW w2 \in Nat, LayoutInv(E), CrossInv(E, c1, c2, c3, w1, w2), ReadInv(E, c3),
         st # "IDLE", ~src_ctl
  PROVE  \E a, b \in Nat : /\ a = E[At] /\ b = E[At + 1] /\ a < b /\ b <= w2
                           /\ w2 <= Len(mem) /\ wp_sync[2] = w2
                           /\ At + 1 \in 1 .. Len(Ref.frames)
                           /\ Framed(mem, a, b, Ref.frames[At + 1])
<1>1. /\ Len(Ref.frames) \in Nat /\ Len(mem) \in Nat /\ At \in Nat
      /\ \A k \in 0 .. Len(Ref.frames) : E[k] \in Nat /\ E[k] <= Len(mem)
      /\ {c1, c2, c3, At} \subseteq 0 .. Len(Ref.frames)
  BY Places
<1> PICK n \in Nat, l \in Nat, d \in Nat : n = Len(Ref.frames) /\ l = Len(mem) /\ d = At
  BY <1>1
<1>2. d < c3  BY DEF ReadInv
<1>3. d + 1 \in 0 .. n /\ d + 1 \in 1 .. n /\ d + 1 <= c3 /\ (d + 1) - 1 = d /\ c3 \in 0 .. n
  BY <1>1, <1>2
<1>4. E[d] \in Nat /\ E[d + 1] \in Nat  BY <1>1, <1>3
<1>5. E[d + 1] <= E[c3]  BY <1>3 DEF LayoutInv
<1>6. E[c3] <= w2 /\ w2 <= w1 /\ w1 <= l /\ wp_sync[2] = w2  BY DEF CrossInv
<1>7. E[c3] \in Nat  BY <1>1, <1>3
<1>8. E[d + 1] <= w2 /\ w2 <= l  BY <1>4, <1>5, <1>6, <1>7
<1>9. Framed(mem, E[(d + 1) - 1], E[d + 1], Ref.frames[d + 1])  BY <1>3 DEF LayoutInv
<1>10. Framed(mem, E[d], E[d + 1], Ref.frames[d + 1])  BY <1>3, <1>9
<1>11. E[d] < E[d + 1]  BY <1>10 DEF Framed
<1> QED  BY <1>3, <1>4, <1>6, <1>8, <1>10, <1>11

\* The pop of a data frame's FIFO finds a byte: the next one.
LEMMA LoadFinds ==
  ASSUME SafTypes, NEW w2 \in Nat, wp_sync[2] = w2, w2 <= Len(mem), ~src_ctl, rd_ptr < w2,
         Saf!Load
  PROVE  cur' = mem[rd_ptr + 1] /\ rd_ptr' = rd_ptr + 1 /\ cur' \in Cell /\ rd_ptr' \in Nat
<1>1. rd_ptr \in Nat /\ Len(mem) \in Nat  BY LenProperties DEF SafTypes
<1>2. ~Saf!rd_empty  BY <1>1 DEF Saf!rd_empty
<1>3. cur' = mem[rd_ptr + 1] /\ rd_ptr' = rd_ptr + 1  BY <1>2 DEF Saf!Load
<1>4. rd_ptr + 1 \in 1 .. Len(mem)  BY <1>1
<1>5. mem[rd_ptr + 1] \in Cell  BY <1>4, ElementOfSeq DEF SafTypes
<1> QED  BY <1>1, <1>3, <1>5

\* The head of a control frame.
LEMMA LoadCtl ==
  ASSUME src_ctl, Saf!Load
  PROVE  cur' \in Cell /\ cur'.last /\ UNCHANGED rd_ptr
<1>1. cur' = [byte |-> Saf!Ctl, last |-> TRUE] /\ UNCHANGED rd_ptr  BY DEF Saf!Load
<1>2. Saf!Ctl \in Int  BY DEF Saf!Ctl
<1>3. cur' \in Cell  BY <1>1, <1>2 DEF Cell
<1>4. cur'.last = TRUE  BY <1>1
<1> QED  BY <1>1, <1>3, <1>4, Zenon

\* The preamble, and the first byte of the frame is fetched.
LEMMA PreambleKeeps ==
  ASSUME SafTypes, NEW E, NEW c1 \in Nat, NEW c2 \in Nat, NEW c3 \in Nat, NEW w1 \in Nat,
         NEW w2 \in Nat, LayoutInv(E), CrossInv(E, c1, c2, c3, w1, w2), ReadInv(E, c3),
         SentInv(E), Saf!Preamble
  PROVE  SafTypes' /\ ReadInv(E, c3)' /\ SentInv(E)'
<1>1. /\ st = "PRE" /\ st' = "DATA" /\ wire' = <<"preamble", "sfd">> /\ Saf!Load
      /\ dcnt' = 0 /\ crc' = <<>>
      /\ UNCHANGED <<frame_rd, src_ctl, payloads, errors, stream, mem, frame_bytes, dropping,
                     hot, hot_eof>>
  BY DEF Saf!Preamble, Saf!MediaStep, Saf!writer
<1>2. At' = At /\ Ref' = Ref  BY <1>1 DEF At, Ref
<1>3. rd_ptr = E[At] /\ frame_rd = At % Saf!Counts /\ At <= c3 /\ (~src_ctl => At < c3)
  BY <1>1 DEF ReadInv
<1>4. /\ ~src_ctl => /\ cur' = mem[rd_ptr'] /\ E[At] < rd_ptr' /\ rd_ptr' <= E[At + 1]
                     /\ 0 = rd_ptr' - E[At] - 1
      /\ src_ctl => rd_ptr' = E[At] /\ cur'.last
      /\ cur' \in Cell /\ rd_ptr' \in Nat
  <2>1. CASE src_ctl
    <3>1. cur' \in Cell /\ cur'.last /\ rd_ptr' = rd_ptr  BY <1>1, <2>1, LoadCtl
    <3> QED  BY <3>1, <2>1, <1>3 DEF SafTypes
  <2>2. CASE ~src_ctl
    <3>1. PICK a, b \in Nat : /\ a = E[At] /\ b = E[At + 1] /\ a < b /\ b <= w2
                              /\ w2 <= Len(mem) /\ wp_sync[2] = w2
      BY <1>1, <2>2, FrameAt
    <3>2. rd_ptr = a /\ rd_ptr < w2  BY <3>1, <1>3
    <3>3. cur' = mem[rd_ptr + 1] /\ rd_ptr' = rd_ptr + 1 /\ cur' \in Cell /\ rd_ptr' \in Nat
      BY <1>1, <2>2, <3>1, <3>2, LoadFinds
    <3>4. rd_ptr' = a + 1  BY <3>2, <3>3
    <3>5. a < b  BY <3>1
    <3>6. a < a + 1 /\ a + 1 <= b /\ 0 = (a + 1) - a - 1  BY ONLY <3>5, a \in Nat, b \in Nat
    <3>7. cur' = mem[rd_ptr']  BY <3>3
    <3> QED  BY <2>2, <3>1, <3>3, <3>4, <3>6, <3>7
  <2> QED  BY <2>1, <2>2
<1>5. /\ wire' \in Seq(Sym) /\ Len(wire') = 2 /\ wire'[1] = "preamble" /\ wire'[2] = "sfd"
      /\ crc' \in Seq(Int) /\ Len(crc') = 0
  BY <1>1 DEF Sym
<1>6. SafTypes'  BY <1>1, <1>4, <1>5 DEF SafTypes
<1>7. ReadInv(E, c3)'  BY <1>1, <1>2, <1>3, <1>4 DEF ReadInv
<1>8. crc' = Bytes(mem, E[At], 0)
  <2>1. 1 .. 0 = {}  OBVIOUS
  <2>2. Bytes(mem, E[At], 0) = <<>>  BY <2>1 DEF Bytes
  <2> QED  BY <1>1, <2>2
<1>9. \A i \in 1 .. Len(crc') : wire'[i + 2] = crc'[i]  BY <1>5
<1>10. SentInv(E)'
  BY <1>1, <1>2, <1>5, <1>8, <1>9 DEF SentInv, Shown
<1> QED  BY <1>6, <1>7, <1>10

\* The wire goes on by a byte.
LEMMA ShownNext ==
  ASSUME NEW w \in Seq(Sym), NEW c \in Seq(Int), NEW b \in Int, Shown(w, c),
         Len(w) = Len(c) + 2
  PROVE  /\ Append(w, b) \in Seq(Sym) /\ Append(c, b) \in Seq(Int)
         /\ Len(Append(c, b)) = Len(c) + 1 /\ Len(Append(w, b)) = Len(Append(c, b)) + 2
         /\ Shown(Append(w, b), Append(c, b))
<1> DEFINE v == Append(w, b)
           d == Append(c, b)
<1>0. b \in Sym  BY DEF Sym
<1>1. PICK n \in Nat : n = Len(c)  BY LenProperties
<1>2. /\ v \in Seq(Sym) /\ Len(v) = Len(w) + 1 /\ v[Len(w) + 1] = b
      /\ \A i \in 1 .. Len(w) : v[i] = w[i]
  BY <1>0, AppendProperties
<1>3. /\ d \in Seq(Int) /\ Len(d) = n + 1 /\ d[n + 1] = b
      /\ \A i \in 1 .. n : d[i] = c[i]
  BY <1>1, AppendProperties
<1> HIDE DEF v, d
<1>4. Len(w) = n + 2 /\ Len(v) = n + 3 /\ v[n + 3] = b  BY <1>1, <1>2
<1>5. v[1] = "preamble" /\ v[2] = "sfd"
  <2>1. 1 \in 1 .. Len(w) /\ 2 \in 1 .. Len(w)  BY <1>4
  <2> QED  BY <2>1, <1>2 DEF Shown
<1>6. ASSUME NEW i \in 1 .. n + 1 PROVE v[i + 2] = d[i]
  <2>1. CASE i = n + 1
    <3>1. i + 2 = n + 3  BY <2>1
    <3> QED  BY <3>1, <2>1, <1>3, <1>4
  <2>2. CASE i # n + 1
    <3>1. i \in 1 .. n /\ i + 2 \in 1 .. Len(w)  BY <2>2, <1>4
    <3>2. w[i + 2] = c[i]  BY <3>1, <1>1 DEF Shown
    <3> QED  BY <3>1, <3>2, <1>2, <1>3
  <2> QED  BY <2>1, <2>2
<1> QED  BY <1>1, <1>2, <1>3, <1>4, <1>5, <1>6 DEF Shown, v, d

\* The FCS behind the bytes.
LEMMA ShownEnd ==
  ASSUME NEW w \in Seq(Sym), NEW c \in Seq(Int), Shown(w, c), Len(w) = Len(c) + 2
  PROVE  /\ Append(w, c) \in Seq(Sym) /\ Shown(Append(w, c), c)
         /\ Len(Append(w, c)) = Len(c) + 3 /\ Append(w, c)[Len(c) + 3] = c
<1> DEFINE v == Append(w, c)
<1>0. c \in Sym  BY DEF Sym
<1>1. PICK n \in Nat : n = Len(c)  BY LenProperties
<1>2. /\ v \in Seq(Sym) /\ Len(v) = Len(w) + 1 /\ v[Len(w) + 1] = c
      /\ \A i \in 1 .. Len(w) : v[i] = w[i]
  BY <1>0, AppendProperties
<1> HIDE DEF v
<1>3. Len(w) = n + 2 /\ Len(v) = n + 3 /\ v[n + 3] = c  BY <1>1, <1>2
<1>4. v[1] = "preamble" /\ v[2] = "sfd"
  <2>1. 1 \in 1 .. Len(w) /\ 2 \in 1 .. Len(w)  BY <1>3
  <2> QED  BY <2>1, <1>2 DEF Shown
<1>5. ASSUME NEW i \in 1 .. n PROVE v[i + 2] = c[i]
  <2>1. i + 2 \in 1 .. Len(w)  BY <1>3
  <2>2. w[i + 2] = c[i]  BY <1>1 DEF Shown
  <2> QED  BY <2>1, <2>2, <1>2
<1> QED  BY <1>1, <1>2, <1>3, <1>4, <1>5 DEF Shown, v

\* The monitor finds the bytes, and that the FCS is over them.
LEMMA ShownRead ==
  ASSUME NEW w \in Seq(Sym), NEW c \in Seq(Int), Shown(w, c), Len(w) = Len(c) + 3,
         w[Len(c) + 3] = c
  PROVE  Saf!FramingOk(w) /\ SubSeq(w, 3, Len(w) - 1) = c
<1>1. PICK n \in Nat : n = Len(c) /\ Len(w) = n + 3  BY LenProperties
<1> DEFINE u == SubSeq(w, 3, n + 2)
           h == SubSeq(w, 1, 2)
<1>2. \A i \in 1 .. n + 3 : w[i] \in Sym  BY <1>1, ElementOfSeq
<1>3. /\ u \in Seq(Sym) /\ Len(u) = n
      /\ \A i \in 1 .. n : u[i] = w[i + 2]
  <2>1. \A i \in 3 .. n + 2 : w[i] \in Sym  BY <1>2
  <2>2. /\ u \in Seq(Sym) /\ Len(u) = IF 3 <= n + 2 THEN (n + 2) - 3 + 1 ELSE 0
        /\ \A i \in 1 .. (n + 2) - 3 + 1 : u[i] = w[3 + i - 1]
    BY <2>1, SubSeqProperties, n + 2 \in Int
  <2> HIDE DEF u
  <2>3. (n + 2) - 3 + 1 = n /\ (IF 3 <= n + 2 THEN (n + 2) - 3 + 1 ELSE 0) = n  OBVIOUS
  <2>4. \A i \in 1 .. n : 3 + i - 1 = i + 2  OBVIOUS
  <2> QED  BY <2>2, <2>3, <2>4
<1>4. u = c
  <2>1. c \in Seq(Sym)
    <3>1. Int \subseteq Sym  BY DEF Sym
    <3> QED  BY <3>1, SeqMonotonic
  <2>2. \A i \in 1 .. n : u[i] = c[i]  BY <1>1, <1>3 DEF Shown
  <2> HIDE DEF u
  <2> QED  BY <2>1, <2>2, <1>1, <1>3, SeqEqual
<1>5. h = <<"preamble", "sfd">>
  <2>1. \A i \in 1 .. 2 : w[i] \in Sym  BY <1>2
  <2>2. h \in Seq(Sym) /\ Len(h) = 2 /\ \A i \in 1 .. 2 : h[i] = w[1 + i - 1]
    BY <2>1, SubSeqProperties
  <2>3. 1 + 1 - 1 = 1 /\ 1 + 2 - 1 = 2 /\ 1 \in 1 .. 2 /\ 2 \in 1 .. 2  OBVIOUS
  <2>4. h[1] = w[1] /\ h[2] = w[2]  BY <2>2, <2>3
  <2> DEFINE t == <<"preamble", "sfd">>
  <2>5. t \in Seq(Sym) /\ Len(t) = 2 /\ t[1] = "preamble" /\ t[2] = "sfd"  BY DEF Sym
  <2> HIDE DEF t, h
  <2>6. \A i \in 1 .. 2 : h[i] = t[i]
    <3>1. \A i \in 1 .. 2 : i = 1 \/ i = 2  OBVIOUS
    <3> QED  BY <3>1, <2>4, <2>5 DEF Shown
  <2>7. h = t  BY <2>2, <2>5, <2>6, SeqEqual
  <2> QED  BY <2>7 DEF t
<1>6. Len(w) - 1 = n + 2 /\ Len(w) >= 3  BY <1>1
<1> HIDE DEF u, h
<1>7. SubSeq(w, 3, Len(w) - 1) = c  BY <1>4, <1>6 DEF u
<1>8. Saf!Last(w) = c  BY <1>1 DEF Saf!Last
<1> QED  BY <1>5, <1>6, <1>7, <1>8 DEF Saf!FramingOk, h

\* A byte of the frame.
LEMMA DataKeeps ==
  ASSUME SafTypes, NEW E, NEW c1 \in Nat, NEW c2 \in Nat, NEW c3 \in Nat, NEW w1 \in Nat,
         NEW w2 \in Nat, LayoutInv(E), CrossInv(E, c1, c2, c3, w1, w2), ReadInv(E, c3),
         SentInv(E), Saf!Data
  PROVE  SafTypes' /\ ReadInv(E, c3)' /\ SentInv(E)'
<1>1. /\ st = "DATA"
      /\ wire' = Append(wire, cur.byte) /\ crc' = Append(crc, cur.byte) /\ dcnt' = dcnt + 1
      /\ UNCHANGED <<frame_rd, src_ctl, payloads, errors, stream, mem, frame_bytes, dropping,
                     hot, hot_eof>>
      /\ cur.last => /\ st' = IF dcnt + 1 < MIN_FRAME THEN "PAD" ELSE "FCS"
                     /\ UNCHANGED <<cur, rd_ptr>>
      /\ ~cur.last => Saf!Load /\ st' = "DATA"
  BY DEF Saf!Data, Saf!MediaStep, Saf!writer
<1>2. At' = At /\ Ref' = Ref  BY <1>1 DEF At, Ref
<1>3. frame_rd = At % Saf!Counts /\ At <= c3 /\ (~src_ctl => At < c3)
  BY <1>1 DEF ReadInv
<1>4. /\ wire' \in Seq(Sym) /\ crc' \in Seq(Int) /\ Len(crc') = dcnt + 1
      /\ Len(wire') = Len(crc') + 2 /\ Shown(wire', crc')
  <2>1. cur.byte \in Int /\ wire \in Seq(Sym) /\ crc \in Seq(Int)  BY DEF SafTypes, Cell
  <2>2. Len(crc) = dcnt /\ Shown(wire, crc) /\ Len(wire) = Len(crc) + 2  BY <1>1 DEF SentInv
  <2> QED  BY <1>1, <2>1, <2>2, ShownNext
<1>5. dcnt + 1 \in Nat /\ cur.last \in BOOLEAN  BY DEF SafTypes, Cell
<1>6. CASE src_ctl
  <2>1. dcnt = 0 /\ cur.last /\ rd_ptr = E[At]  BY <1>1, <1>6 DEF ReadInv
  <2>2. /\ st' = IF dcnt + 1 < MIN_FRAME THEN "PAD" ELSE "FCS"
        /\ UNCHANGED <<cur, rd_ptr>> /\ src_ctl'
    BY <1>1, <2>1, <1>6
  <2>3. SafTypes'  BY <1>1, <1>4, <1>5, <2>2 DEF SafTypes
  <2>4. ReadInv(E, c3)'  BY <1>1, <1>2, <1>3, <2>1, <2>2 DEF ReadInv
  <2>5. SentInv(E)'  BY <1>1, <1>2, <1>4, <2>2 DEF SentInv
  <2> QED  BY <2>3, <2>4, <2>5
<1>7. CASE ~src_ctl
  <2>1. PICK a, b \in Nat : /\ a = E[At] /\ b = E[At + 1] /\ a < b /\ b <= w2
                            /\ w2 <= Len(mem) /\ wp_sync[2] = w2
                            /\ Framed(mem, a, b, Ref.frames[At + 1])
    BY <1>1, <1>7, FrameAt
  <2>2. PICK r, n \in Nat : r = rd_ptr /\ n = dcnt  BY DEF SafTypes
  <2>3. /\ a < r /\ r <= b /\ n = r - a - 1 /\ cur = mem[r]
        /\ crc = Bytes(mem, a, n)
    BY <1>1, <1>7, <2>1, <2>2 DEF ReadInv, SentInv
  <2>4. PICK l \in Nat : l = Len(mem)  BY LenProperties DEF SafTypes
  <2>5. w2 <= l /\ b <= w2 /\ a < b  BY <2>1, <2>4
  <2>6. r = a + n + 1 /\ a + n + 1 <= l /\ r <= b /\ n + 1 = (r + 1) - a - 1
    BY ONLY <2>3, <2>5, a \in Nat, b \in Nat, r \in Nat, n \in Nat, l \in Nat, w2 \in Nat
  <2>7. crc' = Bytes(mem, a, n + 1)
    <3>1. Append(Bytes(mem, a, n), mem[a + n + 1].byte) = Bytes(mem, a, n + 1)
      BY <2>4, <2>6, BytesNext DEF SafTypes
    <3>2. crc' = Append(Bytes(mem, a, n), mem[a + n + 1].byte)  BY <1>1, <2>3, <2>6
    <3> QED  BY <3>1, <3>2
  <2>8. CASE cur.last
    <3>1. r = b
      <4>1. \A p \in a + 1 .. b - 1 : ~mem[p].last  BY <2>1 DEF Framed
      <4>2. ~(r \in a + 1 .. b - 1)  BY <4>1, <2>3, <2>8
      <4> QED  BY ONLY <4>2, <2>3, a \in Nat, b \in Nat, r \in Nat
    <3>2. n + 1 = b - a /\ b - a \in Nat
      BY ONLY <3>1, <2>3, <2>5, a \in Nat, b \in Nat, r \in Nat, n \in Nat
    <3>3. /\ st' = IF n + 1 < MIN_FRAME THEN "PAD" ELSE "FCS"
          /\ UNCHANGED <<cur, rd_ptr>> /\ ~src_ctl' /\ dcnt' = n + 1
      BY <1>1, <1>7, <2>2, <2>8
    <3>4. SafTypes'  BY <1>1, <1>4, <1>5, <3>3 DEF SafTypes
    <3>5. rd_ptr' = E[At + 1]  BY <2>1, <2>2, <3>1, <3>3
    <3>6. ReadInv(E, c3)'  BY <1>1, <1>2, <1>3, <1>7, <3>3, <3>5 DEF ReadInv
    <3>7. Bytes(mem, a, b - a) \in Seq(Int) /\ Len(Bytes(mem, a, b - a)) = b - a
      <4>1. a + (b - a) <= Len(mem)
        BY ONLY <2>4, <2>5, a \in Nat, b \in Nat, l \in Nat, w2 \in Nat
      <4> QED  BY <4>1, <3>2, BytesAre DEF SafTypes
    <3>8. crc' = Bytes(mem, a, b - a)  BY <2>7, <3>2
    <3>9. ASSUME st' = "PAD"
          PROVE  /\ n + 1 < MIN_FRAME /\ b - a <= n + 1
                 /\ crc' = PadTo(Bytes(mem, a, b - a), n + 1)
      <4>1. n + 1 < MIN_FRAME  BY <3>9, <3>3
      <4>2. PadTo(Bytes(mem, a, b - a), b - a) = Bytes(mem, a, b - a)  BY <3>7, PadNone
      <4>3. b - a <= n + 1  BY <3>2
      <4> QED  BY <4>1, <4>2, <4>3, <3>2, <3>8
    <3>10. ASSUME st' = "FCS" PROVE crc' = Ref.frames[At + 1]
      <4>1. ~(n + 1 < MIN_FRAME)  BY <3>10, <3>3
      <4>2. b - a >= MIN_FRAME  BY <4>1, <3>2, SafAssumption
      <4>3. Saf!pad_payload(Bytes(mem, a, b - a)) = Bytes(mem, a, b - a)
        BY <4>2, <3>7, PadIs
      <4> QED  BY <4>3, <3>8, <2>1 DEF Framed
    <3>11. Len(crc') = n + 1 /\ st' \in {"PAD", "FCS"}  BY <1>4, <2>2, <3>3
    <3>12. SentInv(E)'
      BY <1>1, <1>2, <1>4, <2>1, <3>3, <3>9, <3>10, <3>11 DEF SentInv
    <3> QED  BY <3>4, <3>6, <3>12
  <2>9. CASE ~cur.last
    <3>1. r # b
      <4>1. mem[b].last  BY <2>1 DEF Framed
      <4> QED  BY <4>1, <2>3, <2>9
    <3>2. r < w2 /\ r + 1 <= b /\ a < r + 1
      BY ONLY <3>1, <2>3, <2>5, a \in Nat, b \in Nat, r \in Nat, w2 \in Nat
    <3>3. cur' = mem[rd_ptr + 1] /\ rd_ptr' = rd_ptr + 1 /\ cur' \in Cell /\ rd_ptr' \in Nat
      BY <1>1, <1>7, <2>1, <2>2, <2>9, <3>2, LoadFinds
    <3>4. rd_ptr' = r + 1 /\ cur' = mem[r + 1] /\ dcnt' = n + 1 /\ st' = "DATA" /\ ~src_ctl'
      BY <1>1, <1>7, <2>2, <2>9, <3>3
    <3>5. SafTypes'  BY <1>1, <1>4, <1>5, <3>3, <3>4 DEF SafTypes
    <3>6. ReadInv(E, c3)'
      BY <1>1, <1>2, <1>3, <2>1, <2>6, <3>2, <3>4 DEF ReadInv
    <3>7. Len(crc') = n + 1  BY <1>4, <2>2
    <3>8. SentInv(E)'
      BY <1>1, <1>2, <1>4, <2>1, <2>7, <3>4, <3>7 DEF SentInv
    <3> QED  BY <3>5, <3>6, <3>8
  <2> QED  BY <1>5, <2>8, <2>9
<1> QED  BY <1>6, <1>7

\* A byte of padding.
LEMMA PadKeeps ==
  ASSUME SafTypes, NEW E, NEW c1 \in Nat, NEW c2 \in Nat, NEW c3 \in Nat, NEW w1 \in Nat,
         NEW w2 \in Nat, LayoutInv(E), CrossInv(E, c1, c2, c3, w1, w2), ReadInv(E, c3),
         SentInv(E), Saf!PadByte
  PROVE  SafTypes' /\ ReadInv(E, c3)' /\ SentInv(E)'
<1>1. /\ st = "PAD" /\ st' = IF dcnt + 1 >= MIN_FRAME THEN "FCS" ELSE "PAD"
      /\ wire' = Append(wire, Saf!Pad) /\ crc' = Append(crc, Saf!Pad) /\ dcnt' = dcnt + 1
      /\ UNCHANGED <<frame_rd, src_ctl, payloads, errors, stream, mem, frame_bytes, dropping,
                     hot, hot_eof, cur, rd_ptr>>
  BY DEF Saf!PadByte, Saf!MediaStep, Saf!writer
<1>2. At' = At /\ Ref' = Ref  BY <1>1 DEF At, Ref
<1>3. PICK n \in Nat : n = dcnt  BY DEF SafTypes
<1>4. /\ wire' \in Seq(Sym) /\ crc' \in Seq(Int) /\ Len(crc') = n + 1
      /\ Len(wire') = Len(crc') + 2 /\ Shown(wire', crc')
  <2>1. Saf!Pad \in Int /\ wire \in Seq(Sym) /\ crc \in Seq(Int)  BY DEF SafTypes, Saf!Pad
  <2>2. Len(crc) = n /\ Shown(wire, crc) /\ Len(wire) = Len(crc) + 2
    BY <1>1, <1>3 DEF SentInv
  <2> QED  BY <1>1, <2>1, <2>2, ShownNext
<1>5. dcnt' \in Nat /\ dcnt' = n + 1  BY <1>1, <1>3
<1>6. SafTypes'  BY <1>1, <1>4, <1>5 DEF SafTypes
<1>7. ReadInv(E, c3)'  BY <1>1, <1>2 DEF ReadInv
<1>8. n < MIN_FRAME /\ MIN_FRAME \in Nat  BY <1>1, <1>3, SafAssumption DEF SentInv
<1>9. ASSUME ~src_ctl
      PROVE  \E a, b \in Nat :
               /\ a = E[At] /\ b = E[At + 1] /\ b - a <= n + 1
               /\ crc' = PadTo(Bytes(mem, a, b - a), n + 1)
               /\ n + 1 = MIN_FRAME => crc' = Ref.frames[At + 1]
  <2>1. PICK a, b \in Nat : /\ a = E[At] /\ b = E[At + 1] /\ a < b /\ b <= w2
                            /\ w2 <= Len(mem)
                            /\ Framed(mem, a, b, Ref.frames[At + 1])
    BY <1>1, <1>9, FrameAt
  <2>2. b - a <= n /\ crc = PadTo(Bytes(mem, a, b - a), n)
    BY <1>1, <1>3, <1>9, <2>1 DEF SentInv
  <2>30. a < b  BY <2>1
  <2>31. b - a \in Nat  BY ONLY <2>30, a \in Nat, b \in Nat
  <2>32. Len(mem) \in Nat  BY LenProperties DEF SafTypes
  <2>3. PICK k, l \in Nat : k = b - a /\ l = Len(mem)  BY <2>31, <2>32
  <2>4. a + k <= l /\ k <= n /\ k <= n + 1  BY <2>1, <2>2, <2>3
  <2>5. Bytes(mem, a, k) \in Seq(Int) /\ Len(Bytes(mem, a, k)) = k
    BY <2>3, <2>4, BytesAre DEF SafTypes
  <2>6. Append(PadTo(Bytes(mem, a, k), n), Saf!Pad) = PadTo(Bytes(mem, a, k), n + 1)
    BY <2>4, <2>5, PadNext
  <2>7. crc' = PadTo(Bytes(mem, a, k), n + 1)  BY <1>1, <2>2, <2>3, <2>6
  <2>8. ASSUME n + 1 = MIN_FRAME PROVE crc' = Ref.frames[At + 1]
    <3>1. Saf!pad_payload(Bytes(mem, a, k)) = PadTo(Bytes(mem, a, k), MIN_FRAME)
      BY <1>8, <2>4, <2>5, PadIs
    <3>2. Ref.frames[At + 1] = Saf!pad_payload(Bytes(mem, a, k))
      BY <2>1, <2>3 DEF Framed
    <3> QED  BY <2>7, <2>8, <3>1, <3>2
  <2> QED  BY <2>1, <2>3, <2>4, <2>7, <2>8
<1>10. CASE n + 1 >= MIN_FRAME
  <2>1. n + 1 = MIN_FRAME /\ st' = "FCS"  BY <1>1, <1>3, <1>8, <1>10
  <2>2. ~src_ctl' => crc' = Ref'.frames[At' + 1]  BY <1>1, <1>2, <1>9, <2>1
  <2>3. SentInv(E)'  BY <1>1, <1>2, <1>4, <2>1, <2>2 DEF SentInv
  <2> QED  BY <1>6, <1>7, <2>3
<1>11. CASE ~(n + 1 >= MIN_FRAME)
  <2>1. n + 1 < MIN_FRAME /\ st' = "PAD"  BY <1>1, <1>3, <1>8, <1>11
  <2>2. ~src_ctl' => /\ E[At' + 1] - E[At'] <= dcnt'
                     /\ crc' = PadTo(Bytes(mem', E[At'], E[At' + 1] - E[At']), dcnt')
    BY <1>1, <1>2, <1>5, <1>9
  <2>3. SentInv(E)'  BY <1>1, <1>2, <1>4, <1>5, <2>1, <2>2 DEF SentInv
  <2> QED  BY <1>6, <1>7, <2>3
<1> QED  BY <1>10, <1>11

\* The FCS.
LEMMA FcsKeeps ==
  ASSUME SafTypes, NEW E, NEW c3 \in Nat, ReadInv(E, c3), SentInv(E), Saf!Fcs
  PROVE  SafTypes' /\ ReadInv(E, c3)' /\ SentInv(E)'
<1>1. /\ st = "FCS" /\ st' = "IFG" /\ wire' = Append(wire, crc)
      /\ UNCHANGED <<frame_rd, src_ctl, payloads, errors, stream, mem, frame_bytes, dropping,
                     hot, hot_eof, cur, rd_ptr, dcnt, crc>>
  BY DEF Saf!Fcs, Saf!MediaStep, Saf!writer
<1>2. At' = At /\ Ref' = Ref  BY <1>1 DEF At, Ref
<1>3. /\ wire' \in Seq(Sym) /\ Shown(wire', crc)
      /\ Len(wire') = Len(crc) + 3 /\ wire'[Len(crc) + 3] = crc
  <2>1. wire \in Seq(Sym) /\ crc \in Seq(Int)  BY DEF SafTypes
  <2>2. Shown(wire, crc) /\ Len(wire) = Len(crc) + 2  BY <1>1 DEF SentInv
  <2> QED  BY <1>1, <2>1, <2>2, ShownEnd
<1>4. SafTypes'  BY <1>1, <1>3 DEF SafTypes
<1>5. ReadInv(E, c3)'  BY <1>1, <1>2 DEF ReadInv
<1>6. SentInv(E)'  BY <1>1, <1>2, <1>3 DEF SentInv
<1> QED  BY <1>4, <1>5, <1>6

\* The frame is closed and counted.
LEMMA IfgKeeps ==
  ASSUME SafTypes, NEW E, NEW c3 \in Nat, ReadInv(E, c3), SentInv(E), Saf!Ifg
  PROVE  SafTypes' /\ ReadInv(E, c3)' /\ SentInv(E)'
<1>1. /\ st = "IFG" /\ st' = "IDLE" /\ wire' = <<>>
      /\ errors' = (errors \/ ~Saf!FramingOk(wire))
      /\ UNCHANGED <<src_ctl, stream, mem, frame_bytes, dropping, hot, hot_eof, cur, rd_ptr,
                     dcnt, crc>>
      /\ src_ctl => UNCHANGED <<frame_rd, payloads>>
      /\ ~src_ctl => /\ frame_rd' = (frame_rd + 1) % Saf!Counts
                     /\ payloads' = Append(payloads, SubSeq(wire, 3, Len(wire) - 1))
  BY DEF Saf!Ifg, Saf!MediaStep, Saf!writer
<1>2. Ref' = Ref  BY <1>1 DEF Ref
<1>3. Saf!FramingOk(wire) /\ SubSeq(wire, 3, Len(wire) - 1) = crc
  <2>1. wire \in Seq(Sym) /\ crc \in Seq(Int)  BY DEF SafTypes
  <2>2. Shown(wire, crc) /\ Len(wire) = Len(crc) + 3 /\ wire[Len(crc) + 3] = crc
    BY <1>1 DEF SentInv
  <2> QED  BY <2>1, <2>2, ShownRead
<1>4. ~errors'  BY <1>1, <1>3 DEF SentInv
<1>5. wire' \in Seq(Sym)  BY <1>1
<1>6. CASE src_ctl
  <2>1. At' = At /\ payloads' = payloads  BY <1>1, <1>6 DEF At
  <2>2. SafTypes'  BY <1>1, <1>5, <2>1 DEF SafTypes
  <2>3. ReadInv(E, c3)'  BY <1>1, <1>6, <2>1 DEF ReadInv
  <2>4. SentInv(E)'  BY <1>1, <1>2, <1>4, <2>1 DEF SentInv
  <2> QED  BY <2>2, <2>3, <2>4
<1>7. CASE ~src_ctl
  <2>1. payloads' = Append(payloads, crc) /\ frame_rd' = (frame_rd + 1) % Saf!Counts
    BY <1>1, <1>3, <1>7
  <2>2. PICK n \in Nat : n = At  BY LenProperties DEF At, SafTypes
  <2>3. /\ payloads' \in Seq(Seq(Int)) /\ Len(payloads') = n + 1 /\ payloads'[n + 1] = crc
        /\ \A i \in 1 .. n : payloads'[i] = payloads[i]
    BY <2>1, <2>2, AppendProperties DEF SafTypes, At
  <2>4. At' = n + 1  BY <2>3 DEF At
  <2>5. rd_ptr = E[n + 1] /\ n < c3 /\ frame_rd = n % Saf!Counts
    BY <1>1, <1>7, <2>2 DEF ReadInv
  <2>6. Saf!Counts \in Nat \ {0}  BY SafAssumption DEF Saf!Counts
  <2>7. frame_rd' = (n + 1) % Saf!Counts
    <3>1. PICK m \in Nat \ {0} : m = Saf!Counts  BY <2>6
    <3>2. ((n % m) + 1) % m = (n + 1) % m  BY n \in Int, ModSteps
    <3>3. frame_rd' = (frame_rd + 1) % m /\ frame_rd = n % m  BY <2>1, <2>5, <3>1
    <3> QED  BY <3>1, <3>2, <3>3, Zenon
  <2>8. SafTypes'  BY <1>1, <1>5, <2>3 DEF SafTypes
  <2>9. n + 1 <= c3  BY <2>5
  <2>10. ReadInv(E, c3)'  BY <1>1, <2>4, <2>5, <2>7, <2>9 DEF ReadInv
  <2>11. ASSUME NEW i \in 1 .. n + 1 PROVE payloads'[i] = Ref.frames[i]
    <3>1. CASE i = n + 1
      <4>1. crc = Ref.frames[n + 1]  BY <1>1, <1>7, <2>2 DEF SentInv
      <4> QED  BY <3>1, <4>1, <2>3
    <3>2. CASE i # n + 1
      <4>1. i \in 1 .. n  BY <3>2
      <4> QED  BY <4>1, <2>2, <2>3 DEF SentInv
    <3> QED  BY <3>1, <3>2
  <2>12. SentInv(E)'  BY <1>1, <1>2, <1>4, <2>4, <2>11 DEF SentInv
  <2> QED  BY <2>8, <2>10, <2>12
<1> QED  BY <1>6, <1>7 DEF SafTypes

\* A frame is started only when the last stage of the synchronizer counts it.
LEMMA StartKeeps ==
  ASSUME SafTypes, NEW E, NEW c1 \in Nat, NEW c2 \in Nat, NEW c3 \in Nat, NEW w1 \in Nat,
         NEW w2 \in Nat, CrossInv(E, c1, c2, c3, w1, w2), ReadInv(E, c3), SentInv(E),
         NEW c \in BOOLEAN, Saf!Start(c)
  PROVE  SafTypes' /\ ReadInv(E, c3)' /\ SentInv(E)'
<1>1. /\ st = "IDLE" /\ st' = "PRE" /\ src_ctl' = c
      /\ ~c => Saf!frame_pending
      /\ UNCHANGED <<frame_rd, payloads, errors, stream, mem, frame_bytes, dropping,
                     hot, hot_eof, cur, rd_ptr, dcnt, crc, wire>>
  BY DEF Saf!Start, Saf!MediaStep, Saf!writer, Saf!monitor
<1>2. At' = At /\ Ref' = Ref  BY <1>1 DEF At, Ref
<1>3. PICK n \in Nat : n = At  BY LenProperties DEF At, SafTypes
<1>4. ~c => n < c3
  <2>1. fw_sync[3] = c3 % Saf!Counts  BY DEF CrossInv
  <2>2. frame_rd = n % Saf!Counts /\ n <= c3  BY <1>3 DEF ReadInv
  <2>3. ~c => n # c3  BY <1>1, <2>1, <2>2 DEF Saf!frame_pending
  <2> QED  BY <2>2, <2>3
<1>5. SafTypes'  BY <1>1 DEF SafTypes
<1>6. ReadInv(E, c3)'  BY <1>1, <1>2, <1>3, <1>4 DEF ReadInv
<1>7. SentInv(E)'  BY <1>1, <1>2 DEF SentInv
<1> QED  BY <1>5, <1>6, <1>7

\* An edge of the synchronizers: the last stages take over what the stages before them
\* showed, so that what is counted stays behind what can be read.
LEMMA SyncKeeps ==
  ASSUME SafTypes, NEW E, NEW c1 \in Nat, NEW c2 \in Nat, NEW c3 \in Nat, NEW w1 \in Nat,
         NEW w2 \in Nat, LayoutInv(E), CrossInv(E, c1, c2, c3, w1, w2), ReadInv(E, c3),
         SentInv(E), Saf!SyncWrite
  PROVE  /\ SafTypes' /\ LayoutInv(E)' /\ ReadInv(E, c2)' /\ SentInv(E)'
         /\ \E d1, v1 \in Nat : CrossInv(E, d1, c1, c2, v1, w1)'
<1>1. PICK v \in {Len(mem)} \cup (IF hot THEN {Len(mem) - 1} ELSE {}),
           f \in {frame_wr} \cup
                 (IF hot /\ hot_eof THEN {(frame_wr - 1) % Saf!Counts} ELSE {}) :
        wp_sync' = <<v, wp_sync[1]>> /\ fw_sync' = Saf!SyncFrames(f)
  BY DEF Saf!SyncWrite
<1>2. /\ hot' = FALSE /\ hot_eof' = FALSE
      /\ UNCHANGED <<stream, mem, frame_bytes, dropping, frame_wr, Saf!framer, Saf!monitor>>
  BY DEF Saf!SyncWrite
<1>3. UNCHANGED <<st, rd_ptr, frame_rd, src_ctl, cur, dcnt, crc, wire, payloads, errors>>
  BY <1>2 DEF Saf!framer, Saf!monitor
<1>4. Ref' = Ref /\ At' = At  BY <1>2, <1>3 DEF Ref, At
<1>5. SafTypes'  BY <1>2, <1>3 DEF SafTypes
<1>6. LayoutInv(E)'  BY <1>2, <1>4 DEF LayoutInv
<1>7. ReadInv(E, c2)'
  <2>1. PICK d \in Nat : d = At  BY LenProperties DEF At, SafTypes
  <2>2. c3 <= c2  BY DEF CrossInv
  <2>3. d <= c3 => d <= c2  BY <2>2
  <2>4. d < c3 => d < c2  BY <2>2
  <2> QED  BY <1>2, <1>3, <1>4, <2>1, <2>3, <2>4 DEF ReadInv
<1>8. SentInv(E)'  BY <1>2, <1>3, <1>4 DEF SentInv
<1>9. /\ Len(Ref.frames) \in Nat /\ Len(mem) \in Nat
      /\ \A k \in 0 .. Len(Ref.frames) : E[k] \in Nat /\ E[k] <= Len(mem)
      /\ {c1, c2, c3} \subseteq 0 .. Len(Ref.frames)
  BY Places
<1> PICK n \in Nat, l \in Nat : n = Len(Ref.frames) /\ l = Len(mem)  BY <1>9
<1>10. PICK m \in Nat \ {0} : m = Saf!Counts  BY SafAssumption DEF Saf!Counts
<1>11. /\ c3 <= c2 /\ c2 <= c1 /\ c1 <= n /\ w2 <= w1 /\ w1 <= l
       /\ fw_sync = <<c1 % m, c2 % m, c3 % m>> /\ wp_sync = <<w1, w2>>
       /\ E[c2] <= w1
       /\ hot => E[c1] < l /\ w1 < l
  BY <1>10 DEF CrossInv
<1>12. E[c1] \in Nat /\ E[c1] <= l  BY <1>9
<1>13. v \in Nat /\ v <= l /\ E[c1] <= v /\ w1 <= v
  <2>1. CASE v = l  BY <2>1, <1>11, <1>12
  <2>2. CASE v # l
    <3>1. hot /\ v = l - 1  BY <1>1, <2>2
    <3>2. PICK x \in Nat : x = E[c1]  BY <1>12
    <3>3. x < l /\ w1 < l  BY <3>1, <3>2, <1>11
    <3>4. l - 1 \in Nat /\ l - 1 <= l /\ x <= l - 1 /\ w1 <= l - 1  BY <3>3
    <3> QED  BY <3>1, <3>2, <3>4
  <2> QED  BY <2>1, <2>2
<1>14. PICK d1 \in Nat : d1 <= n /\ c1 <= d1 /\ f = d1 % m
  <2>1. frame_wr = n % m  BY <1>10 DEF LayoutInv
  <2>2. CASE f = frame_wr
    <3>1. n <= n /\ c1 <= n /\ f = n % m  BY <2>1, <2>2, <1>11
    <3> QED  BY <3>1
  <2>3. CASE f # frame_wr
    <3>1. hot /\ hot_eof /\ f = (frame_wr - 1) % m  BY <1>1, <1>10, <2>3
    <3>2. n > 0 /\ frame_bytes = 0 /\ E[n] + frame_bytes = l  BY <3>1 DEF LayoutInv
    <3>3. E[n] \in Nat  BY <1>9
    <3>4. E[n] = l  BY <3>2, <3>3
    <3>5. c1 # n
      <4>1. E[c1] < l  BY <3>1, <1>11
      <4>2. E[c1] # l  BY <4>1, <1>12
      <4> QED  BY <3>4, <4>2
    <3>6. n - 1 \in Nat /\ n - 1 <= n /\ c1 <= n - 1  BY <3>2, <3>5, <1>11
    <3>7. ((n % m) - 1) % m = (n - 1) % m  BY n \in Int, ModSteps
    <3>8. f = (n - 1) % m  BY <2>1, <3>1, <3>7
    <3> QED  BY <3>6, <3>8
  <2> QED  BY <2>2, <2>3
<1>15. /\ wp_sync' = <<v, w1>>
       /\ fw_sync' = <<d1 % m, c1 % m, c2 % m>>
  BY <1>1, <1>11, <1>14 DEF Saf!SyncFrames
<1>16. CrossInv(E, d1, c1, c2, v, w1)'
  BY <1>2, <1>4, <1>10, <1>11, <1>13, <1>14, <1>15 DEF CrossInv
<1> QED  BY <1>5, <1>6, <1>7, <1>8, <1>13, <1>16

\* The tail of a cut frame passes by, in the block and in the reference.
LEMMA DropKeeps ==
  ASSUME SafTypes, NEW E, NEW c1 \in Nat, NEW c2 \in Nat, NEW c3 \in Nat, NEW w1 \in Nat,
         NEW w2 \in Nat, LayoutInv(E), CrossInv(E, c1, c2, c3, w1, w2), ReadInv(E, c3),
         SentInv(E), NEW last \in BOOLEAN, Saf!DropTail(last)
  PROVE  /\ SafTypes' /\ LayoutInv(E)' /\ CrossInv(E, c1, c2, c3, w1, w2)'
         /\ ReadInv(E, c3)' /\ SentInv(E)'
<1>1. /\ dropping /\ stream' = Append(stream, last) /\ dropping' = ~last
      /\ UNCHANGED <<mem, frame_bytes, frame_wr, hot, hot_eof, wp_sync, fw_sync, Saf!framer,
                     Saf!monitor>>
  BY DEF Saf!DropTail
<1>2. UNCHANGED <<st, rd_ptr, frame_rd, src_ctl, cur, dcnt, crc, wire, payloads, errors>>
  BY <1>1 DEF Saf!framer, Saf!monitor
<1>3. stream \in Seq(BOOLEAN) /\ Folds(stream)  BY DEF SafTypes, LayoutInv
<1>4. /\ Folds(stream') /\ stream' \in Seq(BOOLEAN)
      /\ Ref' = Reader(stream', Ref, Len(stream) + 1)
  BY <1>1, <1>3, FoldGoesOn, AppendProperties DEF Ref
<1>5. stream'[Len(stream) + 1] = last  BY <1>1, <1>3, AppendProperties
<1> DEFINE B == Bytes(mem, E[Len(Ref.frames)], frame_bytes)
<1>6. Ref = [frames |-> Ref.frames, dropping |-> TRUE, cur |-> B]
  BY <1>1 DEF LayoutInv
<1> HIDE DEF B
<1>7. Ref' = [Ref EXCEPT !.dropping = ~last]
  <2>1. Ref.dropping = TRUE  BY <1>6
  <2> QED  BY <1>4, <1>5, <2>1 DEF Reader
<1>8. Ref' = [frames |-> Ref.frames, dropping |-> ~last, cur |-> B]
  BY <1>6, <1>7
<1>9. Ref'.frames = Ref.frames  BY <1>8
<1>10. At' = At  BY <1>2 DEF At
<1>11. Ref' = [frames |-> Ref'.frames, dropping |-> dropping',
               cur |-> Bytes(mem', E[Len(Ref'.frames)], frame_bytes')]
  BY <1>1, <1>8, <1>9 DEF B
<1>12. frame_bytes = 0  BY <1>1 DEF LayoutInv
<1>13. LayoutInv(E)'
  BY <1>1, <1>4, <1>9, <1>11, <1>12 DEF LayoutInv
<1>14. SafTypes'  BY <1>1, <1>2, <1>4 DEF SafTypes
<1>15. CrossInv(E, c1, c2, c3, w1, w2)'  BY <1>1, <1>9 DEF CrossInv
<1>16. ReadInv(E, c3)'  BY <1>1, <1>2, <1>10 DEF ReadInv
<1>17. SentInv(E)'  BY <1>1, <1>2, <1>9, <1>10 DEF SentInv
<1> QED  BY <1>13, <1>14, <1>15, <1>16, <1>17

\* A byte is written.  The reference reads it as well, and ends its frame with it where the
\* block commits one.
LEMMA AcceptKeeps ==
  ASSUME SafTypes, NEW E, NEW c1 \in Nat, NEW c2 \in Nat, NEW c3 \in Nat, NEW w1 \in Nat,
         NEW w2 \in Nat, LayoutInv(E), CrossInv(E, c1, c2, c3, w1, w2), ReadInv(E, c3),
         SentInv(E), NEW last \in BOOLEAN, Saf!Accept(last)
  PROVE  SafTypes' /\ \E D : /\ LayoutInv(D)' /\ CrossInv(D, c1, c2, c3, w1, w2)'
                             /\ ReadInv(D, c3)' /\ SentInv(D)'
<1> DEFINE eff == last \/ Saf!ReachedLimit
           F   == Ref.frames
<1> PICK n \in Nat, l \in Nat, q \in Nat, z \in Nat :
      n = Len(Ref.frames) /\ l = Len(mem) /\ q = frame_bytes /\ z = Len(stream)
  BY LenProperties DEF SafTypes, LayoutInv
<1>1. /\ ~dropping /\ stream' = Append(stream, last)
      /\ mem' = Append(mem, [byte |-> z + 1, last |-> eff])
      /\ frame_bytes' = IF eff THEN 0 ELSE q + 1
      /\ dropping' = (Saf!ReachedLimit /\ ~last)
      /\ frame_wr' = IF eff THEN (frame_wr + 1) % Saf!Counts ELSE frame_wr
      /\ hot' = TRUE /\ hot_eof' = eff
      /\ UNCHANGED <<wp_sync, fw_sync, Saf!framer, Saf!monitor>>
  BY DEF Saf!Accept
<1>2. UNCHANGED <<st, rd_ptr, frame_rd, src_ctl, cur, dcnt, crc, wire, payloads, errors>>
  BY <1>1 DEF Saf!framer, Saf!monitor
<1>3. At' = At  BY <1>2 DEF At
<1>4. eff \in BOOLEAN /\ (Saf!ReachedLimit \in BOOLEAN)  BY DEF Saf!ReachedLimit
<1> HIDE DEF eff
<1>5. [byte |-> z + 1, last |-> eff] \in Cell  BY <1>4 DEF Cell
<1>6. /\ mem' \in Seq(Cell) /\ Len(mem') = l + 1
      /\ mem'[l + 1] = [byte |-> z + 1, last |-> eff]
      /\ \A p \in 1 .. l : mem'[p] = mem[p]
  BY <1>1, <1>5, AppendProperties DEF SafTypes
<1>7. mem'[l + 1].byte = z + 1 /\ mem'[l + 1].last = eff  BY <1>6
<1>8. stream' \in Seq(BOOLEAN) /\ stream'[z + 1] = last
  BY <1>1, AppendProperties DEF SafTypes
<1>9. /\ Folds(stream') /\ Ref' = Reader(stream', Ref, z + 1)
  BY <1>1, FoldGoesOn DEF Ref, SafTypes, LayoutInv
<1>10. /\ F \in Seq(Seq(Int)) /\ E \in [0 .. n -> 0 .. l] /\ E[0] = 0
       /\ \A i, j \in 0 .. n : i <= j => E[i] <= E[j]
       /\ \A k \in 1 .. n : Framed(mem, E[k - 1], E[k], F[k])
       /\ E[n] + q = l
       /\ \A p \in E[n] + 1 .. l : ~mem[p].last
       /\ frame_wr = n % Saf!Counts
  BY DEF LayoutInv
<1> PICK a \in Nat : a = E[n]
  <2>1. n \in 0 .. n  OBVIOUS
  <2>2. E[n] \in 0 .. l  BY <2>1, <1>10
  <2> QED  BY <2>2
<1>110. a + q = l  BY <1>10
<1>11. a + q = l /\ a <= l /\ a + q + 1 = l + 1
  BY ONLY <1>110, a \in Nat, q \in Nat, l \in Nat
<1>12. Ref = [frames |-> F, dropping |-> FALSE, cur |-> Bytes(mem, a, q)]
  <2>1. dropping = FALSE  BY <1>1 DEF SafTypes
  <2> QED  BY <2>1 DEF LayoutInv
<1>13. Bytes(mem', a, q) = Bytes(mem, a, q)
  <2>1. l - a = q  BY ONLY <1>11, a \in Nat, q \in Nat, l \in Nat
  <2>2. Bytes(Append(mem, [byte |-> z + 1, last |-> eff]), a, l - a) = Bytes(mem, a, l - a)
    <3>1. PICK w \in Cell : w = [byte |-> z + 1, last |-> eff]  BY <1>5
    <3>2. mem \in Seq(Cell) /\ l = Len(mem) /\ a <= l  BY <1>11 DEF SafTypes
    <3>3. Bytes(Append(mem, w), a, l - a) = Bytes(mem, a, l - a)
      BY ONLY <3>2, GrownSame, a \in Nat, l \in Nat, w \in Cell
    <3> QED  BY <3>1, <3>3
  <2>3. Bytes(Append(mem, [byte |-> z + 1, last |-> eff]), a, q) = Bytes(mem, a, q)
    BY <2>1, <2>2
  <2> QED  BY <1>1, <2>3
<1> DEFINE B == Append(Bytes(mem, a, q), z + 1)
<1>14. B = Bytes(mem', a, q + 1) /\ B \in Seq(Int) /\ Len(B) = q + 1
  <2>0. a + q + 1 <= l + 1 /\ a + (q + 1) <= l + 1 /\ q + 1 \in Nat
    BY ONLY <1>11, a \in Nat, q \in Nat, l \in Nat
  <2>1. a + q + 1 <= Len(mem') /\ a + (q + 1) <= Len(mem') /\ q + 1 \in Nat
    BY <2>0, <1>6
  <2>2. Append(Bytes(mem', a, q), mem'[a + q + 1].byte) = Bytes(mem', a, q + 1)
    <3>1. mem' \in Seq(Cell) /\ a + q + 1 <= Len(mem')  BY <2>1, <1>6
    <3> QED  BY ONLY <3>1, BytesNext, a \in Nat, q \in Nat
  <2>3. mem'[a + q + 1].byte = z + 1  BY <1>7, <1>11
  <2>4. B = Bytes(mem', a, q + 1)  BY <1>13, <2>2, <2>3
  <2>5. Bytes(mem', a, q + 1) \in Seq(Int) /\ Len(Bytes(mem', a, q + 1)) = q + 1
    BY <1>6, <2>1, BytesAre
  <2> QED  BY <2>4, <2>5
<1> HIDE DEF B
<1>15. Ref' = IF eff THEN [frames |-> Append(F, Saf!pad_payload(B)), cur |-> <<>>,
                           dropping |-> dropping']
                     ELSE [frames |-> F, dropping |-> FALSE, cur |-> B]
  <2>1. Ref.dropping = FALSE /\ Ref.cur = Bytes(mem, a, q) /\ Ref.frames = F
    BY <1>12
  <2>2. Append(Ref.cur, z + 1) = B  BY <2>1 DEF B
  <2>3. (Len(B) = MAX_FRAME) = Saf!ReachedLimit
    <3>1. (q + 1 = MAX_FRAME) = (q = MAX_FRAME - 1)  BY SafAssumption
    <3>2. Saf!ReachedLimit = (q = MAX_FRAME - 1)  BY DEF Saf!ReachedLimit
    <3> QED  BY <1>14, <3>1, <3>2
  <2>4. Reader(stream', Ref, z + 1)
        = IF last \/ (Len(B) = MAX_FRAME /\ ~last)
          THEN [frames |-> Append(F, Saf!pad_payload(B)), cur |-> <<>>,
                dropping |-> (Len(B) = MAX_FRAME /\ ~last)]
          ELSE [Ref EXCEPT !.cur = B]
    BY <1>8, <2>1, <2>2 DEF Reader
  <2>5. [Ref EXCEPT !.cur = B] = [frames |-> F, dropping |-> FALSE, cur |-> B]
    <3>1. ASSUME NEW x, NEW y, NEW f, NEW c, NEW b, y = [x EXCEPT !.cur = b],
                 x = [frames |-> f, dropping |-> FALSE, cur |-> c]
          PROVE  y = [frames |-> f, dropping |-> FALSE, cur |-> b]
      BY ONLY <3>1
    <3>2. PICK x, y : x = Ref /\ y = [Ref EXCEPT !.cur = B]  OBVIOUS
    <3>3. y = [x EXCEPT !.cur = B]  BY <3>2
    <3>4. x = [frames |-> F, dropping |-> FALSE, cur |-> Bytes(mem, a, q)]  BY <1>12, <3>2
    <3> HIDE DEF F
    <3>5. y = [frames |-> F, dropping |-> FALSE, cur |-> B]  BY ONLY <3>1, <3>3, <3>4
    <3> QED  BY <3>2, <3>5
  <2>6. (last \/ (Len(B) = MAX_FRAME /\ ~last)) = eff  BY <1>4, <2>3 DEF eff
  <2>7. dropping' = (Len(B) = MAX_FRAME /\ ~last)  BY <1>1, <2>3
  <2> QED  BY <1>9, <2>4, <2>5, <2>6, <2>7
<1>16. SafTypes'
  <2>1. frame_bytes' \in Nat  BY <1>1, <1>4
  <2>2. dropping' \in BOOLEAN /\ hot' \in BOOLEAN /\ hot_eof' \in BOOLEAN
    <3>1. (Saf!ReachedLimit /\ ~last) \in BOOLEAN  BY <1>4
    <3> QED  BY <3>1, <1>1, <1>4
  <2> QED  BY <2>1, <2>2, <1>2, <1>6, <1>8 DEF SafTypes
<1>17. \A k \in 0 .. n : E[k] \in Nat /\ E[k] <= l
  BY <1>10
<1>18. PICK d \in Nat : d = At /\ d <= n /\ c3 <= c2 /\ c2 <= c1 /\ c1 <= n /\ d <= c3
  <2>1. {c1, c2, c3, At} \subseteq 0 .. n /\ At \in Nat  BY Places
  <2> QED  BY <2>1 DEF CrossInv, ReadInv
<1> PICK m, D : /\ m = IF eff THEN n + 1 ELSE n
                /\ D = [k \in 0 .. m |-> IF k <= n THEN E[k] ELSE l + 1]
  OBVIOUS
<1>19. m \in Nat /\ n <= m /\ m <= n + 1  BY <1>4
<1>20. \A k \in 0 .. n : k \in 0 .. m /\ D[k] = E[k]
  BY <1>19
<1>21. eff => m = n + 1 /\ D[n + 1] = l + 1
  <2>1. eff => m = n + 1  OBVIOUS
  <2>2. n + 1 \in 0 .. n + 1 /\ ~(n + 1 <= n)  OBVIOUS
  <2> QED  BY <2>1, <2>2
<1>22. ~eff => m = n /\ D = E
  <2>1. ~eff => m = n  OBVIOUS
  <2>2. ASSUME ~eff PROVE D = E
    <3>1. D = [k \in 0 .. n |-> IF k <= n THEN E[k] ELSE l + 1]  BY <2>1, <2>2
    <3>2. \A k \in 0 .. n : k <= n  OBVIOUS
    <3>3. [k \in 0 .. n |-> IF k <= n THEN E[k] ELSE l + 1] = [k \in 0 .. n |-> E[k]]
      BY <3>2
    <3>4. E = [k \in 0 .. n |-> E[k]]  BY <1>10
    <3> QED  BY <3>1, <3>3, <3>4
  <2> QED  BY <2>1, <2>2
<1>23. D \in [0 .. m -> 0 .. l + 1]
  <2>1. ASSUME NEW k \in 0 .. m PROVE (IF k <= n THEN E[k] ELSE l + 1) \in 0 .. l + 1
    <3>1. CASE k <= n
      <4>1. k \in 0 .. n  BY <1>19, <3>1
      <4>2. E[k] \in Nat /\ E[k] <= l  BY <4>1, <1>17
      <4>3. E[k] \in 0 .. l + 1  BY <4>2
      <4> QED  BY <3>1, <4>3
    <3>2. CASE ~(k <= n)  BY <3>2
    <3> QED  BY <3>1, <3>2
  <2> QED  BY <2>1
<1>24. /\ Ref'.frames \in Seq(Seq(Int)) /\ Len(Ref'.frames) = m
       /\ \A k \in 1 .. n : Ref'.frames[k] = F[k]
       /\ eff => Ref'.frames[n + 1] = Saf!pad_payload(B)
  <2>1. CASE eff
    <3>1. Ref'.frames = Append(F, Saf!pad_payload(B))  BY <1>15, <2>1
    <3>2. Saf!pad_payload(B) \in Seq(Int)  BY <1>14, PadIs
    <3>3. /\ Append(F, Saf!pad_payload(B)) \in Seq(Seq(Int))
          /\ Len(Append(F, Saf!pad_payload(B))) = n + 1
          /\ Append(F, Saf!pad_payload(B))[n + 1] = Saf!pad_payload(B)
          /\ \A k \in 1 .. n : Append(F, Saf!pad_payload(B))[k] = F[k]
      <4>1. F \in Seq(Seq(Int)) /\ Len(F) = n  BY <1>10
      <4> HIDE DEF F
      <4> QED  BY ONLY <4>1, <3>2, AppendProperties
    <3> QED  BY <2>1, <3>1, <3>3, <1>21
  <2>2. CASE ~eff
    <3>1. Ref'.frames = F  BY <1>15, <2>2
    <3> QED  BY <2>2, <3>1, <1>10, <1>22
  <2> QED  BY <2>1, <2>2
<1>25. \A k \in 1 .. n : Framed(mem', D[k - 1], D[k], Ref'.frames[k])
  <2> SUFFICES ASSUME NEW k \in 1 .. n PROVE Framed(mem', D[k - 1], D[k], Ref'.frames[k])
    OBVIOUS
  <2>1. k - 1 \in 0 .. n /\ k \in 0 .. n /\ k - 1 <= k  OBVIOUS
  <2>2. D[k - 1] = E[k - 1] /\ D[k] = E[k] /\ Ref'.frames[k] = F[k]
    BY <2>1, <1>20, <1>24
  <2>3. E[k - 1] \in Nat /\ E[k] \in Nat /\ E[k] <= l  BY <2>1, <1>17
  <2>4. E[k - 1] <= E[k]  BY <2>1, <1>10
  <2>5. Framed(mem, E[k - 1], E[k], F[k])  BY <1>10
  <2>6. Framed(Append(mem, [byte |-> z + 1, last |-> eff]), E[k - 1], E[k], F[k])
    BY <2>3, <2>4, <2>5, <1>5, GrownSame DEF SafTypes
  <2> QED  BY <1>1, <2>2, <2>6
<1>26. \A p \in a + 1 .. l : ~mem'[p].last
  <2> SUFFICES ASSUME NEW p \in a + 1 .. l PROVE ~mem'[p].last  OBVIOUS
  <2>1. p \in 1 .. l  OBVIOUS
  <2>2. ~mem[p].last  BY <1>10
  <2> QED  BY <2>1, <2>2, <1>6
<1>27. eff => Framed(mem', D[n], D[n + 1], Ref'.frames[n + 1])
  <2> SUFFICES ASSUME eff PROVE Framed(mem', D[n], D[n + 1], Ref'.frames[n + 1])
    OBVIOUS
  <2>1. n \in 0 .. n  OBVIOUS
  <2>2. D[n] = a /\ D[n + 1] = l + 1 /\ Ref'.frames[n + 1] = Saf!pad_payload(B)
    BY <2>1, <1>20, <1>21, <1>24
  <2>3. a < l + 1 /\ (l + 1) - a = q + 1 /\ (l + 1) - 1 = l
    BY ONLY <1>11, a \in Nat, q \in Nat, l \in Nat
  <2>4. mem'[l + 1].last  BY <1>7
  <2>5. Saf!pad_payload(B) = Saf!pad_payload(Bytes(mem', a, (l + 1) - a))
    BY <1>14, <2>3
  <2>6. Framed(mem', a, l + 1, Saf!pad_payload(B))
    BY <2>3, <2>4, <2>5, <1>26 DEF Framed
  <2> QED  BY <2>2, <2>6
<1>28. /\ D[m] + frame_bytes' = l + 1 /\ (eff => D[m] = l + 1)
       /\ (~eff => D[m] = a)
  <2>1. CASE eff
    <3>1. m = n + 1 /\ D[m] = l + 1 /\ frame_bytes' = 0  BY <2>1, <1>1, <1>21
    <3>2. l + 1 + 0 = l + 1  OBVIOUS
    <3> QED  BY <2>1, <3>1, <3>2
  <2>2. CASE ~eff
    <3>1. D[m] = a /\ frame_bytes' = q + 1  BY <2>2, <1>1, <1>22
    <3>2. a + (q + 1) = l + 1  BY ONLY <1>11, a \in Nat, q \in Nat, l \in Nat
    <3> QED  BY <2>2, <3>1, <3>2
  <2> QED  BY <2>1, <2>2
<1>29. \A i, j \in 0 .. m : i <= j => D[i] <= D[j]
  <2> SUFFICES ASSUME NEW i \in 0 .. m, NEW j \in 0 .. m, i <= j PROVE D[i] <= D[j]
    OBVIOUS
  <2>1. CASE j <= n
    <3>1. i \in 0 .. n /\ j \in 0 .. n  BY <2>1, <1>19
    <3> QED  BY <3>1, <1>10, <1>20
  <2>2. CASE ~(j <= n)
    <3>1. eff /\ j = n + 1  BY <2>2, <1>19, <1>22
    <3>2. D[j] = l + 1  BY <3>1, <1>21
    <3>3. D[i] \in 0 .. l + 1  BY <1>23
    <3> QED  BY <3>2, <3>3
  <2> QED  BY <1>19, <2>1, <2>2
<1>30. ASSUME NEW k \in 1 .. m PROVE Framed(mem', D[k - 1], D[k], Ref'.frames[k])
  <2>1. CASE k \in 1 .. n  BY <2>1, <1>25
  <2>2. CASE k \notin 1 .. n
    <3>1. k = n + 1 /\ eff /\ k - 1 = n  BY <2>2, <1>19, <1>22
    <3> QED  BY <3>1, <1>27
  <2> QED  BY <2>1, <2>2
<1>31. ASSUME NEW p \in D[m] + 1 .. l + 1 PROVE ~mem'[p].last
  <2>1. CASE eff
    <3>1. D[m] = l + 1  BY <2>1, <1>28
    <3>2. p \in (l + 1) + 1 .. l + 1  BY <3>1
    <3> QED  BY <3>2
  <2>2. CASE ~eff
    <3>1. p \in a + 1 .. l + 1  BY <2>2, <1>28
    <3>2. CASE p = l + 1  BY <2>2, <3>2, <1>7
    <3>3. CASE p # l + 1
      <4>1. p \in a + 1 .. l  BY <3>1, <3>3
      <4> QED  BY <4>1, <1>26
    <3> QED  BY <3>2, <3>3
  <2> QED  BY <2>1, <2>2
<1>32. Ref' = [frames |-> Ref'.frames, dropping |-> dropping',
               cur |-> Bytes(mem', D[m], frame_bytes')]
  <2>1. CASE eff
    <3>1. 1 .. 0 = {} /\ frame_bytes' = 0  BY <2>1, <1>1
    <3>2. Bytes(mem', D[m], frame_bytes') = <<>>  BY <3>1 DEF Bytes
    <3>3. Ref' = [frames |-> Append(F, Saf!pad_payload(B)), cur |-> <<>>,
                  dropping |-> dropping']
      BY <2>1, <1>15
    <3> QED  BY <3>2, <3>3
  <2>2. CASE ~eff
    <3>1. ~Saf!ReachedLimit  BY <2>2 DEF eff
    <3>2. dropping' = FALSE  BY <3>1, <1>1, <1>4
    <3>3. D[m] = a /\ frame_bytes' = q + 1  BY <2>2, <1>1, <1>28
    <3>4. Ref' = [frames |-> F, dropping |-> FALSE, cur |-> B]  BY <2>2, <1>15
    <3> QED  BY <3>2, <3>3, <3>4, <1>14
  <2> QED  BY <2>1, <2>2
<1>33. dropping' => frame_bytes' = 0
  <2>1. dropping' => eff  BY <1>1 DEF eff
  <2> QED  BY <2>1, <1>1
<1>34. frame_wr' = m % Saf!Counts
  <2>1. PICK k \in Nat \ {0} : k = Saf!Counts  BY SafAssumption DEF Saf!Counts
  <2>2. ((n % k) + 1) % k = (n + 1) % k  BY n \in Int, ModSteps
  <2>3. CASE eff
    <3>1. frame_wr' = (frame_wr + 1) % k /\ frame_wr = n % k /\ m = n + 1
      BY <2>1, <2>3, <1>1, <1>10, <1>21
    <3> QED  BY <2>1, <2>2, <3>1, Zenon
  <2>4. CASE ~eff
    <3>1. frame_wr' = frame_wr /\ m = n  BY <2>4, <1>1, <1>22
    <3> QED  BY <3>1, <1>10
  <2> QED  BY <2>3, <2>4
<1>35. hot_eof' => hot' /\ frame_bytes' = 0 /\ m > 0
  <2>1. hot_eof' => eff  BY <1>1
  <2>2. eff => m > 0  BY <1>21
  <2> QED  BY <2>1, <2>2, <1>1
<1>36. 0 \in 0 .. n /\ n \in 0 .. n /\ D[0] = 0  BY <1>10, <1>20
<1>37. LayoutInv(D)'
  <2>1. Len(Ref'.frames) = m /\ Len(mem') = l + 1  BY <1>6, <1>24
  <2>2. /\ D \in [0 .. Len(Ref'.frames) -> 0 .. Len(mem')] /\ D[0] = 0
        /\ \A i, j \in 0 .. Len(Ref'.frames) : i <= j => D[i] <= D[j]
        /\ \A k \in 1 .. Len(Ref'.frames) : Framed(mem', D[k - 1], D[k], Ref'.frames[k])
    BY <2>1, <1>23, <1>29, <1>30, <1>36
  <2>3. /\ D[Len(Ref'.frames)] + frame_bytes' = Len(mem')
        /\ \A p \in D[Len(Ref'.frames)] + 1 .. Len(mem') : ~mem'[p].last
        /\ Ref' = [frames |-> Ref'.frames, dropping |-> dropping',
                   cur |-> Bytes(mem', D[Len(Ref'.frames)], frame_bytes')]
    BY <2>1, <1>28, <1>31, <1>32
  <2>4. /\ dropping' => frame_bytes' = 0
        /\ frame_wr' = Len(Ref'.frames) % Saf!Counts
    BY <2>1, <1>33, <1>34
  <2>5. hot_eof' => hot' /\ frame_bytes' = 0 /\ Len(Ref'.frames) > 0
    BY <2>1, <1>35
  <2> QED  BY <1>9, <1>24, <2>2, <2>3, <2>4, <2>5 DEF LayoutInv
<1>38. CrossInv(D, c1, c2, c3, w1, w2)'
  <2>1. c1 \in 0 .. n /\ c2 \in 0 .. n /\ c3 \in 0 .. n  BY <1>18
  <2>2. D[c1] = E[c1] /\ D[c2] = E[c2] /\ D[c3] = E[c3]  BY <2>1, <1>20
  <2>3. c1 <= m /\ w1 <= l /\ w2 <= w1 /\ E[c2] <= w1 /\ E[c3] <= w2
    BY <1>18, <1>19 DEF CrossInv
  <2>4. E[c1] \in Nat /\ E[c1] <= l  BY <2>1, <1>17
  <2>5. E[c1] < l + 1 /\ w1 < l + 1 /\ w1 <= l + 1  BY <2>3, <2>4
  <2>6. /\ fw_sync' = <<c1 % Saf!Counts, c2 % Saf!Counts, c3 % Saf!Counts>>
        /\ wp_sync' = <<w1, w2>>
    BY <1>1 DEF CrossInv
  <2>7. Len(Ref'.frames) = m /\ Len(mem') = l + 1  BY <1>6, <1>24
  <2>8. D[c2] <= w1 /\ D[c3] <= w2 /\ D[c1] < l + 1  BY <2>2, <2>3, <2>5
  <2> QED  BY <1>18, <2>3, <2>5, <2>6, <2>7, <2>8 DEF CrossInv
<1>39. /\ D[d] = E[d] /\ d \in 0 .. n
       /\ st # "IDLE" /\ ~src_ctl => /\ d + 1 \in 0 .. n /\ D[d + 1] = E[d + 1]
                                     /\ d + 1 \in 1 .. n
  <2>1. d \in 0 .. n  BY <1>18
  <2>2. ASSUME st # "IDLE", ~src_ctl PROVE d + 1 \in 0 .. n /\ d + 1 \in 1 .. n
    <3>1. d < c3  BY <2>2, <1>18 DEF ReadInv
    <3> QED  BY <3>1, <1>18
  <2> QED  BY <2>1, <2>2, <1>20
<1>40. ReadInv(D, c3)'
  <2>1. ASSUME st = "DATA", ~src_ctl
        PROVE  /\ D[d] < rd_ptr /\ rd_ptr <= D[d + 1] /\ dcnt = rd_ptr - D[d] - 1
               /\ cur = mem'[rd_ptr]
    <3>1. /\ E[d] < rd_ptr /\ rd_ptr <= E[d + 1] /\ dcnt = rd_ptr - E[d] - 1
          /\ cur = mem[rd_ptr]
      BY <2>1, <1>18 DEF ReadInv
    <3>2. D[d] = E[d] /\ D[d + 1] = E[d + 1] /\ d \in 0 .. n /\ d + 1 \in 0 .. n
      BY <2>1, <1>39
    <3>3. PICK x, y, r \in Nat : x = E[d] /\ y = E[d + 1] /\ r = rd_ptr /\ y <= l
      BY <3>2, <1>17 DEF SafTypes
    <3>4. x < r /\ r <= y  BY <3>1, <3>3
    <3>5. r \in 1 .. l  BY <3>3, <3>4
    <3>6. mem'[rd_ptr] = mem[rd_ptr]  BY <3>3, <3>5, <1>6
    <3> QED  BY <3>1, <3>2, <3>6
  <2>2. st \in {"IDLE", "PRE"} \/ src_ctl => rd_ptr = D[d]  BY <1>18, <1>39 DEF ReadInv
  <2>3. st \in {"PAD", "FCS", "IFG"} /\ ~src_ctl => rd_ptr = D[d + 1]
    <3>1. st \in {"PAD", "FCS", "IFG"} => st # "IDLE"  OBVIOUS
    <3>2. st \in {"PAD", "FCS", "IFG"} /\ ~src_ctl => rd_ptr = E[d + 1]
      BY <1>18 DEF ReadInv
    <3> QED  BY <3>1, <3>2, <1>39
  <2> QED  BY <2>1, <2>2, <2>3, <1>2, <1>3, <1>18 DEF ReadInv
<1>41. SentInv(D)'
  <2>1. ASSUME st \in {"DATA", "PAD", "FCS", "IFG"}, ~src_ctl
        PROVE  /\ D[d] = E[d] /\ D[d + 1] = E[d + 1] /\ d \in 0 .. n /\ d + 1 \in 0 .. n
               /\ Ref'.frames[d + 1] = F[d + 1]
    <3>1. st # "IDLE"  BY <2>1
    <3> QED  BY <3>1, <2>1, <1>24, <1>39
  <2>2. \A i \in 1 .. d : payloads[i] = Ref'.frames[i]
    <3> SUFFICES ASSUME NEW i \in 1 .. d PROVE payloads[i] = Ref'.frames[i]  OBVIOUS
    <3>1. i \in 1 .. n  BY <1>18
    <3>2. payloads[i] = F[i]  BY <1>18 DEF SentInv
    <3> QED  BY <3>1, <3>2, <1>24
  <2>3. ASSUME st = "DATA", ~src_ctl PROVE crc = Bytes(mem', D[d], dcnt)
    <3>1. crc = Bytes(mem, E[d], dcnt) /\ E[d] < rd_ptr /\ rd_ptr <= E[d + 1]
          /\ dcnt = rd_ptr - E[d] - 1
      BY <2>3, <1>18 DEF SentInv, ReadInv
    <3>2. D[d] = E[d] /\ d \in 0 .. n /\ d + 1 \in 0 .. n  BY <2>1, <2>3
    <3>3. PICK x, y, r, k \in Nat : /\ x = E[d] /\ y = E[d + 1] /\ r = rd_ptr /\ y <= l
                                    /\ k = dcnt
      BY <3>2, <1>17 DEF SafTypes
    <3>4. x < r /\ r <= y /\ k = r - x - 1  BY <3>1, <3>3
    <3>5. x + k \in Nat /\ x <= x + k /\ x + k <= l /\ (x + k) - x = k
      BY ONLY <3>4, <3>3, x \in Nat, y \in Nat, r \in Nat, k \in Nat, l \in Nat
    <3>6. PICK w \in Nat : w = x + k  BY <3>5
    <3>7. Bytes(Append(mem, [byte |-> z + 1, last |-> eff]), x, w - x) = Bytes(mem, x, w - x)
      BY <3>5, <3>6, <1>5, GrownSame DEF SafTypes
    <3> QED  BY <3>1, <3>2, <3>3, <3>5, <3>6, <3>7, <1>1
  <2>4. ASSUME st = "PAD", ~src_ctl
        PROVE  /\ D[d + 1] - D[d] <= dcnt
               /\ crc = PadTo(Bytes(mem', D[d], D[d + 1] - D[d]), dcnt)
    <3>1. /\ E[d + 1] - E[d] <= dcnt
          /\ crc = PadTo(Bytes(mem, E[d], E[d + 1] - E[d]), dcnt)
      BY <2>4, <1>18 DEF SentInv
    <3>2. D[d] = E[d] /\ D[d + 1] = E[d + 1] /\ d \in 0 .. n /\ d + 1 \in 0 .. n
      BY <2>1, <2>4
    <3>3. E[d] \in Nat /\ E[d + 1] \in Nat /\ E[d + 1] <= l /\ E[d] <= E[d + 1]
      <4>1. d <= d + 1  BY <3>2
      <4> QED  BY <3>2, <4>1, <1>10, <1>17
    <3>4. Bytes(Append(mem, [byte |-> z + 1, last |-> eff]), E[d], E[d + 1] - E[d])
          = Bytes(mem, E[d], E[d + 1] - E[d])
      BY <3>3, <1>5, GrownSame DEF SafTypes
    <3> QED  BY <3>1, <3>2, <3>4, <1>1
  <2>5. st \in {"FCS", "IFG"} /\ ~src_ctl => crc = Ref'.frames[d + 1]
    <3>1. st \in {"FCS", "IFG"} /\ ~src_ctl => crc = F[d + 1]  BY <1>18 DEF SentInv
    <3>2. st \in {"FCS", "IFG"} => st \in {"DATA", "PAD", "FCS", "IFG"}  OBVIOUS
    <3> QED  BY <2>1, <3>1, <3>2
  <2>6. /\ ~errors
        /\ st \in {"DATA", "PAD"} => Len(crc) = dcnt
        /\ st = "PAD" => dcnt < MIN_FRAME
        /\ st \in {"DATA", "PAD", "FCS", "IFG"} => Shown(wire, crc)
        /\ st \in {"DATA", "PAD", "FCS"} => Len(wire) = Len(crc) + 2
        /\ st = "IFG" => Len(wire) = Len(crc) + 3 /\ wire[Len(crc) + 3] = crc
    BY DEF SentInv
  <2> QED  BY <2>2, <2>3, <2>4, <2>5, <2>6, <1>2, <1>3, <1>18 DEF SentInv
<1> QED  BY <1>16, <1>37, <1>38, <1>40, <1>41

\* The writer's other steps, and everything that is beside the frames.
LEMMA AsideKeeps ==
  ASSUME SafTypes, NEW E, NEW c1 \in Nat, NEW c2 \in Nat, NEW c3 \in Nat, NEW w1 \in Nat,
         NEW w2 \in Nat, LayoutInv(E), CrossInv(E, c1, c2, c3, w1, w2), ReadInv(E, c3),
         SentInv(E),
         UNCHANGED <<stream, mem, frame_bytes, dropping, frame_wr, hot, hot_eof, wp_sync, fw_sync,
                     Saf!framer, Saf!monitor>>
  PROVE  /\ SafTypes' /\ LayoutInv(E)' /\ CrossInv(E, c1, c2, c3, w1, w2)'
         /\ ReadInv(E, c3)' /\ SentInv(E)'
<1>1. LayoutInv(E)'  BY LayoutSame
<1>2. CrossInv(E, c1, c2, c3, w1, w2)'  BY CrossSame
<1>3. ReadInv(E, c3)' /\ SentInv(E)'  BY FramerSame
<1>4. SafTypes'  BY DEF SafTypes, Saf!framer, Saf!monitor
<1> QED  BY <1>1, <1>2, <1>3, <1>4

\* Every step of the transmitter keeps the invariant.
LEMMA SafSteps ==
  ASSUME SafInv, [Saf!Next]_(Saf!vars)
  PROVE  SafInv'
<1>0. SafTypes  BY DEF SafInv
<1> PICK E : \E c1, c2, c3, w1, w2 \in Nat :
               /\ LayoutInv(E) /\ CrossInv(E, c1, c2, c3, w1, w2) /\ ReadInv(E, c3)
               /\ SentInv(E)
  BY DEF SafInv
<1> PICK c1 \in Nat, c2 \in Nat, c3 \in Nat, w1 \in Nat, w2 \in Nat :
           /\ LayoutInv(E) /\ CrossInv(E, c1, c2, c3, w1, w2) /\ ReadInv(E, c3)
           /\ SentInv(E)
  OBVIOUS
<1>1. ASSUME UNCHANGED <<stream, mem, frame_bytes, dropping, frame_wr, hot, hot_eof, wp_sync,
                         fw_sync, Saf!framer, Saf!monitor>>
      PROVE  SafInv'
  <2>1. /\ SafTypes' /\ LayoutInv(E)' /\ CrossInv(E, c1, c2, c3, w1, w2)'
        /\ ReadInv(E, c3)' /\ SentInv(E)'
    BY <1>0, <1>1, AsideKeeps
  <2> QED  BY <2>1 DEF SafInv
<1>2. ASSUME Saf!MediaStep, SafTypes', ReadInv(E, c3)', SentInv(E)' PROVE SafInv'
  <2>1. UNCHANGED <<stream, mem, frame_bytes, dropping, frame_wr, hot, hot_eof, wp_sync, fw_sync>>
    BY <1>2 DEF Saf!MediaStep, Saf!writer
  <2>2. LayoutInv(E)'  BY <2>1, LayoutSame
  <2>3. CrossInv(E, c1, c2, c3, w1, w2)'  BY <2>1, CrossSame
  <2> QED  BY <1>2, <2>2, <2>3 DEF SafInv
<1>3. ASSUME NEW last \in BOOLEAN, Saf!Accept(last) PROVE SafInv'
  <2>1. SafTypes' /\ \E D : /\ LayoutInv(D)' /\ CrossInv(D, c1, c2, c3, w1, w2)'
                            /\ ReadInv(D, c3)' /\ SentInv(D)'
    BY <1>0, <1>3, AcceptKeeps
  <2> QED  BY <2>1 DEF SafInv
<1>4. ASSUME NEW last \in BOOLEAN, Saf!DropTail(last) PROVE SafInv'
  <2>1. /\ SafTypes' /\ LayoutInv(E)' /\ CrossInv(E, c1, c2, c3, w1, w2)'
        /\ ReadInv(E, c3)' /\ SentInv(E)'
    BY <1>0, <1>4, DropKeeps
  <2> QED  BY <2>1 DEF SafInv
<1>5. CASE Saf!SyncRead  BY <1>1, <1>5 DEF Saf!SyncRead
<1>6. CASE Saf!CtlWrite  BY <1>1, <1>6 DEF Saf!CtlWrite, Saf!writer
<1>7. CASE Saf!Toggle  BY <1>1, <1>7 DEF Saf!Toggle, Saf!writer
<1>8. CASE Saf!SyncWrite
  <2>1. /\ SafTypes' /\ LayoutInv(E)' /\ ReadInv(E, c2)' /\ SentInv(E)'
        /\ \E d1, v1 \in Nat : CrossInv(E, d1, c1, c2, v1, w1)'
    BY <1>0, <1>8, SyncKeeps
  <2>2. PICK d1 \in Nat, v1 \in Nat : CrossInv(E, d1, c1, c2, v1, w1)'  BY <2>1
  <2> QED  BY <2>1, <2>2 DEF SafInv
<1>9. ASSUME NEW c \in BOOLEAN, Saf!Start(c) PROVE SafInv'
  <2>1. SafTypes' /\ ReadInv(E, c3)' /\ SentInv(E)'  BY <1>0, <1>9, StartKeeps
  <2> QED  BY <1>2, <1>9, <2>1 DEF Saf!Start
<1>10. CASE Saf!Preamble
  <2>1. SafTypes' /\ ReadInv(E, c3)' /\ SentInv(E)'  BY <1>0, <1>10, PreambleKeeps
  <2> QED  BY <1>2, <1>10, <2>1 DEF Saf!Preamble
<1>11. CASE Saf!Data
  <2>1. SafTypes' /\ ReadInv(E, c3)' /\ SentInv(E)'  BY <1>0, <1>11, DataKeeps
  <2> QED  BY <1>2, <1>11, <2>1 DEF Saf!Data
<1>12. CASE Saf!PadByte
  <2>1. SafTypes' /\ ReadInv(E, c3)' /\ SentInv(E)'  BY <1>0, <1>12, PadKeeps
  <2> QED  BY <1>2, <1>12, <2>1 DEF Saf!PadByte
<1>13. CASE Saf!Fcs
  <2>1. SafTypes' /\ ReadInv(E, c3)' /\ SentInv(E)'  BY <1>0, <1>13, FcsKeeps
  <2> QED  BY <1>2, <1>13, <2>1 DEF Saf!Fcs
<1>14. CASE Saf!Ifg
  <2>1. SafTypes' /\ ReadInv(E, c3)' /\ SentInv(E)'  BY <1>0, <1>14, IfgKeeps
  <2> QED  BY <1>2, <1>14, <2>1 DEF Saf!Ifg
<1>15. CASE UNCHANGED Saf!vars  BY <1>1, <1>15 DEF Saf!vars, Saf!writer
<1> QED
  BY <1>3, <1>4, <1>5, <1>6, <1>7, <1>8, <1>9, <1>10, <1>11, <1>12, <1>13, <1>14, <1>15
     DEF Saf!Next, Saf!Source, Saf!Framer

\* Before the first byte.
LEMMA SafStarts ==
  ASSUME Saf!Init
  PROVE  SafInv
<1> DEFINE E == [k \in 0 .. 0 |-> 0]
<1>1. /\ stream = <<>> /\ mem = <<>> /\ frame_bytes = 0 /\ dropping = FALSE /\ frame_wr = 0
      /\ hot = FALSE /\ hot_eof = FALSE /\ wp_sync = <<0, 0>> /\ fw_sync = <<0, 0, 0>>
      /\ st = "IDLE" /\ rd_ptr = 0 /\ frame_rd = 0 /\ src_ctl = FALSE
      /\ cur = [byte |-> Saf!Pad, last |-> FALSE] /\ dcnt = 0 /\ crc = <<>>
      /\ wire = <<>> /\ payloads = <<>> /\ errors = FALSE
  BY DEF Saf!Init
<1>2. [byte |-> Saf!Pad, last |-> FALSE] \in Cell  BY DEF Cell, Saf!Pad
<1>3. SafTypes
  <2>1. <<>> \in Seq(BOOLEAN) /\ <<>> \in Seq(Cell) /\ <<>> \in Seq(Int)
        /\ <<>> \in Seq(Seq(Int)) /\ <<>> \in Seq(Sym)
    OBVIOUS
  <2>2. cur \in Cell  BY <1>1, <1>2
  <2>3. /\ stream \in Seq(BOOLEAN) /\ mem \in Seq(Cell) /\ crc \in Seq(Int)
        /\ payloads \in Seq(Seq(Int)) /\ wire \in Seq(Sym)
    BY <1>1, <2>1
  <2>4. frame_bytes \in Nat /\ rd_ptr \in Nat /\ dcnt \in Nat  BY <1>1
  <2>5. dropping \in BOOLEAN /\ hot \in BOOLEAN /\ hot_eof \in BOOLEAN /\ src_ctl \in BOOLEAN
    BY <1>1
  <2> QED  BY <2>2, <2>3, <2>4, <2>5 DEF SafTypes
<1>4. /\ Folds(stream) /\ Ref = [frames |-> <<>>, cur |-> <<>>, dropping |-> FALSE]
      /\ Ref.frames = <<>> /\ Len(Ref.frames) = 0 /\ At = 0
  BY <1>1, FoldBegins DEF Ref, Unread, At
<1>5. 0 \in 0 .. 0 /\ (\A k \in 0 .. 0 : k = 0) /\ 1 .. 0 = {} /\ E[0] = 0
  OBVIOUS
<1>6. E \in [0 .. 0 -> 0 .. 0]  BY <1>5
<1>7. 0 % Saf!Counts = 0
  <2>1. PICK m \in Nat \ {0} : m = Saf!Counts  BY SafAssumption DEF Saf!Counts
  <2>2. 0 % m = 0  OBVIOUS
  <2> QED  BY <2>1, <2>2
<1> HIDE DEF E
<1>8. LayoutInv(E)
  <2>1. Bytes(mem, 0, 0) = <<>>  BY <1>5 DEF Bytes
  <2>2. Len(mem) = 0 /\ (0 + 1) .. 0 = {}  BY <1>1
  <2>3. Ref = [frames |-> Ref.frames, dropping |-> dropping,
               cur |-> Bytes(mem, E[Len(Ref.frames)], frame_bytes)]
    BY <1>1, <1>4, <1>5, <2>1
  <2>4. /\ E \in [0 .. Len(Ref.frames) -> 0 .. Len(mem)] /\ E[0] = 0
        /\ \A i, j \in 0 .. Len(Ref.frames) : i <= j => E[i] <= E[j]
        /\ \A k \in 1 .. Len(Ref.frames) : Framed(mem, E[k - 1], E[k], Ref.frames[k])
    BY <1>4, <1>5, <1>6, <2>2
  <2>5. /\ E[Len(Ref.frames)] + frame_bytes = Len(mem)
        /\ \A p \in E[Len(Ref.frames)] + 1 .. Len(mem) : ~mem[p].last
    BY <1>1, <1>4, <1>5, <2>2
  <2>6. Ref.frames \in Seq(Seq(Int)) /\ frame_wr = Len(Ref.frames) % Saf!Counts
    BY <1>1, <1>4, <1>7
  <2> QED  BY <1>1, <1>4, <2>3, <2>4, <2>5, <2>6 DEF LayoutInv
<1>9. CrossInv(E, 0, 0, 0, 0, 0)
  <2>1. Len(mem) = 0  BY <1>1
  <2> QED  BY <1>1, <1>4, <1>5, <1>7, <2>1 DEF CrossInv
<1>10. ReadInv(E, 0)
  BY <1>1, <1>4, <1>5, <1>7 DEF ReadInv
<1>11. SentInv(E)
  BY <1>1, <1>4, <1>5 DEF SentInv
<1>12. 0 \in Nat  OBVIOUS
<1> QED  BY <1>3, <1>8, <1>9, <1>10, <1>11, <1>12 DEF SafInv

\* What was sent is the beginning of what the reference lists.
LEMMA SafShows ==
  ASSUME SafInv
  PROVE  WireIsReference
<1>0. SafTypes  BY DEF SafInv
<1> PICK E : \E c1, c2, c3, w1, w2 \in Nat :
               /\ LayoutInv(E) /\ CrossInv(E, c1, c2, c3, w1, w2) /\ ReadInv(E, c3)
               /\ SentInv(E)
  BY DEF SafInv
<1> PICK c1 \in Nat, c2 \in Nat, c3 \in Nat, w1 \in Nat, w2 \in Nat :
           /\ LayoutInv(E) /\ CrossInv(E, c1, c2, c3, w1, w2) /\ ReadInv(E, c3)
           /\ SentInv(E)
  OBVIOUS
<1>1. Saf!saf_expected = Ref.frames  BY <1>0, ExpectedIs DEF SafTypes, Ref
<1>2. PICK n \in Nat, d \in Nat : n = Len(Ref.frames) /\ d = Len(payloads) /\ d <= n
  <2>1. {c1, c2, c3, At} \subseteq 0 .. Len(Ref.frames) /\ At \in Nat /\ Len(Ref.frames) \in Nat
    BY <1>0, Places
  <2> QED  BY <2>1 DEF At
<1>3. payloads \in Seq(Seq(Int)) /\ Ref.frames \in Seq(Seq(Int))
  BY <1>0 DEF SafTypes, LayoutInv
<1> DEFINE u == SubSeq(Ref.frames, 1, d)
<1>4. u = payloads
  <2>1. \A i \in 1 .. d : Ref.frames[i] \in Seq(Int)
    <3> SUFFICES ASSUME NEW i \in 1 .. d PROVE Ref.frames[i] \in Seq(Int)  OBVIOUS
    <3>1. i \in 1 .. Len(Ref.frames)  BY <1>2
    <3> QED  BY <1>3, <3>1, ElementOfSeq
  <2>2. /\ u \in Seq(Seq(Int)) /\ Len(u) = IF 1 <= d THEN d - 1 + 1 ELSE 0
        /\ \A i \in 1 .. d - 1 + 1 : u[i] = Ref.frames[1 + i - 1]
    <3>1. PICK r \in Seq(Seq(Int)) : r = Ref.frames  BY <1>3
    <3>2. \A i \in 1 .. d : r[i] \in Seq(Int)  BY <2>1, <3>1
    <3>3. /\ SubSeq(r, 1, d) \in Seq(Seq(Int))
          /\ Len(SubSeq(r, 1, d)) = IF 1 <= d THEN d - 1 + 1 ELSE 0
          /\ \A i \in 1 .. d - 1 + 1 : SubSeq(r, 1, d)[i] = r[1 + i - 1]
      BY ONLY <3>2, SubSeqProperties, d \in Int, 1 \in Int
    <3> QED  BY <3>1, <3>3
  <2> HIDE DEF u
  <2>3. d - 1 + 1 = d /\ (IF 1 <= d THEN d - 1 + 1 ELSE 0) = d /\ \A i \in 1 .. d : 1 + i - 1 = i
    OBVIOUS
  <2>4. Len(u) = d /\ \A i \in 1 .. d : u[i] = Ref.frames[i]  BY <2>2, <2>3
  <2>5. \A i \in 1 .. d : payloads[i] = Ref.frames[i]  BY <1>2 DEF SentInv, At
  <2> QED  BY <1>2, <1>3, <2>2, <2>4, <2>5, SeqEqual
<1>5. Len(payloads) <= Len(Ref.frames) /\ SubSeq(Ref.frames, 1, Len(payloads)) = payloads
  BY <1>2, <1>4
<1>6. Saf!IsPrefix(payloads, Ref.frames)
  BY <1>5 DEF Saf!IsPrefix
<1>7. ~errors  BY DEF SentInv
<1> QED  BY <1>1, <1>6, <1>7 DEF WireIsReference, Saf!WireIsReference

\* In the three subjects side by side the transmitter takes its own steps, or none.
LEMMA SafRuns == Spec => Saf!Init /\ [][Saf!Next]_(Saf!vars)
<1>1. Init => Saf!Init  BY DEF Init
<1>2. [Next]_allVars => [Saf!Next]_(Saf!vars)
  <2>1. CASE RunSaf  BY <2>1 DEF RunSaf, SafStep
  <2>2. ASSUME UNCHANGED safVars PROVE UNCHANGED Saf!vars
    BY <2>2 DEF safVars, Saf!vars, Saf!writer, Saf!framer, Saf!monitor
  <2>3. CASE RunCsum  BY <2>2, <2>3 DEF RunCsum
  <2>4. CASE RunRun  BY <2>2, <2>4 DEF RunRun
  <2>5. CASE UNCHANGED allVars  BY <2>2, <2>5 DEF allVars
  <2> QED  BY <2>1, <2>3, <2>4, <2>5 DEF Next
<1> QED  BY <1>1, <1>2, PTL DEF Spec

\* The frames on the wire are the ones the reference model of the bench predicts for the
\* bytes sent so far, in order and byte by byte, and each has its preamble and its FCS
\* (mii_tx_saf.v 113-161, 270-313, 375-520; lib/model.py 22-68).
THEOREM WireAsPredicted == Spec => []WireIsReference
<1>1. Saf!Init => SafInv  BY SafStarts
<1>2. SafInv /\ [Saf!Next]_(Saf!vars) => SafInv'  BY SafSteps
<1>3. SafInv => WireIsReference  BY SafShows
<1> QED  BY <1>1, <1>2, <1>3, SafRuns, PTL

-----------------------------------------------------------------------------
(* The runners.                                                             *)

Hdl == {"verilog", "vhdl", "both"}

Distinct(s) == \A k, l \in DOMAIN s : k # l => s[k] # s[l]

LEMMA CardinalityIs == \A S : Run!Cardinality(S) = Cardinality(S)
  BY DEF Run!Cardinality, Cardinality

\* The sorted list of a finite set has each of its elements, once.
LEMMA SortedIs ==
  ASSUME NEW S \in SUBSET Nat, IsFiniteSet(S)
  PROVE  /\ Run!Sorted(S) \in Seq(S)
         /\ \A m \in S : \E k \in 1 .. Len(Run!Sorted(S)) : Run!Sorted(S)[k] = m
         /\ Distinct(Run!Sorted(S))
<1> DEFINE c == Cardinality(S)
           Upto(m) == {x \in S : x <= m}
           R == [m \in S |-> Run!Rank(S, m)]
           q == Run!Sorted(S)
<1>1. c \in Nat  BY FS_CardinalityType
<1>2. ASSUME NEW m \in S PROVE IsFiniteSet(Upto(m)) /\ Cardinality(Upto(m)) \in 1 .. c
  <2>1. Upto(m) \in SUBSET S /\ m \in Upto(m)  OBVIOUS
  <2>2. IsFiniteSet(Upto(m)) /\ Cardinality(Upto(m)) <= c  BY <2>1, FS_Subset
  <2>3. Cardinality(Upto(m)) \in Nat  BY <2>2, FS_CardinalityType
  <2>4. Cardinality(Upto(m)) # 0  BY <2>1, <2>2, FS_EmptySet
  <2> QED  BY <1>1, <2>2, <2>3, <2>4
<1>3. ASSUME NEW a \in S, NEW b \in S, a < b PROVE Cardinality(Upto(a)) # Cardinality(Upto(b))
  <2>1. a \in Nat /\ b \in Nat  OBVIOUS
  <2>2. \A x \in S : x \in Nat /\ (x <= a => x <= b)  BY <1>3, <2>1
  <2>3. Upto(a) \in SUBSET Upto(b)  BY <2>2
  <2>4. b \in Upto(b) /\ b \notin Upto(a)  BY <1>3, <2>1
  <2>5. PICK A, B : A = Upto(a) /\ B = Upto(b)  OBVIOUS
  <2>6. A \in SUBSET B /\ A # B /\ IsFiniteSet(B)  BY <1>2, <2>3, <2>4, <2>5
  <2>7. Cardinality(A) # Cardinality(B)  BY <2>6, FS_Subset
  <2> QED  BY <2>5, <2>7
<1>4. \A m \in S : R[m] = Cardinality(Upto(m))
  <2> SUFFICES ASSUME NEW m \in S PROVE R[m] = Cardinality(Upto(m))  OBVIOUS
  <2>1. R[m] = Run!Rank(S, m)  OBVIOUS
  <2>2. Run!Rank(S, m) = Cardinality(Upto(m))  BY CardinalityIs DEF Run!Rank
  <2> QED  BY <2>1, <2>2
<1> HIDE DEF Upto, c, R, q
<1>5. \A a, b \in S : a # b => R[a] # R[b]
  <2> SUFFICES ASSUME NEW a \in S, NEW b \in S, a # b PROVE R[a] # R[b]  OBVIOUS
  <2>1. a < b \/ b < a  OBVIOUS
  <2> QED  BY <1>3, <1>4, <2>1
<1>6. R \in Injection(S, 1 .. c)
  <2>1. R \in [S -> 1 .. c]
    <3>1. \A m \in S : R[m] \in 1 .. c  BY <1>2, <1>4
    <3>2. R = [m \in S |-> R[m]]  BY DEF R
    <3> QED  BY <3>1, <3>2
  <2> QED  BY <1>5, <2>1 DEF Injection, IsInjective
<1>7. IsFiniteSet(1 .. c) /\ Cardinality(1 .. c) = c
  <2>1. 1 \in Int /\ c \in Int  BY <1>1
  <2>2. IsFiniteSet(1 .. c) /\ Cardinality(1 .. c) = IF 1 > c THEN 0 ELSE c - 1 + 1
    BY <2>1, FS_Interval
  <2> QED  BY <1>1, <2>2
<1>8. R \in Surjection(S, 1 .. c)
  BY <1>6, <1>7, FS_Injection DEF c
<1>9. ASSUME NEW k \in 1 .. c PROVE \E m \in S : R[m] = k
  <2>1. \A t \in 1 .. c : \E m \in S : R[m] = t  BY <1>8 DEF Surjection
  <2> QED  BY <2>1
<1>10. q = [k \in 1 .. c |-> CHOOSE n \in S : Run!Rank(S, n) = k]
  BY CardinalityIs DEF q, c, Run!Sorted
<1>11. ASSUME NEW k \in 1 .. c PROVE q[k] \in S /\ R[q[k]] = k
  <2>1. \E n \in S : Run!Rank(S, n) = k  BY <1>9 DEF R
  <2>2. q[k] = CHOOSE n \in S : Run!Rank(S, n) = k  BY <1>10
  <2>3. q[k] \in S /\ Run!Rank(S, q[k]) = k  BY <2>1, <2>2
  <2> QED  BY <2>3 DEF R
<1>12. q \in [1 .. c -> S]
  <2>1. \A k \in 1 .. c : q[k] \in S  BY <1>11
  <2> QED  BY <1>10, <2>1
<1>13. q \in Seq(S) /\ Len(q) = c /\ DOMAIN q = 1 .. c
  BY <1>1, <1>12
<1>14. \A m \in S : \E k \in 1 .. c : q[k] = m
  <2> SUFFICES ASSUME NEW m \in S PROVE \E k \in 1 .. c : q[k] = m  OBVIOUS
  <2>1. R[m] \in 1 .. c  BY <1>2, <1>4
  <2>2. q[R[m]] \in S /\ R[q[R[m]]] = R[m]  BY <1>11, <2>1
  <2> QED  BY <1>5, <2>1, <2>2
<1>15. Distinct(q)
  BY <1>11, <1>13 DEF Distinct
<1> QED  BY <1>13, <1>14, <1>15 DEF q

Early == {"main", "discover", "list", "exit2"}
Ran   == {"single", "pool", "leaving", "report", "exit0", "exit1"}

Names == {p[1] : p \in suites}

\* The suites are those of the files looked at, less the files that were skipped.
LookInv ==
  /\ files \in Seq([suites : SUBSET Nat, readable : BOOLEAN])
  /\ \A f \in 1 .. Len(files) : IsFiniteSet(files[f].suites)
  /\ looked \in 0 .. Len(files)
  /\ pc = "main" => files = <<>> /\ looked = 0 /\ suites = {} /\ broken = {}
  /\ Names \in SUBSET Nat /\ IsFiniteSet(Names)
  /\ \A p \in suites : \E f \in 1 .. looked : \E m \in files[f].suites : p = <<m, f>>
  /\ broken = {} => \A f \in 1 .. looked : \A m \in files[f].suites : <<m, f>> \in suites
  /\ pc \in Ran \cup {"list"} => looked = Len(files)

\* A (name, language) is listed: as a job, or as skipped.
Listed(m, h) == \/ \E i \in 1 .. Len(jobs) : jobs[i] = <<m, h>>
                \/ h = "vhdl" /\ m \in NoVhdl \cap skipped

\* The places of the list the runner is past.
Past(k, l) == k < at \/ (k = at /\ l < lang)

ToRun == IF named = <<>> THEN Run!Known ELSE Run!Elements(named)

\* The names are all in the list, and the runner is at a place of it.
ToDo ==
  /\ todo \in Seq(Nat)
  /\ at \in 1 .. Len(todo) + 1 /\ lang \in 1 .. Len(hdls)
  /\ at = Len(todo) + 1 => lang = 1
  /\ \A m \in ToRun : \E k \in 1 .. Len(todo) : todo[k] = m
  /\ Distinct(named) => Distinct(todo)

\* What it is past is listed, and nothing else.
Jobs ==
  /\ jobs \in Seq(Nat \X Hdl)
  /\ \A k \in 1 .. Len(todo), l \in 1 .. Len(hdls) : Past(k, l) => Listed(todo[k], hdls[l])
  /\ \A i \in 1 .. Len(jobs) : \E k \in 1 .. Len(todo), l \in 1 .. Len(hdls) :
       Past(k, l) /\ jobs[i] = <<todo[k], hdls[l]>>
  /\ Distinct(todo) => Distinct(jobs)

ListInv ==
  /\ \/ runner = "cocotb" /\ hdls \in {<<"verilog">>, <<"vhdl">>, <<"verilog", "vhdl">>}
     \/ runner = "parity" /\ hdls = <<"both">>
  /\ named \in Seq(Nat)
  /\ pc \in {"main", "discover"} => at = 1 /\ lang = 1 /\ jobs = <<>> /\ skipped = {}
  /\ pc = "exit2" => jobs = <<>>
  /\ pc \in Ran \cup {"list"} => ToDo /\ Jobs
  /\ pc \in Ran => at = Len(todo) + 1

\* A job that a thread is at.
Active(i) == i \in 1 .. started /\ i \notin raised /\ Len(codes[i]) # Run!Commands

Code == [rc : 0 .. 1, of : Nat]

PoolTypes ==
  /\ codes \in [1 .. Len(jobs) -> Seq(Code)]
  /\ owner \in [1 .. Len(jobs) -> Nat]
  /\ started \in 0 .. Len(jobs) /\ results \in 0 .. started
  /\ \A i \in 1 .. Len(jobs) : i > started => codes[i] = <<>>
  /\ raised \in SUBSET (1 .. started)
  /\ \A i \in busy : Active(i)
  /\ \A i \in 1 .. results : i \notin raised /\ Len(codes[i]) = Run!Commands

PoolInv ==
  /\ pc \in Early => started = 0 /\ results = 0 /\ busy = {} /\ raised = {} /\ codes = <<>>
  /\ pc \in Ran => PoolTypes
  /\ pc = "single" => runner = "cocotb" /\ Len(jobs) = 1 /\ started = 0 /\ busy = {} /\ raised = {}
  /\ pc \in {"report", "exit0"} => results = Len(jobs)
  /\ pc = "leaving" => raised # {}
  /\ pc = "exit0" => (\A i \in 1 .. Len(jobs) : ~Run!Failed(i)) /\ ~Run!BrokenFails
  /\ pc = "exit1" => /\ \/ \E i \in 1 .. Len(jobs) : Run!Failed(i) \/ i \in raised
                        \/ Run!BrokenFails
                     /\ \A i \in 1 .. started : ~Active(i)

\* One at a time, or apart from each other.
Alone == workers <= 1 \/ Run!Apart

OwnInv ==
  /\ workers \in Int
  /\ (pc \in Ran /\ workers <= 1) => \A i, j : Active(i) /\ Active(j) => i = j
  /\ (pc \in Ran /\ Alone) =>
       /\ \A i \in busy : owner[i] = i
       /\ \A i \in 1 .. Len(jobs) : \A k \in 1 .. Len(codes[i]) : codes[i][k].of = i

RunInv == /\ pc \in Early \cup Ran
          /\ LookInv /\ ListInv /\ PoolInv /\ OwnInv

\* What the actions after the list leave alone.
Aside == UNCHANGED <<runner, files, named, hdls, workers, looked, suites, broken, todo, at, lang,
                     jobs, skipped>>

\* No language is asked for twice, and one at most is not VHDL.
LEMMA HdlsAre ==
  ASSUME hdls \in {<<"verilog">>, <<"vhdl">>, <<"verilog", "vhdl">>, <<"both">>}
  PROVE  /\ Len(hdls) \in Nat \ {0} /\ \A k \in 1 .. Len(hdls) : hdls[k] \in Hdl
         /\ \A k, l \in 1 .. Len(hdls) : k # l => hdls[k] # hdls[l]
         /\ \A k, l \in 1 .. Len(hdls) :
              hdls[k] # "vhdl" /\ hdls[l] # "vhdl" => hdls[k] = hdls[l]
         /\ \A k, l \in 1 .. Len(hdls) :
              hdls[k] = "vhdl" /\ hdls[l] # "vhdl" => hdls[l] = "verilog"
<1>1. /\ 1 \in Nat \ {0} /\ 2 \in Nat \ {0}
      /\ "verilog" \in Hdl /\ "vhdl" \in Hdl /\ "both" \in Hdl
      /\ "verilog" # "vhdl" /\ "both" # "vhdl"
  <2>1. 1 \in Nat \ {0} /\ 2 \in Nat \ {0}  OBVIOUS
  <2>2. "verilog" \in Hdl /\ "vhdl" \in Hdl /\ "both" \in Hdl  BY DEF Hdl
  <2>3. "verilog" # "vhdl" /\ "both" # "vhdl"  OBVIOUS
  <2> QED  BY <2>1, <2>2, <2>3
<1>2. CASE hdls = <<"verilog", "vhdl">>
  <2>1. Len(hdls) = 2 /\ hdls[1] = "verilog" /\ hdls[2] = "vhdl"  BY <1>2
  <2>2. \A k \in 1 .. 2 : k = 1 \/ k = 2  OBVIOUS
  <2> QED  BY ONLY <1>1, <2>1, <2>2
<1>3. ASSUME NEW x \in Hdl, hdls = <<x>>
      PROVE  Len(hdls) = 1 /\ \A k \in 1 .. Len(hdls) : k = 1 /\ hdls[k] = x
  <2>1. Len(hdls) = 1 /\ hdls[1] = x  BY <1>3
  <2>2. \A k \in 1 .. 1 : k = 1  OBVIOUS
  <2> QED  BY <2>1, <2>2
<1>4. CASE hdls = <<"verilog">>
  <2>1. Len(hdls) = 1 /\ \A k \in 1 .. Len(hdls) : k = 1 /\ hdls[k] = "verilog"
    BY <1>1, <1>3, <1>4
  <2> QED  BY ONLY <1>1, <2>1
<1>5. CASE hdls = <<"vhdl">>
  <2>1. Len(hdls) = 1 /\ \A k \in 1 .. Len(hdls) : k = 1 /\ hdls[k] = "vhdl"
    BY <1>1, <1>3, <1>5
  <2> QED  BY ONLY <1>1, <2>1
<1>6. CASE hdls = <<"both">>
  <2>1. Len(hdls) = 1 /\ \A k \in 1 .. Len(hdls) : k = 1 /\ hdls[k] = "both"
    BY <1>1, <1>3, <1>6
  <2> QED  BY ONLY <1>1, <2>1
<1> QED  BY <1>2, <1>4, <1>5, <1>6

\* Directory, of a suite and a language.
VhdlDir(m, h) == IF h # "vhdl" THEN <<"", m>>
                 ELSE IF \E p \in VhdlOf : p[2] = m
                      THEN <<"", (CHOOSE p \in VhdlOf : p[2] = m)[1]>>
                 ELSE <<"vhdl_", m>>

\* The VHDL directories are different, and one is a Verilog directory only if
\* the names say so.
LEMMA VhdlDirs ==
  ASSUME NEW a \in Nat, NEW b \in Nat
  PROVE  /\ a # b => VhdlDir(a, "vhdl") # VhdlDir(b, "vhdl")
         /\ VhdlDir(a, "vhdl") = VhdlDir(b, "verilog") => <<b, a>> \in VhdlOf
<1> DEFINE of(m) == CHOOSE p \in VhdlOf : p[2] = m
           has(m) == \E p \in VhdlOf : p[2] = m
<1>1. \A m : has(m) => of(m) \in VhdlOf /\ of(m)[2] = m  OBVIOUS
<1>2. /\ \A m : VhdlDir(m, "vhdl") = IF has(m) THEN <<"", of(m)[1]>> ELSE <<"vhdl_", m>>
      /\ VhdlDir(b, "verilog") = <<"", b>>
  BY DEF VhdlDir
<1> HIDE DEF of, has
<1>3. \A x, y : <<"", x>> # <<"vhdl_", y>>  OBVIOUS
<1>4. a # b => VhdlDir(a, "vhdl") # VhdlDir(b, "vhdl")
  <2> SUFFICES ASSUME a # b PROVE VhdlDir(a, "vhdl") # VhdlDir(b, "vhdl")  OBVIOUS
  <2>1. CASE has(a) /\ has(b)
    <3>1. PICK p \in VhdlOf, q \in VhdlOf : p = of(a) /\ q = of(b) /\ p[2] = a /\ q[2] = b
      BY <1>1, <2>1
    <3>2. p[1] # q[1]  BY <3>1, RunAssumption
    <3>3. VhdlDir(a, "vhdl") = <<"", p[1]>> /\ VhdlDir(b, "vhdl") = <<"", q[1]>>
      BY <1>2, <2>1, <3>1
    <3>4. PICK x, y : x = p[1] /\ y = q[1]  OBVIOUS
    <3>5. <<"", x>> # <<"", y>>  BY <3>2, <3>4
    <3> QED  BY <3>3, <3>4, <3>5
  <2>2. CASE ~has(a) /\ ~has(b)
    <3>1. VhdlDir(a, "vhdl") = <<"vhdl_", a>> /\ VhdlDir(b, "vhdl") = <<"vhdl_", b>>
      BY <1>2, <2>2
    <3>2. <<"vhdl_", a>> # <<"vhdl_", b>>  OBVIOUS
    <3> QED  BY <3>1, <3>2
  <2>3. CASE has(a) /\ ~has(b)  BY <1>2, <1>3, <2>3
  <2>4. CASE ~has(a) /\ has(b)  BY <1>2, <1>3, <2>4
  <2> QED  BY <2>1, <2>2, <2>3, <2>4
<1>5. ASSUME VhdlDir(a, "vhdl") = VhdlDir(b, "verilog") PROVE <<b, a>> \in VhdlOf
  <2>1. has(a)
    <3> SUFFICES ASSUME ~has(a) PROVE FALSE  OBVIOUS
    <3>1. VhdlDir(a, "vhdl") = <<"vhdl_", a>> /\ VhdlDir(b, "verilog") = <<"", b>>  BY <1>2
    <3>2. <<"", b>> # <<"vhdl_", a>>  BY <1>3
    <3> QED  BY <1>5, <3>1, <3>2
  <2>2. of(a)[1] = b /\ of(a)[2] = a /\ of(a) \in VhdlOf
    <3>1. PICK x : x = of(a)[1]  OBVIOUS
    <3>2. VhdlDir(a, "vhdl") = <<"", x>> /\ VhdlDir(b, "verilog") = <<"", b>>
      BY <1>2, <2>1, <3>1
    <3>3. <<"", x>> = <<"", b>> => x = b  OBVIOUS
    <3> QED  BY <1>1, <1>5, <2>1, <3>1, <3>2, <3>3
  <2>3. of(a) \in Nat \X Nat  BY <2>2, RunAssumption
  <2>4. of(a) = <<b, a>>  BY <2>2, <2>3
  <2> QED  BY <2>2, <2>4
<1> QED  BY <1>4, <1>5

LEMMA RunStarts == Run!Init => RunInv
<1> SUFFICES ASSUME Run!Init PROVE RunInv  OBVIOUS
<1>1. /\ pc = "main" /\ runner = "cocotb" /\ files = <<>> /\ named = <<>>
      /\ hdls = <<"verilog">> /\ workers = 1 /\ looked = 0 /\ suites = {} /\ broken = {}
      /\ at = 1 /\ lang = 1 /\ jobs = <<>> /\ skipped = {} /\ started = 0 /\ busy = {}
      /\ codes = <<>> /\ raised = {} /\ results = 0
  BY DEF Run!Init
<1>2. Names = {} /\ IsFiniteSet(Names)  BY <1>1, FS_EmptySet DEF Names
<1>3. <<>> \in Seq([suites : SUBSET Nat, readable : BOOLEAN]) /\ <<>> \in Seq(Nat) /\ Len(<<>>) = 0
  OBVIOUS
<1>4. 1 .. 0 = {} /\ 0 \in 0 .. 0  OBVIOUS
<1>5. LookInv  BY <1>1, <1>2, <1>3, <1>4 DEF LookInv, Ran
<1>6. ListInv  BY <1>1, <1>3 DEF ListInv, Ran
<1>7. PoolInv  BY <1>1 DEF PoolInv, Ran
<1>8. OwnInv  BY <1>1 DEF OwnInv, Ran
<1> QED  BY <1>1, <1>5, <1>6, <1>7, <1>8 DEF RunInv, Early

\* Only the first actions change what is to run.
LEMMA AsideKeepsList ==
  ASSUME LookInv, ListInv, Aside, pc \in Ran \cup {"list"}, pc' \in Ran \cup {"list"},
         pc' = pc \/ at = Len(todo) + 1
  PROVE  LookInv' /\ ListInv'
<1>1. /\ UNCHANGED <<runner, files, named, hdls, looked, suites, broken, todo, at, lang, jobs,
                     skipped>>
      /\ pc' \notin {"main", "discover", "exit2"}
      /\ pc \notin {"main", "discover", "exit2"}
  BY DEF Aside, Ran
<1>2. LookInv'  BY <1>1 DEF LookInv, Names
<1>3. ToDo /\ Jobs  BY DEF ListInv
<1>4. ToRun' = ToRun  BY <1>1 DEF ToRun, Run!Known, Run!Elements
<1>5. /\ Distinct(named)' <=> Distinct(named)
      /\ Distinct(todo)' <=> Distinct(todo)
      /\ Distinct(jobs)' <=> Distinct(jobs)
  BY <1>1 DEF Distinct
<1>6. ToDo'  BY <1>1, <1>3, <1>4, <1>5 DEF ToDo
<1>7. \A k, l : Past(k, l)' <=> Past(k, l)  BY <1>1 DEF Past
<1>8. \A k \in 1 .. Len(todo'), l \in 1 .. Len(hdls') : Past(k, l)' => Listed(todo[k], hdls[l])'
  <2> SUFFICES ASSUME NEW k \in 1 .. Len(todo), NEW l \in 1 .. Len(hdls), Past(k, l)
               PROVE  Listed(todo[k], hdls[l])'
    BY <1>1, <1>7
  <2>1. Listed(todo[k], hdls[l])  BY <1>3 DEF Jobs
  <2> QED  BY <1>1, <2>1 DEF Listed
<1>9. Jobs'  BY <1>1, <1>3, <1>5, <1>7, <1>8 DEF Jobs
<1>10. pc' \in Ran => at = Len(todo) + 1
  <2>1. pc \in Ran => at = Len(todo) + 1  BY DEF ListInv
  <2> QED  BY <2>1 DEF Ran
<1>11. ListInv'  BY <1>1, <1>6, <1>9, <1>10 DEF ListInv
<1> QED  BY <1>2, <1>11

\* The same, for the jobs.
LEMMA AsideKeepsJobs ==
  ASSUME Aside
  PROVE  /\ Run!Commands' = Run!Commands /\ Run!Apart' = Run!Apart /\ Alone' = Alone
         /\ \A i : Run!Directory(i)' = Run!Directory(i)
<1>1. UNCHANGED <<runner, named, workers, jobs>>  BY DEF Aside
<1> QED  BY <1>1 DEF Run!Commands, Run!Apart, Alone, Run!Directory, Run!Elements

LEMMA RunningIs ==
  /\ \A i : i \in Run!Running <=> Active(i)
  /\ \A i : Run!Over(i) <=> i \in raised \/ Len(codes[i]) = Run!Commands
  BY DEF Run!Running, Run!Over, Active

LEMMA CommandsAre ==
  Run!Commands \in Nat /\ (runner = "cocotb" => Run!Commands = 1)
  BY RunAssumption DEF Run!Commands

\* The command line.
LEMMA MainKeeps ==
  ASSUME RunInv, pc = "main", pc' = "discover",
         UNCHANGED <<looked, suites, broken, todo, at, lang, jobs, skipped, started, owner, busy,
                     codes, raised, results>>,
         \/ /\ runner' = "cocotb" /\ hdls' \in {<<"verilog">>, <<"vhdl">>, <<"verilog", "vhdl">>}
            /\ files' \in FileSets
         \/ runner' = "parity" /\ hdls' = <<"both">> /\ files' = files,
         named' \in NameLists, workers' \in 0 .. MaxJobs
  PROVE  RunInv'
<1>0. LookInv /\ ListInv /\ PoolInv /\ pc \in Early /\ pc \notin Ran \cup {"list"}
  BY DEF RunInv, Early, Ran
<1>1. pc' \in Early /\ pc' \notin Ran \cup {"list"} /\ pc' # "main" /\ pc' # "exit2"
  BY DEF Early, Ran
<1>2. LookInv'
  <2>1. /\ looked = 0 /\ suites = {} /\ broken = {} /\ files = <<>>
        /\ Names \in SUBSET Nat /\ IsFiniteSet(Names) /\ Names' = Names
    BY <1>0 DEF LookInv, Names
  <2>2. /\ files' \in Seq([suites : SUBSET Nat, readable : BOOLEAN])
        /\ \A f \in 1 .. Len(files') : IsFiniteSet(files'[f].suites)
    <3>1. CASE files' = files  BY <1>0, <3>1 DEF LookInv
    <3>2. CASE files' \in FileSets
      <4>1. /\ files' \in Seq([suites : SUBSET Nat, readable : BOOLEAN])
            /\ \A f \in DOMAIN files' : IsFiniteSet(files'[f].suites)
        BY <3>2, RunAssumption
      <4>2. DOMAIN files' = 1 .. Len(files')  BY <4>1
      <4> QED  BY <4>1, <4>2
    <3> QED  BY <3>1, <3>2
  <2>3. Len(files') \in Nat  BY <2>2
  <2>4. looked' \in 0 .. Len(files') /\ 1 .. looked' = {} /\ suites' = {} /\ broken' = {}
    BY <2>1, <2>3
  <2> QED  BY <1>1, <2>1, <2>2, <2>4 DEF LookInv
<1>3. ListInv'
  <2>1. named' \in Seq(Nat)  BY RunAssumption
  <2>2. at = 1 /\ lang = 1 /\ jobs = <<>> /\ skipped = {}  BY <1>0 DEF ListInv
  <2> QED  BY <1>1, <2>1, <2>2 DEF ListInv
<1>4. PoolInv'
  <2>1. started = 0 /\ results = 0 /\ busy = {} /\ raised = {} /\ codes = <<>>
    BY <1>0 DEF PoolInv
  <2> QED  BY <1>1, <2>1 DEF PoolInv, Ran
<1>5. OwnInv'
  <2>1. workers' \in Int  BY RunAssumption
  <2> QED  BY <1>1, <2>1 DEF OwnInv
<1> QED  BY <1>1, <1>2, <1>3, <1>4, <1>5 DEF RunInv

LEMMA TakeFileKeeps ==
  ASSUME RunInv, Run!TakeFile
  PROVE  RunInv'
<1> DEFINE f == files[looked + 1]
<1>0. LookInv /\ ListInv /\ PoolInv /\ OwnInv  BY DEF RunInv
<1>1. /\ pc = "discover" /\ looked < Len(files) /\ looked' = looked + 1
      /\ UNCHANGED <<pc, runner, files, named, hdls, workers, todo, at, lang, jobs, skipped,
                     started, owner, busy, codes, raised, results>>
      /\ \/ broken' = broken \cup {looked + 1} /\ suites' = suites
         \/ suites' = suites \cup (f.suites \X {looked + 1}) /\ broken' = broken
  BY DEF Run!TakeFile, Run!asked, Run!listed, Run!ran
<1>2. pc' \in Early /\ pc' \notin Ran \cup {"list"} /\ pc' # "main"  BY <1>1 DEF Early, Ran
<1>3. /\ files \in Seq([suites : SUBSET Nat, readable : BOOLEAN]) /\ looked \in Nat
      /\ Len(files) \in Nat
    BY <1>0 DEF LookInv
<1>4. looked + 1 \in 1 .. Len(files) /\ looked' \in 0 .. Len(files)
  BY <1>1, <1>3
<1>5. f \in [suites : SUBSET Nat, readable : BOOLEAN] /\ IsFiniteSet(f.suites)
  BY <1>0, <1>3, <1>4, ElementOfSeq DEF LookInv
<1>6. f.suites \in SUBSET Nat  BY <1>5
<1>7. \A i : i \in 1 .. looked + 1 <=> i \in 1 .. looked \/ i = looked + 1
  BY <1>3
<1> HIDE DEF f
<1>8. /\ files' \in Seq([suites : SUBSET Nat, readable : BOOLEAN]) /\ files' = files
       /\ \A g \in 1 .. Len(files') : IsFiniteSet(files'[g].suites)
  BY <1>0, <1>1 DEF LookInv
<1>9. ASSUME broken' = broken \cup {looked + 1}, suites' = suites PROVE LookInv'
  <2>1. Names' = Names /\ broken' # {}  BY <1>9 DEF Names
  <2>2. \A p \in suites' : \E g \in 1 .. looked' : \E m \in files'[g].suites : p = <<m, g>>
    BY <1>0, <1>1, <1>7, <1>9 DEF LookInv
  <2>3. Names \in SUBSET Nat /\ IsFiniteSet(Names)  BY <1>0 DEF LookInv
  <2>6. Names' \in SUBSET Nat /\ IsFiniteSet(Names')  BY <2>1, <2>3
  <2>7. broken' = {} => \A g \in 1 .. looked' : \A m \in files'[g].suites : <<m, g>> \in suites'
    BY <2>1
  <2>8. \A p \in suites' : \E g \in 1 .. looked' : \E m \in files'[g].suites : p = <<m, g>>
    BY <2>2
  <2>9. looked' \in 0 .. Len(files')  BY <1>4, <1>8
  <2> QED  BY <1>2, <1>8, <2>6, <2>7, <2>8, <2>9 DEF LookInv
<1>10. ASSUME suites' = suites \cup (f.suites \X {looked + 1}), broken' = broken PROVE LookInv'
  <2>1. Names' = Names \cup f.suites
    <3>1. ASSUME NEW m \in Names' PROVE m \in Names \cup f.suites
      <4>1. PICK p \in suites' : m = p[1]  BY <3>1 DEF Names
      <4>2. CASE p \in suites  BY <4>1, <4>2 DEF Names
      <4>3. CASE p \in f.suites \X {looked + 1}  BY <4>1, <4>3
      <4> QED  BY <1>10, <4>2, <4>3
    <3>2. ASSUME NEW m \in Names PROVE m \in Names'
      BY <1>10, <3>2 DEF Names
    <3>3. ASSUME NEW m \in f.suites PROVE m \in Names'
      <4>1. <<m, looked + 1>> \in suites' /\ <<m, looked + 1>>[1] = m  BY <1>10, <3>3
      <4> QED  BY <4>1 DEF Names
    <3> QED  BY <3>1, <3>2, <3>3
  <2>2. Names \in SUBSET Nat /\ IsFiniteSet(Names)  BY <1>0 DEF LookInv
  <2>3. Names' \in SUBSET Nat /\ IsFiniteSet(Names')
    BY <1>5, <1>6, <2>1, <2>2, FS_Union
  <2>4. \A p \in suites' : \E g \in 1 .. looked' : \E m \in files'[g].suites : p = <<m, g>>
    <3> SUFFICES ASSUME NEW p \in suites'
                 PROVE  \E g \in 1 .. looked' : \E m \in files'[g].suites : p = <<m, g>>
      OBVIOUS
    <3>1. CASE p \in suites  BY <1>0, <1>1, <1>7, <3>1 DEF LookInv
    <3>2. CASE p \in f.suites \X {looked + 1}  BY <1>1, <1>7, <3>2 DEF f
    <3> QED  BY <1>10, <3>1, <3>2
  <2>5. broken' = {} => \A g \in 1 .. looked' : \A m \in files'[g].suites : <<m, g>> \in suites'
    <3> SUFFICES ASSUME broken = {}, NEW g \in 1 .. looked + 1, NEW m \in files[g].suites
                 PROVE  <<m, g>> \in suites'
      BY <1>1, <1>10
    <3>1. CASE g \in 1 .. looked  BY <1>0, <1>10, <3>1 DEF LookInv
    <3>2. CASE g = looked + 1  BY <1>10, <3>2 DEF f
    <3> QED  BY <1>7, <3>1, <3>2
  <2>6. Names' \in SUBSET Nat /\ IsFiniteSet(Names')  BY <2>3
  <2>7. broken' = {} => \A g \in 1 .. looked' : \A m \in files'[g].suites : <<m, g>> \in suites'
    BY <2>5
  <2>8. \A p \in suites' : \E g \in 1 .. looked' : \E m \in files'[g].suites : p = <<m, g>>
    BY <2>4
  <2>9. looked' \in 0 .. Len(files')  BY <1>4, <1>8
  <2> QED  BY <1>2, <1>8, <2>6, <2>7, <2>8, <2>9 DEF LookInv
<1>11. LookInv'  BY <1>1, <1>9, <1>10
<1>12. ListInv'  BY <1>0, <1>1, <1>2 DEF ListInv
<1>13. PoolInv'  BY <1>0, <1>1, <1>2 DEF PoolInv, Ran
<1>14. OwnInv'  BY <1>0, <1>1, <1>2 DEF OwnInv
<1> QED  BY <1>2, <1>11, <1>13, <1>14, <1>12 DEF RunInv

\* The list of the names to run.
LEMMA ParseKeeps ==
  ASSUME RunInv, Run!Parse
  PROVE  RunInv'
<1>0. LookInv /\ ListInv /\ PoolInv /\ OwnInv  BY DEF RunInv
<1>1. /\ pc = "discover" /\ looked = Len(files) /\ pc' \in {"list", "exit2"}
      /\ UNCHANGED <<runner, files, named, hdls, workers, looked, suites, broken, at, lang, jobs,
                     skipped, started, owner, busy, codes, raised, results>>
      /\ pc' = "list" => todo' = IF named = <<>> THEN Run!Sorted(Run!Known) ELSE named
  BY DEF Run!Parse, Run!asked, Run!found, Run!ran
<1>2. pc' \in Early /\ pc' \notin Ran /\ pc' \notin {"main", "discover"}  BY <1>1 DEF Early, Ran
<1>3. LookInv'
  <2>1. Names' = Names  BY <1>1 DEF Names
  <2> QED  BY <1>0, <1>1, <1>2, <2>1 DEF LookInv
<1>4. ListInv'
  <2>1. at = 1 /\ lang = 1 /\ jobs = <<>> /\ skipped = {}  BY <1>0, <1>1 DEF ListInv
  <2>2. Run!Known \in SUBSET Nat /\ IsFiniteSet(Run!Known)
    BY <1>0, RunAssumption DEF Run!Known, LookInv, Names
  <2>3. ASSUME pc' = "list"
        PROVE  /\ todo' \in Seq(Nat)
               /\ \A m \in ToRun : \E k \in 1 .. Len(todo') : todo'[k] = m
               /\ Distinct(named) => Distinct(todo')
    <3>1. CASE named = <<>>
      <4>1. todo' = Run!Sorted(Run!Known) /\ ToRun = Run!Known  BY <1>1, <2>3, <3>1 DEF ToRun
      <4>2. PICK S \in SUBSET Nat : S = Run!Known /\ IsFiniteSet(S)  BY <2>2
      <4>3. /\ Run!Sorted(S) \in Seq(S) /\ Distinct(Run!Sorted(S))
            /\ \A m \in S : \E k \in 1 .. Len(Run!Sorted(S)) : Run!Sorted(S)[k] = m
        BY <4>2, SortedIs
      <4>4. Run!Sorted(S) \in Seq(Nat)
        <5>1. PICK q \in Seq(S) : q = Run!Sorted(S)  BY <4>3
        <5>2. Len(q) \in Nat /\ q \in [1 .. Len(q) -> S]  BY <5>1, LenProperties
        <5>3. q \in [1 .. Len(q) -> Nat]  BY <5>2
        <5>4. PICK w \in Nat : q \in [1 .. w -> Nat]  BY <5>2, <5>3
        <5>5. q \in Seq(Nat)  BY <5>4
        <5> QED  BY <5>1, <5>5
      <4> QED  BY <4>1, <4>2, <4>3, <4>4
    <3>2. CASE named # <<>>
      <4>1. todo' = named /\ ToRun = Run!Elements(named)  BY <1>1, <2>3, <3>2 DEF ToRun
      <4>2. named \in Seq(Nat) /\ DOMAIN named = 1 .. Len(named)  BY <1>0 DEF ListInv
      <4> QED  BY <4>1, <4>2 DEF Run!Elements
    <3> QED  BY <3>1, <3>2
  <2>4. ToRun' = ToRun  BY <1>1 DEF ToRun, Run!Known, Run!Elements
  <2>5. Distinct(named)' = Distinct(named) /\ (Distinct(jobs))' /\ 1 \in 1 .. Len(hdls)
    <3>1. DOMAIN jobs = {}  BY <2>1
    <3>2. Len(hdls) \in {1, 2}  BY <1>0 DEF ListInv
    <3> QED  BY <1>1, <3>1, <3>2 DEF Distinct
  <2>6. ASSUME pc' = "list" PROVE Len(todo') \in Nat /\ 1 \in 1 .. Len(todo') + 1
    <3>1. Len(todo') \in Nat  BY <2>3, <2>6
    <3> QED  BY <3>1
  <2>7. ASSUME NEW k \in Nat \ {0}, NEW l \in Nat \ {0} PROVE ~Past(k, l)'
    BY <1>1, <2>1 DEF Past
  <2>8. /\ jobs' \in Seq(Nat \X Hdl) /\ 1 .. Len(jobs') = {}
    <3>1. <<>> \in Seq(Nat \X Hdl) /\ Len(<<>>) = 0 /\ 1 .. 0 = {}  OBVIOUS
    <3> QED  BY <1>1, <2>1, <3>1
  <2>9. ASSUME pc' = "list"
        PROVE  Jobs'
    <3>1. \A k \in 1 .. Len(todo'), l \in 1 .. Len(hdls') : Past(k, l)' => Listed(todo[k], hdls[l])'
      BY <2>7
    <3>2. Distinct(jobs)'  BY <2>5
    <3> QED  BY <2>8, <3>1, <3>2 DEF Jobs
  <2>10. ASSUME pc' = "list"
         PROVE  ToDo'
    <3>1. Distinct(todo)' <=> Distinct(todo')  BY DEF Distinct
    <3>2. Distinct(named)' <=> Distinct(named)  BY <2>5
    <3> QED  BY <1>1, <2>1, <2>3, <2>4, <2>5, <2>6, <2>10, <3>1, <3>2 DEF ToDo
  <2>11. pc' # "discover" /\ pc' # "main" /\ jobs' = <<>> /\ pc' \notin Ran
    BY <1>1, <1>2, <2>1
  <2>12. /\ \/ runner' = "cocotb" /\ hdls' \in {<<"verilog">>, <<"vhdl">>, <<"verilog", "vhdl">>}
            \/ runner' = "parity" /\ hdls' = <<"both">>
         /\ named' \in Seq(Nat)
    BY <1>0, <1>1 DEF ListInv
  <2> QED  BY <1>1, <2>9, <2>10, <2>11, <2>12 DEF ListInv
<1>5. PoolInv'  BY <1>0, <1>1, <1>2 DEF PoolInv, Early, Ran
<1>6. OwnInv'  BY <1>0, <1>1, <1>2 DEF OwnInv
<1> QED  BY <1>2, <1>3, <1>4, <1>5, <1>6 DEF RunInv

\* One more (name, language).
LEMMA ListJobKeeps ==
  ASSUME RunInv, Run!ListJob
  PROVE  RunInv'
<1> DEFINE m == todo[at]
           h == hdls[lang]
<1>0. LookInv /\ ListInv /\ PoolInv /\ OwnInv  BY DEF RunInv
<1>1. /\ pc = "list" /\ at <= Len(todo)
      /\ UNCHANGED <<pc, runner, files, named, hdls, workers, looked, suites, broken, todo,
                     started, owner, busy, codes, raised, results>>
      /\ \/ h = "vhdl" /\ m \in NoVhdl /\ skipped' = skipped \cup {m} /\ jobs' = jobs
         \/ jobs' = Append(jobs, <<m, h>>) /\ skipped' = skipped
      /\ \/ lang = Len(hdls) /\ lang' = 1 /\ at' = at + 1
         \/ lang # Len(hdls) /\ lang' = lang + 1 /\ at' = at
  BY DEF Run!ListJob, Run!asked, Run!found, Run!ran
<1>2. pc' \in Early /\ pc' \in Ran \cup {"list"} /\ pc' \notin Ran
      /\ pc' \notin {"main", "discover", "exit2"} /\ pc \in Ran \cup {"list"}
  BY <1>1 DEF Early, Ran
<1>3. ToDo /\ Jobs  BY <1>0, <1>2 DEF ListInv
<1>4. /\ todo \in Seq(Nat) /\ jobs \in Seq(Nat \X Hdl)
      /\ at \in 1 .. Len(todo) + 1 /\ lang \in 1 .. Len(hdls)
      /\ \A x \in ToRun : \E k \in 1 .. Len(todo) : todo[k] = x
      /\ Distinct(named) => Distinct(todo)
      /\ \A k \in 1 .. Len(todo), l \in 1 .. Len(hdls) : Past(k, l) => Listed(todo[k], hdls[l])
      /\ \A i \in 1 .. Len(jobs) : \E k \in 1 .. Len(todo), l \in 1 .. Len(hdls) :
           Past(k, l) /\ jobs[i] = <<todo[k], hdls[l]>>
      /\ Distinct(todo) => Distinct(jobs)
  BY <1>3 DEF ToDo, Jobs
<1>5. /\ Len(hdls) \in Nat /\ \A k \in 1 .. Len(hdls) : hdls[k] \in Hdl
      /\ \A k, l \in 1 .. Len(hdls) : k # l => hdls[k] # hdls[l]
  BY <1>0, HdlsAre DEF ListInv
<1>6. /\ Len(todo) \in Nat /\ Len(hdls) \in Nat /\ Len(jobs) \in Nat
      /\ at \in 1 .. Len(todo) /\ lang \in 1 .. Len(hdls)
  <2>1. Len(todo) \in Nat /\ Len(hdls) \in Nat /\ Len(jobs) \in Nat  BY <1>4, <1>5
  <2> QED  BY <1>1, <1>4, <2>1
<1>7. m \in Nat /\ h \in Hdl
  BY <1>4, <1>5, <1>6
<1>8. ASSUME NEW k \in 1 .. Len(todo), NEW l \in 1 .. Len(hdls)
      PROVE  Past(k, l)' <=> Past(k, l) \/ (k = at /\ l = lang)
  <2>0. at \in Nat /\ lang \in Nat /\ Len(hdls) \in Nat /\ lang <= Len(hdls)  BY <1>6
  <2>1. PICK a \in Nat, b \in Nat, w \in Nat : a = at /\ b = lang /\ w = Len(hdls) /\ b <= w
    BY <2>0
  <2>2. Past(k, l) <=> k < a \/ (k = a /\ l < b)  BY <2>1 DEF Past
  <2>3. CASE lang = Len(hdls) /\ lang' = 1 /\ at' = at + 1
    <3>1. Past(k, l)' <=> k < a + 1 \/ (k = a + 1 /\ l < 1)  BY <2>1, <2>3 DEF Past
    <3>2. l <= w /\ l >= 1 /\ b = w  BY <2>1, <2>3
    <3> QED  BY <2>1, <2>2, <3>1, <3>2
  <2>4. CASE lang # Len(hdls) /\ lang' = lang + 1 /\ at' = at
    <3>1. Past(k, l)' <=> k < a \/ (k = a /\ l < b + 1)  BY <2>1, <2>4 DEF Past
    <3> QED  BY <2>1, <2>2, <3>1
  <2> QED  BY <1>1, <2>3, <2>4
<1>9. ~Past(at, lang)  BY <1>6 DEF Past
<1> HIDE DEF m, h
<1>10. /\ jobs' \in Seq(Nat \X Hdl) /\ Len(jobs') \in Nat
      /\ \A i \in 1 .. Len(jobs) : i \in 1 .. Len(jobs') /\ jobs'[i] = jobs[i]
  <2>1. CASE jobs' = jobs  BY <1>4, <1>6, <2>1
  <2>2. CASE jobs' = Append(jobs, <<m, h>>)
    <3>1. <<m, h>> \in Nat \X Hdl  BY <1>7
    <3> QED  BY <1>4, <1>6, <2>2, <3>1, AppendProperties
  <2> QED  BY <1>1, <2>1, <2>2
<1>11. ASSUME jobs' = Append(jobs, <<m, h>>)
       PROVE  /\ Len(jobs') = Len(jobs) + 1 /\ jobs'[Len(jobs) + 1] = <<m, h>>
              /\ \A i \in 1 .. Len(jobs') : i \in 1 .. Len(jobs) \/ i = Len(jobs) + 1
  <2>1. <<m, h>> \in Nat \X Hdl  BY <1>7
  <2>2. Len(jobs') = Len(jobs) + 1 /\ jobs'[Len(jobs) + 1] = <<m, h>>
    BY <1>4, <1>11, <2>1, AppendProperties
  <2> QED  BY <1>6, <2>2
<1>12. \A x, y : Listed(x, y) => Listed(x, y)'
  BY <1>1, <1>10 DEF Listed
<1>13. \A x, y : x = m /\ y = h => Listed(x, y)'
  <2> SUFFICES ASSUME NEW x, NEW y, x = m, y = h PROVE Listed(x, y)'  OBVIOUS
  <2>1. CASE h = "vhdl" /\ m \in NoVhdl /\ skipped' = skipped \cup {m}  BY <2>1 DEF Listed
  <2>2. CASE jobs' = Append(jobs, <<m, h>>)
    <3>1. Len(jobs) + 1 \in 1 .. Len(jobs') /\ jobs'[Len(jobs) + 1] = <<m, h>>
      BY <1>6, <1>11, <2>2
    <3> QED  BY <3>1 DEF Listed
  <2> QED  BY <1>1, <2>1, <2>2
<1>14. \A k \in 1 .. Len(todo), l \in 1 .. Len(hdls) :
         Past(k, l)' => Listed(todo[k], hdls[l])'
  <2> SUFFICES ASSUME NEW k \in 1 .. Len(todo), NEW l \in 1 .. Len(hdls), Past(k, l)'
               PROVE  Listed(todo[k], hdls[l])'
    OBVIOUS
  <2>1. PICK x, y : x = todo[k] /\ y = hdls[l]  OBVIOUS
  <2>2. CASE Past(k, l)
    <3>1. Listed(x, y)  BY <1>4, <2>1, <2>2
    <3>2. Listed(x, y)'  BY <1>12, <3>1
    <3> QED  BY <1>1, <2>1, <3>2
  <2>3. CASE k = at /\ l = lang
    <3>1. x = m /\ y = h  BY <2>1, <2>3 DEF m, h
    <3>2. Listed(x, y)'  BY <1>13, <3>1
    <3> QED  BY <1>1, <2>1, <3>2
  <2> QED  BY <1>8, <2>2, <2>3
<1>15. \A i \in 1 .. Len(jobs') : \E k \in 1 .. Len(todo), l \in 1 .. Len(hdls) :
         Past(k, l)' /\ jobs'[i] = <<todo[k], hdls[l]>>
  <2> SUFFICES ASSUME NEW i \in 1 .. Len(jobs')
               PROVE  \E k \in 1 .. Len(todo), l \in 1 .. Len(hdls) :
                        Past(k, l)' /\ jobs'[i] = <<todo[k], hdls[l]>>
    OBVIOUS
  <2>1. CASE i \in 1 .. Len(jobs)
    <3>1. PICK k \in 1 .. Len(todo), l \in 1 .. Len(hdls) :
            Past(k, l) /\ jobs[i] = <<todo[k], hdls[l]>>
      BY <1>4, <2>1
    <3>2. Past(k, l)' /\ jobs'[i] = jobs[i]  BY <1>8, <1>10, <2>1, <3>1
    <3> QED  BY <3>1, <3>2
  <2>2. CASE jobs' = Append(jobs, <<m, h>>) /\ i = Len(jobs) + 1
    <3>1. jobs'[Len(jobs) + 1] = <<m, h>>  BY <1>11, <2>2
    <3>2. jobs'[i] = <<todo[at], hdls[lang]>>  BY <2>2, <3>1 DEF m, h
    <3>3. PICK k \in 1 .. Len(todo), l \in 1 .. Len(hdls) : k = at /\ l = lang  BY <1>6
    <3>4. Past(k, l)'  BY <1>8, <3>3
    <3>5. jobs'[i] = <<todo[k], hdls[l]>>  BY <3>2, <3>3
    <3> QED  BY <3>4, <3>5
  <2> QED  BY <1>1, <1>11, <2>1, <2>2
<1>16. Distinct(todo) => Distinct(jobs')
  <2> SUFFICES ASSUME Distinct(todo) PROVE Distinct(jobs')  OBVIOUS
  <2>1. CASE jobs' = jobs  BY <1>4, <2>1
  <2>2. CASE jobs' = Append(jobs, <<m, h>>)
    <3>1. ASSUME NEW i \in 1 .. Len(jobs) PROVE jobs[i] # <<m, h>>
      <4>1. PICK k \in 1 .. Len(todo), l \in 1 .. Len(hdls) :
              Past(k, l) /\ jobs[i] = <<todo[k], hdls[l]>>
        BY <1>4
      <4>2. ~(k = at /\ l = lang)  BY <1>9, <4>1
      <4>3. k # at => todo[k] # todo[at]
        <5>1. DOMAIN todo = 1 .. Len(todo)  BY <1>4
        <5> QED  BY <1>6, <5>1 DEF Distinct
      <4>4. l # lang => hdls[l] # hdls[lang]  BY <1>5, <1>6
      <4>5. <<todo[k], hdls[l]>> # <<todo[at], hdls[lang]>>  BY <4>2, <4>3, <4>4
      <4> QED  BY <4>1, <4>5 DEF m, h
    <3>2. \A i, j \in 1 .. Len(jobs) : i # j => jobs[i] # jobs[j]
      <4>1. DOMAIN jobs = 1 .. Len(jobs)  BY <1>4
      <4> QED  BY <1>4, <4>1 DEF Distinct
    <3>3. DOMAIN jobs' = 1 .. Len(jobs')  BY <1>10
    <3>4. ASSUME NEW i \in 1 .. Len(jobs'), NEW j \in 1 .. Len(jobs'), i # j
          PROVE  jobs'[i] # jobs'[j]
      <4>1. /\ i \in 1 .. Len(jobs) \/ i = Len(jobs) + 1
            /\ j \in 1 .. Len(jobs) \/ j = Len(jobs) + 1
            /\ jobs'[Len(jobs) + 1] = <<m, h>>
        BY <1>11, <2>2
      <4>2. CASE i \in 1 .. Len(jobs) /\ j \in 1 .. Len(jobs)  BY <1>10, <3>2, <3>4, <4>2
      <4>3. CASE i \in 1 .. Len(jobs) /\ j = Len(jobs) + 1  BY <1>10, <3>1, <4>1, <4>3
      <4>4. CASE j \in 1 .. Len(jobs) /\ i = Len(jobs) + 1  BY <1>10, <3>1, <4>1, <4>4
      <4> QED  BY <3>4, <4>1, <4>2, <4>3, <4>4
    <3> QED  BY <3>3, <3>4 DEF Distinct
  <2> QED  BY <1>1, <2>1, <2>2
<1>17. at' \in 1 .. Len(todo) + 1 /\ lang' \in 1 .. Len(hdls) /\ (at' = Len(todo) + 1 => lang' = 1)
  <2>0. at \in Nat /\ lang \in Nat  BY <1>6
  <2>1. PICK a \in Nat, b \in Nat, w \in Nat, n \in Nat :
          a = at /\ b = lang /\ w = Len(hdls) /\ n = Len(todo) /\ a \in 1 .. n /\ b \in 1 .. w
    BY <1>6, <2>0
  <2>2. CASE lang = Len(hdls) /\ lang' = 1 /\ at' = at + 1
    <3>1. a + 1 \in 1 .. n + 1 /\ 1 \in 1 .. w  BY <2>1
    <3> QED  BY <2>1, <2>2, <3>1
  <2>3. CASE lang # Len(hdls) /\ lang' = lang + 1 /\ at' = at
    <3>1. a \in 1 .. n + 1 /\ b + 1 \in 1 .. w /\ a # n + 1  BY <2>1, <2>3
    <3> QED  BY <2>1, <2>3, <3>1
  <2> QED  BY <1>1, <2>2, <2>3
<1>18. ListInv'
  <2>1. todo' = todo /\ hdls' = hdls /\ named' = named /\ runner' = runner  BY <1>1
  <2>2. ToRun' = ToRun  BY <1>1 DEF ToRun, Run!Known, Run!Elements
  <2>3. /\ (Distinct(named))' <=> Distinct(named)
        /\ (Distinct(todo))' <=> Distinct(todo)
        /\ (Distinct(jobs))' <=> Distinct(jobs')
    BY <2>1 DEF Distinct
  <2>4. /\ \A k \in 1 .. Len(todo'), l \in 1 .. Len(hdls') :
             Past(k, l)' => Listed(todo[k], hdls[l])'
        /\ \A i \in 1 .. Len(jobs') : \E k \in 1 .. Len(todo'), l \in 1 .. Len(hdls') :
             Past(k, l)' /\ jobs'[i] = <<todo'[k], hdls'[l]>>
    BY <1>14, <1>15, <2>1
  <2>5. ToDo'  BY <1>4, <1>17, <2>1, <2>2, <2>3 DEF ToDo
  <2>6. Jobs'  BY <1>10, <1>16, <2>3, <2>4 DEF Jobs
  <2>7. /\ \/ runner' = "cocotb" /\ hdls' \in {<<"verilog">>, <<"vhdl">>, <<"verilog", "vhdl">>}
           \/ runner' = "parity" /\ hdls' = <<"both">>
        /\ named' \in Seq(Nat)
    BY <1>0, <2>1 DEF ListInv
  <2> QED  BY <1>2, <2>5, <2>6, <2>7 DEF ListInv
<1>19. LookInv'
  <2>1. Names' = Names  BY <1>1 DEF Names
  <2> QED  BY <1>0, <1>1, <2>1 DEF LookInv
<1>20. PoolInv'
  <2>1. pc \in Early  BY <1>1 DEF Early
  <2>2. started = 0 /\ results = 0 /\ busy = {} /\ raised = {} /\ codes = <<>>
    BY <1>0, <2>1 DEF PoolInv
  <2>3. pc' = "list"  BY <1>1
  <2> QED  BY <1>1, <2>2, <2>3 DEF PoolInv, Ran
<1>21. OwnInv'  BY <1>0, <1>1, <1>2 DEF OwnInv
<1> QED  BY <1>2, <1>18, <1>19, <1>20, <1>21 DEF RunInv

\* What is known while the jobs run.
LEMMA PoolFacts ==
  ASSUME RunInv, pc \in Ran
  PROVE  /\ PoolTypes /\ Len(jobs) \in Nat /\ started \in Nat /\ results \in Nat
         /\ jobs \in Seq(Nat \X Hdl) /\ DOMAIN jobs = 1 .. Len(jobs)
         /\ started <= Len(jobs) /\ results <= started
<1>1. PoolTypes /\ jobs \in Seq(Nat \X Hdl)  BY DEF RunInv, PoolInv, ListInv, Jobs, Ran
<1>2. Len(jobs) \in Nat /\ DOMAIN jobs = 1 .. Len(jobs)  BY <1>1
<1>3. started \in 0 .. Len(jobs) /\ results \in 0 .. started  BY <1>1 DEF PoolTypes
<1> QED  BY <1>1, <1>2, <1>3

LEMMA BeginKeeps ==
  ASSUME RunInv, Run!Begin
  PROVE  RunInv'
<1>0. LookInv /\ ListInv /\ PoolInv /\ OwnInv  BY DEF RunInv
<1>1. /\ pc = "list" /\ at > Len(todo) /\ Aside
      /\ UNCHANGED <<started, busy, raised, results>>
      /\ codes' = [i \in DOMAIN jobs |-> <<>>] /\ owner' = [i \in DOMAIN jobs |-> 0]
      /\ \/ pc' = "single" /\ runner = "cocotb" /\ Len(jobs) = 1
         \/ pc' = "pool"
  BY DEF Run!Begin, Run!asked, Run!found, Run!listed, Aside
<1>2. pc' \in Ran /\ pc' \notin Early /\ pc \in Early /\ pc \in Ran \cup {"list"}
      /\ pc' \notin {"report", "exit0", "leaving", "exit1"}
  BY <1>1 DEF Early, Ran
<1>3. at = Len(todo) + 1
  <2>1. todo \in Seq(Nat) /\ at \in 1 .. Len(todo) + 1  BY <1>0, <1>2 DEF ListInv, ToDo
  <2>2. Len(todo) \in Nat  BY <2>1
  <2> QED  BY <1>1, <2>1, <2>2
<1>4. LookInv' /\ ListInv'  BY <1>0, <1>1, <1>2, <1>3, AsideKeepsList
<1>5. jobs \in Seq(Nat \X Hdl) /\ jobs' = jobs /\ runner' = runner /\ workers' = workers
  BY <1>0, <1>1, <1>2 DEF ListInv, Jobs, Aside
<1>6. DOMAIN jobs = 1 .. Len(jobs) /\ Len(jobs) \in Nat  BY <1>5
<1>7. started = 0 /\ results = 0 /\ busy = {} /\ raised = {}  BY <1>0, <1>2 DEF PoolInv
<1>8. PoolTypes'
  <2>1. <<>> \in Seq(Code) /\ 1 .. 0 = {} /\ 0 \in 0 .. 0  OBVIOUS
  <2>2. codes' \in [1 .. Len(jobs') -> Seq(Code)] /\ owner' \in [1 .. Len(jobs') -> Nat]
    BY <1>1, <1>5, <1>6, <2>1
  <2>3. \A i \in 1 .. Len(jobs') : codes'[i] = <<>>  BY <1>1, <1>5, <1>6
  <2>4. started' = 0 /\ results' = 0 /\ busy' = {} /\ raised' = {} /\ 0 \in 0 .. Len(jobs')
    BY <1>1, <1>5, <1>6, <1>7
  <2> QED  BY <2>1, <2>2, <2>3, <2>4 DEF PoolTypes
<1>9. PoolInv'
  BY <1>1, <1>2, <1>5, <1>7, <1>8 DEF PoolInv
<1>10. OwnInv'
  <2>1. \A i : ~Active(i)'
    <3>1. started' = 0 /\ 1 .. 0 = {}  BY <1>1, <1>7
    <3> QED  BY <3>1 DEF Active
  <2>2. \A i \in 1 .. Len(jobs') : 1 .. Len(codes'[i]) = {}
    <3>1. \A i \in 1 .. Len(jobs) : codes'[i] = <<>>  BY <1>1, <1>6
    <3>2. Len(<<>>) = 0 /\ 1 .. 0 = {}  OBVIOUS
    <3> QED  BY <1>5, <3>1, <3>2
  <2>3. busy' = {} /\ workers' \in Int  BY <1>0, <1>1, <1>5, <1>7 DEF OwnInv
  <2> QED  BY <2>1, <2>2, <2>3 DEF OwnInv
<1> QED  BY <1>2, <1>4, <1>9, <1>10 DEF RunInv

\* A step of the pool that leaves the list alone keeps RunInv if it keeps the
\* facts about the pool.
LEMMA PoolStep ==
  ASSUME RunInv, Aside, pc \in Ran, pc' \in Ran \ {"single"},
         PoolTypes',
         pc' \in {"report", "exit0"} => results' = Len(jobs),
         pc' = "leaving" => raised' # {},
         pc' = "exit0" => (\A i \in 1 .. Len(jobs) : ~Run!Failed(i)') /\ ~Run!BrokenFails,
         pc' = "exit1" => /\ \/ \E i \in 1 .. Len(jobs) : Run!Failed(i)' \/ i \in raised'
                             \/ Run!BrokenFails
                          /\ \A i \in 1 .. started' : ~Active(i)',
         workers <= 1 => \A i, j : Active(i)' /\ Active(j)' => i = j,
         Alone => /\ \A i \in busy' : owner'[i] = i
                  /\ \A i \in 1 .. Len(jobs) : \A k \in 1 .. Len(codes'[i]) : codes'[i][k].of = i
  PROVE  RunInv'
<1>1. LookInv /\ ListInv /\ OwnInv  BY DEF RunInv
<1>2. pc \notin Early /\ pc' \notin Early /\ pc # "list"  BY DEF Ran, Early
<1>3. LookInv' /\ ListInv'
  <2>1. at = Len(todo) + 1  BY <1>1 DEF ListInv
  <2> QED  BY <1>1, <2>1, AsideKeepsList
<1>4. jobs' = jobs /\ workers' = workers /\ Alone' = Alone /\ Run!BrokenFails' = Run!BrokenFails
  BY AsideKeepsJobs DEF Aside, Run!BrokenFails
<1>5. PoolInv'  BY <1>2, <1>4 DEF PoolInv
<1>6. OwnInv'  BY <1>1, <1>4 DEF OwnInv
<1> QED  BY <1>3, <1>5, <1>6 DEF RunInv

LEMMA RunSingleKeeps ==
  ASSUME RunInv, Run!RunSingle
  PROVE  RunInv'
<1>1. /\ pc = "single" /\ Aside /\ pc' = "report" /\ started' = 1 /\ results' = 1
      /\ UNCHANGED <<owner, busy, raised>>
  BY DEF Run!RunSingle, Run!asked, Run!found, Run!listed, Aside
<1>2. PICK r \in 0 .. 1 : codes' = <<<<[rc |-> r, of |-> 1]>>>>  BY DEF Run!RunSingle
<1>3. pc \in Ran /\ pc' \in Ran \ {"single"}  BY <1>1 DEF Ran
<1>4. /\ runner = "cocotb" /\ Len(jobs) = 1 /\ started = 0 /\ busy = {} /\ raised = {}
      /\ PoolTypes /\ jobs' = jobs
  BY <1>1, <1>3 DEF RunInv, PoolInv, Aside
<1>5. PICK r1 \in Code : r1 = [rc |-> r, of |-> 1] /\ r1.of = 1
  <2>1. [rc |-> r, of |-> 1] \in Code /\ [rc |-> r, of |-> 1].of = 1  BY DEF Code
  <2> QED  BY <2>1
<1>6. PICK q \in Seq(Code) : q = <<r1>> /\ Len(q) = 1 /\ q[1] = r1
  <2>1. <<r1>> \in Seq(Code) /\ Len(<<r1>>) = 1 /\ <<r1>>[1] = r1  OBVIOUS
  <2> QED  BY <2>1
<1>7. codes' \in [1 .. 1 -> Seq(Code)] /\ codes'[1] = q
  <2>1. codes' = <<q>>  BY <1>2, <1>5, <1>6
  <2>2. <<q>> \in Seq(Seq(Code)) /\ Len(<<q>>) = 1 /\ <<q>>[1] = q  OBVIOUS
  <2>3. <<q>> \in [1 .. 1 -> Seq(Code)]  BY <2>2, LenProperties
  <2> QED  BY <2>1, <2>2, <2>3
<1>8. Run!Commands' = 1
  BY <1>1, <1>4 DEF Run!Commands, Aside
<1>9. \A i : ~Active(i)'
  <2>1. \A i \in 1 .. 1 : i = 1  OBVIOUS
  <2> QED  BY <1>1, <1>6, <1>7, <1>8, <2>1 DEF Active
<1>10. PoolTypes'
  <2>1. \A i \in 1 .. 1 : i = 1  OBVIOUS
  <2>2. 1 \in 0 .. 1 /\ \A i \in 1 .. 1 : ~(i > 1)  OBVIOUS
  <2>3. owner' \in [1 .. 1 -> Nat]  BY <1>1, <1>4 DEF PoolTypes
  <2>4. \A i \in 1 .. 1 : i \notin raised' /\ Len(codes'[i]) = Run!Commands'
    BY <1>1, <1>4, <1>6, <1>7, <1>8, <2>1
  <2>5. Len(jobs') = 1 /\ raised' = {} /\ busy' = {}  BY <1>1, <1>4
  <2> QED  BY <1>1, <1>7, <2>2, <2>3, <2>4, <2>5 DEF PoolTypes
<1>11. \A i \in 1 .. Len(jobs) : \A k \in 1 .. Len(codes'[i]) : codes'[i][k].of = i
  <2>1. \A i \in 1 .. 1 : i = 1  OBVIOUS
  <2> QED  BY <1>4, <1>5, <1>6, <1>7, <2>1
<1>12. /\ results' = Len(jobs) /\ busy' = {}
       /\ pc' \notin {"leaving", "exit0", "exit1"}
  BY <1>1, <1>4
<1> QED  BY <1>1, <1>3, <1>9, <1>10, <1>11, <1>12, PoolStep

\* The jobs that run are finitely many, and none when one more may start and
\* only one may run at a time.
LEMMA NoneRuns ==
  ASSUME RunInv, pc \in Ran, workers <= 1, Run!PoolFree
  PROVE  \A i : ~Active(i)
<1>1. started \in Nat /\ workers \in Int  BY PoolFacts DEF RunInv, OwnInv
<1>2. Run!Running \in SUBSET (1 .. started)  BY DEF Run!Running
<1>3. IsFiniteSet(1 .. started)  BY <1>1, FS_Interval
<1>4. IsFiniteSet(Run!Running)  BY <1>2, <1>3, FS_Subset
<1>5. Cardinality(Run!Running) \in Nat  BY <1>4, FS_CardinalityType
<1>6. Cardinality(Run!Running) < workers \/ Run!Running = {}
  BY CardinalityIs DEF Run!PoolFree
<1>7. Run!Running = {}
  <2>1. CASE Cardinality(Run!Running) < workers
    <3>1. Cardinality(Run!Running) = 0  BY <1>1, <1>5, <2>1
    <3> QED  BY <1>4, <3>1, FS_EmptySet
  <2> QED  BY <1>6, <2>1
<1> QED  BY <1>7, RunningIs

LEMMA ThreadStarts ==
  ASSUME RunInv, Run!Start
  PROVE  RunInv'
<1>1. /\ pc = "pool" /\ pc' = pc /\ Aside /\ started < Len(jobs) /\ started' = started + 1
      /\ Run!PoolFree /\ UNCHANGED <<owner, busy, codes, raised, results>>
  BY DEF Run!Start, Run!asked, Run!found, Run!listed, Aside
<1>2. pc \in Ran /\ pc' \in Ran \ {"single"} /\ pc' \notin {"report", "leaving", "exit0", "exit1"}
  BY <1>1 DEF Ran
<1>3. /\ PoolTypes /\ Len(jobs) \in Nat /\ started \in Nat /\ results \in Nat
      /\ results <= started /\ jobs' = jobs /\ Run!Commands' = Run!Commands
  BY <1>1, <1>2, PoolFacts, AsideKeepsJobs DEF Aside
<1>4. /\ started' \in 0 .. Len(jobs') /\ results' \in 0 .. started'
      /\ \A i : i \in 1 .. started' <=> i \in 1 .. started \/ i = started + 1
  BY <1>1, <1>3
<1>5. /\ \A i : Active(i) => Active(i)'
      /\ \A i : Active(i)' => Active(i) \/ i = started + 1
  BY <1>1, <1>3, <1>4 DEF Active
<1>6. PoolTypes'
  <2>1. /\ codes' \in [1 .. Len(jobs') -> Seq(Code)] /\ owner' \in [1 .. Len(jobs') -> Nat]
    BY <1>1, <1>3 DEF PoolTypes
  <2>2. \A i \in 1 .. Len(jobs') : i > started' => codes'[i] = <<>>
    <3> SUFFICES ASSUME NEW i \in 1 .. Len(jobs), i > started + 1 PROVE codes[i] = <<>>
      BY <1>1, <1>3
    <3>1. i > started  BY <1>3
    <3> QED  BY <1>3, <3>1 DEF PoolTypes
  <2>3. raised' \in SUBSET (1 .. started')  BY <1>1, <1>3, <1>4 DEF PoolTypes
  <2>4. \A i \in busy' : Active(i)'  BY <1>1, <1>3, <1>5 DEF PoolTypes
  <2>5. \A i \in 1 .. results' : i \notin raised' /\ Len(codes'[i]) = Run!Commands'
    BY <1>1, <1>3 DEF PoolTypes
  <2> QED  BY <1>4, <2>1, <2>2, <2>3, <2>4, <2>5 DEF PoolTypes
<1>7. workers <= 1 => \A i, j : Active(i)' /\ Active(j)' => i = j
  BY <1>1, <1>2, <1>5, NoneRuns
<1>8. Alone => /\ \A i \in busy' : owner'[i] = i
               /\ \A i \in 1 .. Len(jobs) : \A k \in 1 .. Len(codes'[i]) : codes'[i][k].of = i
  BY <1>1, <1>2 DEF RunInv, OwnInv
<1> QED  BY <1>1, <1>2, <1>6, <1>7, <1>8, PoolStep

\* Two jobs that are apart have directories of their own.
LEMMA ApartDirs ==
  ASSUME RunInv, pc \in Ran, Run!Apart,
         NEW i \in 1 .. Len(jobs), NEW j \in 1 .. Len(jobs), i # j
  PROVE  Run!Directory(i) # Run!Directory(j)
<1>0. ListInv /\ Jobs /\ ToDo  BY DEF RunInv, ListInv
<1>1. named \in Seq(Nat) /\ Distinct(named)  BY <1>0 DEF Run!Apart, Distinct, ListInv
<1>2. jobs \in Seq(Nat \X Hdl) /\ DOMAIN jobs = 1 .. Len(jobs)  BY <1>0 DEF Jobs
<1>3. jobs[i] # jobs[j]  BY <1>0, <1>1, <1>2 DEF Jobs, ToDo, Distinct
<1>4. hdls \in {<<"verilog">>, <<"vhdl">>, <<"verilog", "vhdl">>, <<"both">>}  BY <1>0 DEF ListInv
<1>5. PICK k \in 1 .. Len(todo), l \in 1 .. Len(hdls) : jobs[i] = <<todo[k], hdls[l]>>
  BY <1>0 DEF Jobs
<1>6. PICK kk \in 1 .. Len(todo), ll \in 1 .. Len(hdls) : jobs[j] = <<todo[kk], hdls[ll]>>
  BY <1>0 DEF Jobs
<1>7. todo[k] \in Nat /\ todo[kk] \in Nat  BY <1>0, ElementOfSeq DEF ToDo
<1>8. PICK a \in Nat, b \in Nat, h \in Hdl, g \in Hdl :
        /\ a = todo[k] /\ b = todo[kk] /\ h = hdls[l] /\ g = hdls[ll]
        /\ jobs[i] = <<a, h>> /\ jobs[j] = <<b, g>>
  <2>1. hdls[l] \in Hdl /\ hdls[ll] \in Hdl  BY <1>4, HdlsAre
  <2> QED  BY <1>5, <1>6, <1>7, <2>1
<1>9. /\ h # "vhdl" /\ g # "vhdl" => h = g
      /\ h = "vhdl" /\ g # "vhdl" => g = "verilog"
      /\ g = "vhdl" /\ h # "vhdl" => h = "verilog"
  BY <1>4, <1>8, HdlsAre
<1>10. a # b \/ h # g  BY <1>3, <1>8
<1>11. /\ \A p \in VhdlOf : ~({<<p[1], "verilog">>, <<p[2], "vhdl">>} \subseteq Run!Elements(jobs))
       /\ jobs[i] \in Run!Elements(jobs) /\ jobs[j] \in Run!Elements(jobs)
  BY <1>2 DEF Run!Apart, Run!Elements
<1>12. /\ Run!Directory(i) = VhdlDir(a, h)
       /\ Run!Directory(j) = VhdlDir(b, g)
  BY <1>8 DEF Run!Directory, VhdlDir
<1>13. CASE h # "vhdl" /\ g # "vhdl"
  <2>1. Run!Directory(i) = <<"", a>> /\ Run!Directory(j) = <<"", b>>
    BY <1>12, <1>13 DEF VhdlDir
  <2>2. a # b  BY <1>9, <1>10, <1>13
  <2>3. <<"", a>> # <<"", b>>  BY <2>2
  <2> QED  BY <2>1, <2>3
<1>14. CASE h = "vhdl" /\ g = "vhdl"
  <2>1. VhdlDir(a, h) # VhdlDir(b, g)  BY <1>10, <1>14, VhdlDirs
  <2> QED  BY <1>12, <2>1
<1>15. CASE h = "vhdl" /\ g # "vhdl"
  <2>1. g = "verilog"  BY <1>9, <1>15
  <2>2. ASSUME VhdlDir(a, h) = VhdlDir(b, g) PROVE <<b, a>> \in VhdlOf
    BY <1>15, <2>1, <2>2, VhdlDirs
  <2>3. <<b, a>> \notin VhdlOf  BY <1>8, <1>11, <1>15, <2>1
  <2> QED  BY <1>12, <2>2, <2>3
<1>16. CASE g = "vhdl" /\ h # "vhdl"
  <2>1. h = "verilog"  BY <1>9, <1>16
  <2>2. ASSUME VhdlDir(b, g) = VhdlDir(a, h) PROVE <<a, b>> \in VhdlOf
    BY <1>16, <2>1, <2>2, VhdlDirs
  <2>3. <<a, b>> \notin VhdlOf  BY <1>8, <1>11, <1>16, <2>1
  <2> QED  BY <1>12, <2>2, <2>3
<1> QED  BY <1>13, <1>14, <1>15, <1>16

\* What a step of job i in the pool, or after main has given up, may assume.
LEMMA JobFacts ==
  ASSUME RunInv, pc \in {"pool", "leaving"}, NEW i, i \in Run!Running
  PROVE  /\ pc \in Ran \ {"single"} /\ pc \notin {"report", "exit0", "exit1"}
         /\ PoolTypes /\ Active(i) /\ i \in 1 .. Len(jobs) /\ i \in 1 .. started
         /\ DOMAIN jobs = 1 .. Len(jobs) /\ i \notin 1 .. results
         /\ pc = "leaving" => raised # {}
         /\ workers <= 1 => \A k, j : Active(k) /\ Active(j) => k = j
         /\ Alone => /\ \A j \in busy : owner[j] = j
                     /\ \A j \in 1 .. Len(jobs) : \A k \in 1 .. Len(codes[j]) : codes[j][k].of = j
<1>1. pc \in Ran \ {"single"} /\ pc \notin {"report", "exit0", "exit1"}  BY DEF Ran
<1>2. /\ PoolTypes /\ started \in Nat /\ Len(jobs) \in Nat /\ started <= Len(jobs)
      /\ DOMAIN jobs = 1 .. Len(jobs)
  BY <1>1, PoolFacts
<1>3. Active(i)  BY RunningIs
<1>4. i \in 1 .. started  BY <1>3 DEF Active
<1>5. i \in 1 .. Len(jobs)  BY <1>2, <1>4
<1>6. i \notin 1 .. results  BY <1>2, <1>3 DEF PoolTypes, Active
<1>7. pc = "leaving" => raised # {}  BY DEF RunInv, PoolInv
<1>8. /\ workers <= 1 => \A k, j : Active(k) /\ Active(j) => k = j
      /\ Alone => /\ \A j \in busy : owner[j] = j
                  /\ \A j \in 1 .. Len(jobs) : \A k \in 1 .. Len(codes[j]) : codes[j][k].of = j
  BY <1>1 DEF RunInv, OwnInv
<1> QED  BY <1>1, <1>2, <1>3, <1>4, <1>5, <1>6, <1>7, <1>8

LEMMA BuildKeeps ==
  ASSUME RunInv, NEW i \in DOMAIN jobs, Run!Build(i)
  PROVE  RunInv'
<1>1. /\ pc \in {"pool", "leaving"} /\ pc' = pc /\ Aside /\ i \in Run!Running /\ i \notin busy
      /\ owner' = [k \in DOMAIN jobs |-> IF Run!Directory(k) = Run!Directory(i) THEN i ELSE owner[k]]
      /\ busy' = busy \cup {i}
      /\ UNCHANGED <<started, codes, raised, results>>
  BY DEF Run!Build, Run!asked, Run!found, Run!listed, Aside
<1>2. /\ pc \in Ran \ {"single"} /\ pc \notin {"report", "exit0", "exit1"}
      /\ PoolTypes /\ Active(i) /\ i \in 1 .. Len(jobs) /\ i \in 1 .. started
      /\ DOMAIN jobs = 1 .. Len(jobs)
      /\ pc = "leaving" => raised # {}
      /\ workers <= 1 => \A k, j : Active(k) /\ Active(j) => k = j
      /\ Alone => /\ \A j \in busy : owner[j] = j
                  /\ \A j \in 1 .. Len(jobs) : \A k \in 1 .. Len(codes[j]) : codes[j][k].of = j
  BY <1>1, JobFacts
<1>3. jobs' = jobs /\ Run!Commands' = Run!Commands  BY <1>1, AsideKeepsJobs DEF Aside
<1>4. \A j : Active(j)' <=> Active(j)  BY <1>1, <1>3 DEF Active
<1>5. owner' \in [1 .. Len(jobs) -> Nat]
  <2>1. owner \in [1 .. Len(jobs) -> Nat] /\ i \in Nat  BY <1>2 DEF PoolTypes
  <2>2. \A k \in 1 .. Len(jobs) : (IF Run!Directory(k) = Run!Directory(i) THEN i ELSE owner[k]) \in Nat
    BY <2>1
  <2> QED  BY <1>1, <1>2, <2>2
<1>6. PoolTypes'
  <2>1. \A j \in busy' : Active(j)'  BY <1>1, <1>2, <1>4 DEF PoolTypes
  <2>2. /\ codes \in [1 .. Len(jobs) -> Seq(Code)]
        /\ started \in 0 .. Len(jobs) /\ results \in 0 .. started
        /\ \A j \in 1 .. Len(jobs) : j > started => codes[j] = <<>>
        /\ raised \in SUBSET (1 .. started)
        /\ \A j \in 1 .. results : j \notin raised /\ Len(codes[j]) = Run!Commands
    BY <1>2 DEF PoolTypes
  <2> QED  BY <1>1, <1>3, <1>5, <2>1, <2>2 DEF PoolTypes
<1>7. ASSUME Alone, NEW j \in busy' PROVE owner'[j] = j
  <2>1. CASE j = i  BY <1>1, <1>2, <2>1
  <2>2. CASE j # i
    <3>1. j \in busy /\ Active(j) /\ owner[j] = j  BY <1>1, <1>2, <1>7, <2>2 DEF PoolTypes
    <3>2. workers > 1 \/ ~(workers <= 1)  BY <1>2, <2>2, <3>1
    <3>3. Run!Apart  BY <1>2, <1>7, <2>2, <3>1 DEF Alone
    <3>4. j \in 1 .. Len(jobs)
      <4>1. j \in 1 .. started /\ started \in Nat /\ Len(jobs) \in Nat /\ started <= Len(jobs)
        BY <1>2, <3>1, PoolFacts DEF Active
      <4> QED  BY <4>1
    <3>5. Run!Directory(j) # Run!Directory(i)  BY <1>2, <2>2, <3>3, <3>4, ApartDirs
    <3> QED  BY <1>1, <1>2, <3>1, <3>4, <3>5
  <2> QED  BY <2>1, <2>2
<1> QED  BY <1>1, <1>2, <1>3, <1>4, <1>6, <1>7, PoolStep

LEMMA CannotStartKeeps ==
  ASSUME RunInv, NEW i \in DOMAIN jobs, Run!CannotStart(i)
  PROVE  RunInv'
<1>1. /\ pc \in {"pool", "leaving"} /\ pc' = pc /\ Aside /\ i \in Run!Running /\ i \notin busy
      /\ raised' = raised \cup {i}
      /\ UNCHANGED <<started, owner, busy, codes, results>>
  BY DEF Run!CannotStart, Run!asked, Run!found, Run!listed, Aside
<1>2. /\ pc \in Ran \ {"single"} /\ pc \notin {"report", "exit0", "exit1"}
      /\ PoolTypes /\ Active(i) /\ i \in 1 .. Len(jobs) /\ i \in 1 .. started
      /\ i \notin 1 .. results
      /\ workers <= 1 => \A k, j : Active(k) /\ Active(j) => k = j
      /\ Alone => /\ \A j \in busy : owner[j] = j
                  /\ \A j \in 1 .. Len(jobs) : \A k \in 1 .. Len(codes[j]) : codes[j][k].of = j
  BY <1>1, JobFacts
<1>3. jobs' = jobs /\ Run!Commands' = Run!Commands  BY <1>1, AsideKeepsJobs DEF Aside
<1>4. \A j : Active(j)' <=> Active(j) /\ j # i  BY <1>1, <1>3 DEF Active
<1>5. PoolTypes'
  <2>1. \A j \in busy' : Active(j)'  BY <1>1, <1>2, <1>4 DEF PoolTypes
  <2>2. /\ codes \in [1 .. Len(jobs) -> Seq(Code)] /\ owner \in [1 .. Len(jobs) -> Nat]
        /\ started \in 0 .. Len(jobs) /\ results \in 0 .. started
        /\ \A j \in 1 .. Len(jobs) : j > started => codes[j] = <<>>
        /\ raised \in SUBSET (1 .. started)
        /\ \A j \in 1 .. results : j \notin raised /\ Len(codes[j]) = Run!Commands
    BY <1>2 DEF PoolTypes
  <2>3. raised' \in SUBSET (1 .. started)  BY <1>1, <1>2, <2>2
  <2>4. \A j \in 1 .. results : j \notin raised'  BY <1>1, <1>2, <2>2
  <2> QED  BY <1>1, <1>3, <2>1, <2>2, <2>3, <2>4 DEF PoolTypes
<1>6. raised' # {}  BY <1>1
<1> QED  BY <1>1, <1>2, <1>3, <1>4, <1>5, <1>6, PoolStep

LEMMA JudgeKeeps ==
  ASSUME RunInv, NEW i \in DOMAIN jobs, Run!Judge(i)
  PROVE  RunInv'
<1>1. /\ pc \in {"pool", "leaving"} /\ pc' = pc /\ Aside /\ i \in busy
      /\ busy' = busy \ {i}
      /\ UNCHANGED <<started, owner, raised, results>>
  BY DEF Run!Judge, Run!asked, Run!found, Run!listed, Aside
<1>2. PICK r \in 0 .. 1 : codes' = [codes EXCEPT ![i] = Append(@, [rc |-> r, of |-> owner[i]])]
  BY DEF Run!Judge
<1>3. i \in Run!Running
  <2>1. pc \in Ran  BY <1>1 DEF Ran
  <2>2. PoolTypes  BY <2>1, PoolFacts
  <2> QED  BY <1>1, <2>2, RunningIs DEF PoolTypes
<1>4. /\ pc \in Ran \ {"single"} /\ pc \notin {"report", "exit0", "exit1"}
      /\ PoolTypes /\ Active(i) /\ i \in 1 .. Len(jobs) /\ i \in 1 .. started
      /\ i \notin 1 .. results
      /\ pc = "leaving" => raised # {}
      /\ workers <= 1 => \A k, j : Active(k) /\ Active(j) => k = j
      /\ Alone => /\ \A j \in busy : owner[j] = j
                  /\ \A j \in 1 .. Len(jobs) : \A k \in 1 .. Len(codes[j]) : codes[j][k].of = j
  BY <1>1, <1>3, JobFacts
<1>5. jobs' = jobs /\ Run!Commands' = Run!Commands  BY <1>1, AsideKeepsJobs DEF Aside
<1>6. /\ codes \in [1 .. Len(jobs) -> Seq(Code)] /\ owner \in [1 .. Len(jobs) -> Nat]
      /\ started \in 0 .. Len(jobs) /\ results \in 0 .. started
      /\ \A j \in 1 .. Len(jobs) : j > started => codes[j] = <<>>
      /\ raised \in SUBSET (1 .. started)
      /\ \A j \in busy : Active(j)
      /\ \A j \in 1 .. results : j \notin raised /\ Len(codes[j]) = Run!Commands
  BY <1>4 DEF PoolTypes
<1>7. PICK c \in Code : c = [rc |-> r, of |-> owner[i]] /\ c.of = owner[i]
  <2>1. owner[i] \in Nat  BY <1>4, <1>6
  <2>2. [rc |-> r, of |-> owner[i]] \in Code  BY <2>1 DEF Code
  <2> QED  BY <2>2
<1>8. PICK q \in Seq(Code) : q = codes[i]  BY <1>4, <1>6
<1>9. PICK qq \in Seq(Code) : /\ qq = Append(q, c) /\ Len(qq) = Len(q) + 1 /\ Len(q) \in Nat
                              /\ qq[Len(q) + 1] = c /\ \A k \in 1 .. Len(q) : qq[k] = q[k]
  <2>1. Len(q) \in Nat  OBVIOUS
  <2>2. /\ Append(q, c) \in Seq(Code) /\ Len(Append(q, c)) = Len(q) + 1
        /\ \A k \in 1 .. Len(q) : Append(q, c)[k] = q[k]
        /\ Append(q, c)[Len(q) + 1] = c
    BY AppendProperties
  <2> HIDE DEF Code
  <2> QED  BY <2>1, <2>2
<1>10. codes' = [codes EXCEPT ![i] = qq]  BY <1>2, <1>7, <1>8, <1>9
<1>11. /\ codes' \in [1 .. Len(jobs) -> Seq(Code)] /\ codes'[i] = qq
       /\ \A j \in 1 .. Len(jobs) : j # i => codes'[j] = codes[j]
  BY <1>4, <1>6, <1>10
<1>12. \A j \in 1 .. Len(jobs) : Active(j)' => Active(j)
  <2> SUFFICES ASSUME NEW j \in 1 .. Len(jobs), Active(j)' PROVE Active(j)  OBVIOUS
  <2>1. CASE j = i  BY <1>4, <2>1
  <2>2. CASE j # i  BY <1>1, <1>5, <1>11, <2>2 DEF Active
  <2> QED  BY <2>1, <2>2
<1>13. \A j : Active(j)' => j \in 1 .. Len(jobs)
  <2>1. started \in Nat /\ Len(jobs) \in Nat /\ started <= Len(jobs)  BY <1>4, PoolFacts
  <2>2. \A j \in 1 .. started : j \in 1 .. Len(jobs)  BY <2>1
  <2> QED  BY <1>1, <2>2 DEF Active
<1>14. PoolTypes'
  <2>1. \A j \in busy' : Active(j)'
    <3> SUFFICES ASSUME NEW j \in busy, j # i PROVE Active(j)'  BY <1>1
    <3>1. Active(j)  BY <1>6
    <3>2. j \in 1 .. Len(jobs)
      <4>1. started \in Nat /\ Len(jobs) \in Nat /\ started <= Len(jobs)  BY <1>4, PoolFacts
      <4>2. j \in 1 .. started  BY <3>1 DEF Active
      <4> QED  BY <4>1, <4>2
    <3> QED  BY <1>1, <1>5, <1>11, <3>1, <3>2 DEF Active
  <2>2. \A j \in 1 .. Len(jobs) : j > started => codes'[j] = <<>>
    <3> SUFFICES ASSUME NEW j \in 1 .. Len(jobs), j > started PROVE codes'[j] = <<>>  OBVIOUS
    <3>1. j # i  BY <1>4, <1>6
    <3> QED  BY <1>6, <1>11, <3>1
  <2>3. \A j \in 1 .. results : j \notin raised /\ Len(codes'[j]) = Run!Commands
    <3> SUFFICES ASSUME NEW j \in 1 .. results
                 PROVE  j \notin raised /\ Len(codes'[j]) = Run!Commands
      OBVIOUS
    <3>1. j # i  BY <1>4
    <3>2. j \in 1 .. Len(jobs)
      <4>1. /\ started \in Nat /\ Len(jobs) \in Nat /\ started <= Len(jobs) /\ results \in Nat
            /\ results <= started
        BY <1>4, PoolFacts
      <4> QED  BY <4>1
    <3> QED  BY <1>6, <1>11, <3>1, <3>2
  <2> QED  BY <1>1, <1>5, <1>6, <1>11, <2>1, <2>2, <2>3 DEF PoolTypes
<1>15. workers <= 1 => \A k, j : Active(k)' /\ Active(j)' => k = j
  BY <1>4, <1>12, <1>13
<1>16. ASSUME Alone
       PROVE  /\ \A j \in busy' : owner'[j] = j
              /\ \A j \in 1 .. Len(jobs) : \A k \in 1 .. Len(codes'[j]) : codes'[j][k].of = j
  <2>1. \A j \in busy' : owner'[j] = j  BY <1>1, <1>4, <1>16
  <2>2. ASSUME NEW k \in 1 .. Len(qq) PROVE qq[k].of = i
    <3>1. k \in 1 .. Len(q) \/ k = Len(q) + 1  BY <1>9
    <3>2. CASE k \in 1 .. Len(q)  BY <1>4, <1>8, <1>9, <1>16, <3>2
    <3>3. CASE k = Len(q) + 1  BY <1>1, <1>4, <1>7, <1>9, <1>16, <3>3
    <3> QED  BY <3>1, <3>2, <3>3
  <2>3. ASSUME NEW j \in 1 .. Len(jobs), NEW k \in 1 .. Len(codes'[j]) PROVE codes'[j][k].of = j
    <3>1. CASE j = i  BY <1>11, <2>2, <3>1
    <3>2. CASE j # i  BY <1>4, <1>11, <1>16, <3>2
    <3> QED  BY <3>1, <3>2
  <2> QED  BY <2>1, <2>3
<1> QED  BY <1>1, <1>4, <1>14, <1>15, <1>16, PoolStep

LEMMA CollectKeeps ==
  ASSUME RunInv, Run!Collect
  PROVE  RunInv'
<1>1. /\ pc = "pool" /\ pc' = pc /\ Aside /\ results < started /\ results' = results + 1
      /\ results + 1 \notin raised /\ Run!Over(results + 1)
      /\ UNCHANGED <<started, owner, busy, codes, raised>>
  BY DEF Run!Collect, Run!asked, Run!found, Run!listed, Aside
<1>2. pc \in Ran /\ pc' \in Ran \ {"single"} /\ pc' \notin {"report", "leaving", "exit0", "exit1"}
  BY <1>1 DEF Ran
<1>3. /\ PoolTypes /\ results \in Nat /\ started \in Nat
      /\ jobs' = jobs /\ Run!Commands' = Run!Commands
  BY <1>1, <1>2, PoolFacts, AsideKeepsJobs DEF Aside
<1>4. Len(codes[results + 1]) = Run!Commands  BY <1>1, RunningIs
<1>5. /\ results' \in 0 .. started
      /\ \A i \in 1 .. results' : i \in 1 .. results \/ i = results + 1
  BY <1>1, <1>3
<1>6. \A i : Active(i)' <=> Active(i)  BY <1>1, <1>3 DEF Active
<1>7. PoolTypes'
  <2>1. \A i \in 1 .. results' : i \notin raised' /\ Len(codes'[i]) = Run!Commands'
    BY <1>1, <1>3, <1>4, <1>5 DEF PoolTypes
  <2>2. /\ codes \in [1 .. Len(jobs) -> Seq(Code)] /\ owner \in [1 .. Len(jobs) -> Nat]
        /\ started \in 0 .. Len(jobs)
        /\ \A j \in 1 .. Len(jobs) : j > started => codes[j] = <<>>
        /\ raised \in SUBSET (1 .. started)
        /\ \A j \in busy : Active(j)
    BY <1>3 DEF PoolTypes
  <2> QED  BY <1>1, <1>3, <1>5, <1>6, <2>1, <2>2 DEF PoolTypes
<1>8. /\ workers <= 1 => \A i, j : Active(i) /\ Active(j) => i = j
      /\ Alone => /\ \A i \in busy : owner[i] = i
                  /\ \A i \in 1 .. Len(jobs) : \A k \in 1 .. Len(codes[i]) : codes[i][k].of = i
  BY <1>2 DEF RunInv, OwnInv
<1> QED  BY <1>1, <1>2, <1>6, <1>7, <1>8, PoolStep

\* The steps of main that touch no job.
LEMMA OnlyPc ==
  ASSUME RunInv, Aside, pc \in Ran, pc' \in Ran \ {"single"},
         UNCHANGED <<started, owner, busy, codes, raised, results>>,
         pc' \in {"report", "exit0"} => results = Len(jobs),
         pc' = "leaving" => raised # {},
         pc' = "exit0" => (\A i \in 1 .. Len(jobs) : ~Run!Failed(i)) /\ ~Run!BrokenFails,
         pc' = "exit1" => /\ \/ \E i \in 1 .. Len(jobs) : Run!Failed(i) \/ i \in raised
                             \/ Run!BrokenFails
                          /\ \A i \in 1 .. started : ~Active(i)
  PROVE  RunInv'
<1>1. PoolTypes /\ jobs' = jobs /\ Run!Commands' = Run!Commands
  BY PoolFacts, AsideKeepsJobs DEF Aside
<1>2. \A i : Active(i)' <=> Active(i)  BY <1>1 DEF Active
<1>3. \A i : Run!Failed(i)' <=> Run!Failed(i)  BY DEF Run!Failed
<1>4. PoolTypes'  BY <1>1, <1>2 DEF PoolTypes
<1>5. /\ workers <= 1 => \A i, j : Active(i) /\ Active(j) => i = j
      /\ Alone => /\ \A i \in busy : owner[i] = i
                  /\ \A i \in 1 .. Len(jobs) : \A k \in 1 .. Len(codes[i]) : codes[i][k].of = i
  BY DEF RunInv, OwnInv
<1> QED  BY <1>1, <1>2, <1>3, <1>4, <1>5, PoolStep

LEMMA CollectRaisedKeeps ==
  ASSUME RunInv, Run!CollectRaised
  PROVE  RunInv'
<1>1. /\ pc = "pool" /\ pc' = "leaving" /\ Aside /\ raised # {}
      /\ UNCHANGED <<started, owner, busy, codes, raised, results>>
  BY DEF Run!CollectRaised, Run!asked, Run!found, Run!listed, Run!ran, Aside
<1>2. pc \in Ran /\ pc' \in Ran \ {"single"} /\ pc' \notin {"report", "exit0", "exit1"}
  BY <1>1 DEF Ran
<1> QED  BY <1>1, <1>2, OnlyPc

LEMMA LeaveKeeps ==
  ASSUME RunInv, Run!Leave
  PROVE  RunInv'
<1>1. /\ pc = "leaving" /\ pc' = "exit1" /\ Aside /\ Run!Running = {}
      /\ UNCHANGED <<started, owner, busy, codes, raised, results>>
  BY DEF Run!Leave, Run!asked, Run!found, Run!listed, Run!ran, Aside
<1>2. pc \in Ran /\ pc' \in Ran \ {"single"} /\ pc' \notin {"report", "exit0", "leaving"}
  BY <1>1 DEF Ran
<1>3. raised # {}  BY <1>1 DEF RunInv, PoolInv
<1>4. /\ raised \in SUBSET (1 .. started) /\ started \in Nat /\ Len(jobs) \in Nat
      /\ started <= Len(jobs)
  BY <1>2, PoolFacts DEF PoolTypes
<1>5. \E i \in 1 .. Len(jobs) : i \in raised
  <2>1. PICK i \in 1 .. started : i \in raised  BY <1>3, <1>4
  <2>2. i \in 1 .. Len(jobs)  BY <1>4
  <2> QED  BY <2>1, <2>2
<1>6. \A i : ~Active(i)  BY <1>1, RunningIs
<1> QED  BY <1>1, <1>2, <1>5, <1>6, OnlyPc

LEMMA AllCollectedKeeps ==
  ASSUME RunInv, Run!AllCollected
  PROVE  RunInv'
<1>1. /\ pc = "pool" /\ pc' = "report" /\ Aside /\ results = Len(jobs)
      /\ UNCHANGED <<started, owner, busy, codes, raised, results>>
  BY DEF Run!AllCollected, Run!asked, Run!found, Run!listed, Run!ran, Aside
<1>2. pc \in Ran /\ pc' \in Ran \ {"single"} /\ pc' \notin {"leaving", "exit0", "exit1"}
  BY <1>1 DEF Ran
<1> QED  BY <1>1, <1>2, OnlyPc

\* With all results in, no job is left running.
LEMMA AllOver ==
  ASSUME RunInv, pc \in Ran, results = Len(jobs)
  PROVE  /\ \A i : ~Active(i)
         /\ \A i \in 1 .. Len(jobs) : Len(codes[i]) = Run!Commands
<1>1. /\ PoolTypes /\ started \in Nat /\ results \in Nat /\ Len(jobs) \in Nat
      /\ started <= Len(jobs)
  BY PoolFacts
<1>2. \A i \in 1 .. Len(jobs) : Len(codes[i]) = Run!Commands  BY <1>1 DEF PoolTypes
<1>3. \A i \in 1 .. started : i \in 1 .. Len(jobs)  BY <1>1
<1> QED  BY <1>2, <1>3 DEF Active

LEMMA ReportKeeps ==
  ASSUME RunInv, Run!Report
  PROVE  RunInv'
<1>1. /\ pc = "report" /\ Aside /\ UNCHANGED <<started, owner, busy, codes, raised, results>>
      /\ pc' = IF (\E i \in DOMAIN jobs : Run!Failed(i)) \/ Run!BrokenFails
               THEN "exit1" ELSE "exit0"
  BY DEF Run!Report, Run!asked, Run!found, Run!listed, Run!ran, Aside
<1>2. pc \in Ran /\ pc' \in Ran \ {"single"} /\ pc' \notin {"leaving", "report"}
  BY <1>1 DEF Ran
<1>3. results = Len(jobs)  BY <1>1 DEF RunInv, PoolInv
<1>4. DOMAIN jobs = 1 .. Len(jobs)  BY <1>2, PoolFacts
<1>5. \A i : ~Active(i)  BY <1>2, <1>3, AllOver
<1>6. CASE (\E i \in DOMAIN jobs : Run!Failed(i)) \/ Run!BrokenFails
  <2>1. pc' = "exit1"  BY <1>1, <1>6
  <2>2. (\E i \in 1 .. Len(jobs) : Run!Failed(i) \/ i \in raised) \/ Run!BrokenFails
    BY <1>4, <1>6
  <2> QED  BY <1>1, <1>2, <1>5, <2>1, <2>2, OnlyPc
<1>7. CASE ~((\E i \in DOMAIN jobs : Run!Failed(i)) \/ Run!BrokenFails)
  <2>1. pc' = "exit0"  BY <1>1, <1>7
  <2>2. (\A i \in 1 .. Len(jobs) : ~Run!Failed(i)) /\ ~Run!BrokenFails  BY <1>4, <1>7
  <2> QED  BY <1>1, <1>2, <1>3, <2>1, <2>2, OnlyPc
<1> QED  BY <1>6, <1>7

\* No step at all.
LEMMA RunStutters ==
  ASSUME RunInv, UNCHANGED Run!vars
  PROVE  RunInv'
<1>1. UNCHANGED <<pc, runner, files, named, hdls, workers, looked, suites, broken, todo, at, lang,
                  jobs, skipped, started, owner, busy, codes, raised, results>>
  BY DEF Run!vars, Run!asked, Run!found, Run!listed, Run!ran
<1>2. LookInv /\ ListInv /\ PoolInv /\ OwnInv /\ pc \in Early \cup Ran  BY DEF RunInv
<1>3. Aside  BY <1>1 DEF Aside
<1>4. LookInv' /\ ListInv'
  <2>1. CASE pc \in Ran \cup {"list"}  BY <1>1, <1>2, <1>3, <2>1, AsideKeepsList
  <2>2. CASE pc \notin Ran \cup {"list"}
    <3>1. LookInv'  BY <1>1, <1>2, <2>2 DEF LookInv, Names
    <3>2. ListInv'  BY <1>1, <1>2, <2>2 DEF ListInv
    <3> QED  BY <3>1, <3>2
  <2> QED  BY <2>1, <2>2
<1>5. /\ Run!Commands' = Run!Commands /\ Alone' = Alone
      /\ \A i : Active(i)' <=> Active(i)
      /\ \A i : Run!Failed(i)' <=> Run!Failed(i)
      /\ Run!BrokenFails' <=> Run!BrokenFails
  <2>1. Run!Commands' = Run!Commands /\ Alone' = Alone  BY <1>3, AsideKeepsJobs
  <2>2. \A i : Active(i)' <=> Active(i)  BY <1>1, <2>1 DEF Active
  <2>3. \A i : Run!Failed(i)' <=> Run!Failed(i)  BY <1>1 DEF Run!Failed
  <2>4. Run!BrokenFails' <=> Run!BrokenFails  BY <1>1 DEF Run!BrokenFails
  <2> QED  BY <2>1, <2>2, <2>3, <2>4
<1>6. PoolTypes => PoolTypes'  BY <1>1, <1>5 DEF PoolTypes
<1>7. PoolInv'  BY <1>1, <1>2, <1>5, <1>6 DEF PoolInv
<1>8. OwnInv'  BY <1>1, <1>2, <1>5 DEF OwnInv
<1> QED  BY <1>1, <1>2, <1>4, <1>7, <1>8 DEF RunInv

LEMMA RunSteps ==
  ASSUME RunInv, [Run!Next]_(Run!vars)
  PROVE  RunInv'
<1>1. ASSUME NEW fs \in FileSets, NEW names \in NameLists, NEW hs \in Run!Hdls,
             NEW j \in 0 .. MaxJobs, Run!Main(fs, names, hs, j)
      PROVE  RunInv'
  <2>1. /\ pc = "main" /\ pc' = "discover" /\ named' \in NameLists /\ workers' \in 0 .. MaxJobs
        /\ runner' = "cocotb" /\ hdls' \in {<<"verilog">>, <<"vhdl">>, <<"verilog", "vhdl">>}
        /\ files' \in FileSets
        /\ UNCHANGED <<looked, suites, broken, todo, at, lang, jobs, skipped, started, owner, busy,
                       codes, raised, results>>
    BY <1>1 DEF Run!Main, Run!Hdls, Run!found, Run!listed, Run!ran
  <2> QED  BY <2>1, MainKeeps
<1>2. ASSUME NEW names \in NameLists, NEW j \in 0 .. MaxJobs, Run!MainParity(names, j)
      PROVE  RunInv'
  <2>1. /\ pc = "main" /\ pc' = "discover" /\ named' \in NameLists /\ workers' \in 0 .. MaxJobs
        /\ runner' = "parity" /\ hdls' = <<"both">> /\ files' = files
        /\ UNCHANGED <<looked, suites, broken, todo, at, lang, jobs, skipped, started, owner, busy,
                       codes, raised, results>>
    BY <1>2 DEF Run!MainParity, Run!found, Run!listed, Run!ran
  <2> QED  BY <2>1, MainKeeps
<1>3. CASE Run!TakeFile  BY <1>3, TakeFileKeeps
<1>4. CASE Run!Parse  BY <1>4, ParseKeeps
<1>5. CASE Run!ListJob  BY <1>5, ListJobKeeps
<1>6. CASE Run!Begin  BY <1>6, BeginKeeps
<1>7. CASE Run!RunSingle  BY <1>7, RunSingleKeeps
<1>8. CASE Run!Start  BY <1>8, ThreadStarts
<1>9. CASE Run!Collect  BY <1>9, CollectKeeps
<1>10. CASE Run!CollectRaised  BY <1>10, CollectRaisedKeeps
<1>11. CASE Run!Leave  BY <1>11, LeaveKeeps
<1>12. CASE Run!AllCollected  BY <1>12, AllCollectedKeeps
<1>13. CASE Run!Report  BY <1>13, ReportKeeps
<1>14. ASSUME NEW i \in DOMAIN jobs, Run!Build(i) PROVE RunInv'  BY <1>14, BuildKeeps
<1>15. ASSUME NEW i \in DOMAIN jobs, Run!Judge(i) PROVE RunInv'  BY <1>15, JudgeKeeps
<1>16. ASSUME NEW i \in DOMAIN jobs, Run!CannotStart(i) PROVE RunInv'
  BY <1>16, CannotStartKeeps
<1>17. CASE UNCHANGED Run!vars  BY <1>17, RunStutters
<1> QED
  BY <1>1, <1>2, <1>3, <1>4, <1>5, <1>6, <1>7, <1>8, <1>9, <1>10, <1>11, <1>12, <1>13, <1>14,
     <1>15, <1>16, <1>17 DEF Run!Next

\* Everything wanted is in the list, if no test file was skipped.
LEMMA WantedIsListed ==
  ASSUME RunInv, pc = "exit0", NEW m \in Run!Wanted, NEW h \in Run!Elements(hdls)
  PROVE  Listed(m, h)
<1>1. LookInv /\ ListInv /\ ToDo /\ Jobs /\ at = Len(todo) + 1 /\ looked = Len(files)
      /\ ~Run!BrokenFails
  BY DEF RunInv, LookInv, ListInv, PoolInv, Ran
<1>2. m \in ToRun
  <2>1. CASE named # <<>>  BY <2>1 DEF Run!Wanted, ToRun
  <2>2. CASE named = <<>> /\ runner = "parity"  BY <2>2 DEF Run!Wanted, ToRun, Run!Known
  <2>3. CASE named = <<>> /\ runner = "cocotb"
    <3>1. DOMAIN files = 1 .. Len(files)  BY <1>1 DEF LookInv
    <3>2. PICK f \in 1 .. Len(files) : m \in files[f].suites
      BY <2>3, <3>1 DEF Run!Wanted
    <3>3. broken = {}  BY <1>1, <2>3 DEF Run!BrokenFails
    <3>4. <<m, f>> \in suites  BY <1>1, <3>2, <3>3 DEF LookInv
    <3>5. m \in {p[1] : p \in suites}
      <4>1. <<m, f>>[1] = m  OBVIOUS
      <4> QED  BY <3>4, <4>1
    <3> QED  BY <2>3, <3>5 DEF ToRun, Run!Known
  <2>4. runner \in {"cocotb", "parity"}  BY <1>1 DEF ListInv
  <2> QED  BY <2>1, <2>2, <2>3, <2>4
<1>3. PICK k \in 1 .. Len(todo) : todo[k] = m  BY <1>1, <1>2 DEF ToDo
<1>4. PICK l \in 1 .. Len(hdls) : hdls[l] = h
  <2>1. DOMAIN hdls = 1 .. Len(hdls)
    <3>1. CASE hdls = <<"verilog">>  BY <3>1
    <3>2. CASE hdls = <<"vhdl">>  BY <3>2
    <3>3. CASE hdls = <<"verilog", "vhdl">>  BY <3>3
    <3>4. CASE hdls = <<"both">>  BY <3>4
    <3> QED  BY <1>1, <3>1, <3>2, <3>3, <3>4 DEF ListInv
  <2> QED  BY <2>1 DEF Run!Elements
<1>5. Past(k, l)
  <2>1. Len(todo) \in Nat  BY <1>1 DEF ToDo
  <2>2. k < Len(todo) + 1  BY <2>1
  <2> QED  BY <1>1, <2>2 DEF Past
<1>6. Listed(todo[k], hdls[l])  BY <1>1, <1>5 DEF Jobs
<1> QED  BY <1>3, <1>4, <1>6

LEMMA RunShows == RunInv => GreenMeansAllRan
<1> SUFFICES ASSUME RunInv PROVE Run!GreenMeansAllRan  BY DEF GreenMeansAllRan
<1>1. ASSUME pc = "exit0"
      PROVE  /\ \A n \in Run!Wanted, h \in Run!Elements(hdls) :
                  \/ \E i \in DOMAIN jobs : jobs[i] = <<n, h>>
                  \/ h = "vhdl" /\ n \in NoVhdl \cap skipped
             /\ \A i \in DOMAIN jobs : /\ Len(codes[i]) = Run!Commands
                                       /\ \A k \in 1 .. Run!Commands : codes[i][k].rc = 0
             /\ (named = <<>> /\ runner = "cocotb") => suites = Run!Declared
             /\ Run!Running = {}
  <2>1. pc \in Ran  BY <1>1 DEF Ran
  <2>2. /\ PoolTypes /\ DOMAIN jobs = 1 .. Len(jobs) /\ results = Len(jobs)
        /\ \A i \in 1 .. Len(jobs) : ~Run!Failed(i)
        /\ ~Run!BrokenFails
    BY <1>1, <2>1, PoolFacts DEF RunInv, PoolInv
  <2>3. /\ \A i : ~Active(i)
        /\ \A i \in 1 .. Len(jobs) : Len(codes[i]) = Run!Commands
    BY <2>1, <2>2, AllOver
  <2>4. ASSUME NEW n \in Run!Wanted, NEW h \in Run!Elements(hdls)
        PROVE  \/ \E i \in DOMAIN jobs : jobs[i] = <<n, h>>
               \/ h = "vhdl" /\ n \in NoVhdl \cap skipped
    BY <1>1, <2>2, WantedIsListed DEF Listed
  <2>5. ASSUME NEW i \in DOMAIN jobs
        PROVE  /\ Len(codes[i]) = Run!Commands
               /\ \A k \in 1 .. Run!Commands : codes[i][k].rc = 0
    <3>1. codes[i] \in Seq(Code) /\ Len(codes[i]) = Run!Commands /\ ~Run!Failed(i)
      BY <2>2, <2>3 DEF PoolTypes
    <3>2. DOMAIN codes[i] = 1 .. Run!Commands  BY <3>1
    <3> QED  BY <3>1, <3>2 DEF Run!Failed
  <2>6. ASSUME named = <<>>, runner = "cocotb" PROVE suites = Run!Declared
    <3>1. LookInv /\ looked = Len(files) /\ DOMAIN files = 1 .. Len(files)
      <4>1. LookInv /\ looked = Len(files)  BY <2>1 DEF RunInv, LookInv
      <4>2. DOMAIN files = 1 .. Len(files)  BY <4>1 DEF LookInv
      <4> QED  BY <4>1, <4>2
    <3>2. broken = {}  BY <2>2, <2>6 DEF Run!BrokenFails
    <3>3. /\ \A p \in suites : \E f \in DOMAIN files : \E m \in files[f].suites : p = <<m, f>>
          /\ \A f \in DOMAIN files : \A m \in files[f].suites : <<m, f>> \in suites
      BY <3>1, <3>2 DEF LookInv
    <3>4. ASSUME NEW p \in suites PROVE p \in Run!Declared
      <4>1. PICK f \in DOMAIN files : \E m \in files[f].suites : p = <<m, f>>  BY <3>3
      <4>2. p \in files[f].suites \X {f}  BY <4>1
      <4> QED  BY <4>2 DEF Run!Declared
    <3>5. ASSUME NEW p \in Run!Declared PROVE p \in suites
      <4>1. PICK f \in DOMAIN files : p \in files[f].suites \X {f}  BY <3>5 DEF Run!Declared
      <4>2. PICK m \in files[f].suites : p = <<m, f>>  BY <4>1
      <4> QED  BY <3>3, <4>2
    <3> QED  BY <3>4, <3>5
  <2> QED  BY <2>3, <2>4, <2>5, <2>6, RunningIs
<1>2. ASSUME pc = "exit1"
      PROVE  /\ \/ \E i \in DOMAIN jobs : Run!Failed(i) \/ i \in raised
                \/ named = <<>> /\ broken # {}
             /\ Run!Running = {}
  <2>1. pc \in Ran  BY <1>2 DEF Ran
  <2>2. /\ DOMAIN jobs = 1 .. Len(jobs)
        /\ \/ \E i \in 1 .. Len(jobs) : Run!Failed(i) \/ i \in raised
           \/ Run!BrokenFails
        /\ \A i \in 1 .. started : ~Active(i)
    BY <1>2, <2>1, PoolFacts DEF RunInv, PoolInv
  <2>3. \A i : ~Active(i)  BY <2>2 DEF Active
  <2> QED  BY <2>2, <2>3, RunningIs DEF Run!BrokenFails
<1>3. pc = "exit2" => Run!Running = {}
  <2>1. pc = "exit2" => started = 0  BY DEF RunInv, PoolInv, Early
  <2> QED  BY <2>1 DEF Run!Running
<1>4. ASSUME workers <= 1 \/ Run!Apart, NEW i \in DOMAIN codes, NEW k \in DOMAIN codes[i]
      PROVE  codes[i][k].of = i
  <2>1. Alone  BY <1>4 DEF Alone
  <2>2. pc \in Ran
    <3>1. pc \in Early => codes = <<>>  BY DEF RunInv, PoolInv
    <3>2. DOMAIN <<>> = {}  OBVIOUS
    <3> QED  BY <1>4, <3>1, <3>2 DEF RunInv
  <2>3. codes \in [1 .. Len(jobs) -> Seq(Code)]  BY <2>2, PoolFacts DEF PoolTypes
  <2>4. i \in 1 .. Len(jobs) /\ codes[i] \in Seq(Code)  BY <1>4, <2>3
  <2>5. DOMAIN codes[i] = 1 .. Len(codes[i])  BY <2>4
  <2> QED  BY <1>4, <2>1, <2>2, <2>4, <2>5 DEF RunInv, OwnInv
<1> QED  BY <1>1, <1>2, <1>3, <1>4 DEF Run!GreenMeansAllRan

LEMMA RunRuns == Spec => Run!Init /\ [][Run!Next]_(Run!vars)
<1>1. Init => Run!Init  BY DEF Init
<1>2. [Next]_allVars => [Run!Next]_(Run!vars)
  <2>1. CASE RunRun  BY <2>1 DEF RunRun
  <2>2. ASSUME UNCHANGED runVars PROVE UNCHANGED Run!vars
    BY <2>2 DEF runVars, Run!vars, Run!asked, Run!found, Run!listed, Run!ran
  <2>3. CASE RunCsum  BY <2>2, <2>3 DEF RunCsum
  <2>4. CASE RunSaf  BY <2>2, <2>4 DEF RunSaf, SafStep
  <2>5. CASE UNCHANGED allVars  BY <2>2, <2>5 DEF allVars
  <2> QED  BY <2>1, <2>3, <2>4, <2>5 DEF Next
<1> QED  BY <1>1, <1>2, PTL DEF Spec

\* Exit code 0 means that all that was asked for ran and passed, whatever the threads of the
\* pool do in whatever order; exit code 1 has a reason; no process is left behind; and when
\* one job runs at a time, or the names are apart, no verdict is on another job's build
\* (run.py 67-93, 129-169, 199-268; run_all.py 33-96).
THEOREM GreenRunRanAll == Spec => []GreenMeansAllRan
<1>1. Run!Init => RunInv  BY RunStarts
<1>2. RunInv /\ [Run!Next]_(Run!vars) => RunInv'  BY RunSteps
<1>3. RunInv => GreenMeansAllRan  BY RunShows
<1> QED  BY <1>1, <1>2, <1>3, RunRuns, PTL
=============================================================================
