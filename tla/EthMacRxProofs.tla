--------------------------- MODULE EthMacRxProofs ---------------------------
(***************************************************************************)
(* Proofs about the receive path for every FIFO depth, every frame limit   *)
(* and frames of any length.                                               *)
(***************************************************************************)
EXTENDS EthMacRx, TLAPS, SequenceTheorems

Moving == IF push_r.en THEN 1 ELSE 0

\* The headroom argument.  FifoRoom looks at the stored words only, one word may
\* be on its way in push_r, and the word pushed on its verdict arrives after
\* that one: below the mark of Depth - 4 the stored and moving words come to at
\* most Depth - 3.  The closing word of the one open frame adds one more.
Headroom ==
  /\ Len(q) + Moving <= Depth - 2
  /\ frame_started => Len(q) + Moving <= Depth - 3

\* What a started frame is: it passed the filter, its address is complete, and
\* its end has not been seen.
StartedInv ==
  frame_started => /\ mac_ok
                   /\ byte_cnt >= DstLen
                   /\ state \in {"DATA", "CRC_CHECK"}

-----------------------------------------------------------------------------
\* The FIFO keeps its type, and grows by no more than the registered push.
LEMMA FifoStep ==
  ASSUME TypeOK, NEW tready \in BOOLEAN, FifoClock(tready)
  PROVE  /\ q' \in Seq(Word)
         /\ dout_valid' \in BOOLEAN
         /\ dout_valid' => dout' \in Word
         /\ sink' \in [mid : BOOLEAN, next : Nat, gap : BOOLEAN]
         /\ Len(q') <= Len(q) + Moving
<1> DEFINE rest == IF Fifo!IssueRead(tready) THEN Tail(q) ELSE q
<1>1. /\ rest \in Seq(Word) /\ Len(rest) \in Nat /\ Len(rest) <= Len(q)
      /\ Fifo!IssueRead(tready) => Head(q) \in Word
  BY DEF TypeOK, Fifo!IssueRead
<1>2. push_r.word \in Word /\ push_r.en \in BOOLEAN
  BY DEF TypeOK
<1>3. \/ q' = rest
      \/ push_r.en /\ q' = Append(rest, push_r.word)
  BY DEF FifoClock, Fifo!Clock
<1>4. q' \in Seq(Word) /\ Len(q') <= Len(q) + Moving
  <2> HIDE DEF rest
  <2>1. CASE q' = rest
    BY <2>1, <1>1 DEF TypeOK, Moving
  <2>2. CASE push_r.en /\ q' = Append(rest, push_r.word)
    <3>1. Moving = 1
      BY <2>2 DEF Moving
    <3>2. Len(q') = Len(rest) + 1 /\ q' \in Seq(Word)
      BY <2>2, <1>1, <1>2, AppendProperties
    <3> QED BY <3>1, <3>2, <1>1 DEF TypeOK
  <2> QED BY <2>1, <2>2, <1>3
<1>5. dout_valid' \in BOOLEAN /\ (dout_valid' => dout' \in Word)
  BY <1>1, Zenon DEF TypeOK, FifoClock, Fifo!Clock
<1>6. sink' \in [mid : BOOLEAN, next : Nat, gap : BOOLEAN]
  <2>1. dout_valid => dout.data + 1 \in Nat
    BY DEF TypeOK, Word
  <2> QED BY <2>1 DEF TypeOK, FifoClock, SinkIdle, SinkTakes
<1> QED BY <1>4, <1>5, <1>6

\* Facts about the operators the push and the statistics are built from.
LEMMA PushTypes ==
  ASSUME NEW d \in Nat, NEW e \in BOOLEAN
  PROVE  /\ Push(SofWord(d)) \in [en : BOOLEAN, word : Word]
         /\ Push(DataWord(d)) \in [en : BOOLEAN, word : Word]
         /\ Push(LastWord(d, e)) \in [en : BOOLEAN, word : Word]
BY DEF Push, SofWord, DataWord, LastWord, Word

\* The empty push register has its type.
LEMMA NoPushType == NoPush \in [en : BOOLEAN, word : Word] /\ ~NoPush.en
BY DEF NoPush, DataWord, Word

\* The overflow of the FIFO is a flag.
LEMMA OverflowIsBoolean ==
  ASSUME NEW tready \in BOOLEAN
  PROVE  FifoOverflow(tready) \in BOOLEAN
BY DEF FifoOverflow, Fifo!Overflow, Fifo!PushOk, Fifo!IssueRead

\* The registers S_IDLE and S_PREAMBLE set keep their ranges.
LEMMA StartFrameTypes ==
  ASSUME NEW tready \in BOOLEAN, NEW line \in Lines, NEW er \in BOOLEAN,
         StartFrame(line, er, tready)
  PROVE  /\ state' \in States
         /\ byte_cnt' \in 0 .. CntMax
         /\ {mac_ok, frame_started, rx_er_seen, rx_overflow_seen, vlan_tag}'
               \subseteq BOOLEAN
         /\ delay_pipe' \in [0 .. 5 -> Nat]
         /\ wire_pos' \in Nat
<1>1. state' \in States
  BY DEF StartFrame, AfterLine, Lines, States
<1>2. byte_cnt' \in 0 .. CntMax /\ wire_pos' \in Nat
  BY RxAssumption DEF StartFrame
<1>3. delay_pipe' \in [0 .. 5 -> Nat]
  BY DEF StartFrame, NoByte
<1>4. {mac_ok, frame_started, rx_er_seen, rx_overflow_seen, vlan_tag}'
        \subseteq BOOLEAN
  BY OverflowIsBoolean DEF StartFrame
<1> QED BY <1>1, <1>2, <1>3, <1>4

\* So do those of S_CRC_CHECK.
LEMMA CrcCheckTypes ==
  ASSUME TypeOK, NEW bad \in BOOLEAN, NEW jumbo \in BOOLEAN
  PROVE  /\ CrcCheckPush(bad, jumbo) \in [en : BOOLEAN, word : Word]
         /\ CrcCheckStat(bad, jumbo) \in
              [kind : {"none", "done", "drop"}, len : 0 .. CntMax,
               err : BOOLEAN]
<1>1. FrameErr(bad, jumbo) \in BOOLEAN
  BY DEF FrameErr, Oversize, Undersize
<1>2. delay_pipe[1] \in Nat
  BY DEF TypeOK
<1>3. CrcCheckPush(bad, jumbo) \in [en : BOOLEAN, word : Word]
  BY <1>1, <1>2, PushTypes, NoPushType DEF CrcCheckPush
<1>4. CrcCheckStat(bad, jumbo) \in
        [kind : {"none", "done", "drop"}, len : 0 .. CntMax, err : BOOLEAN]
  BY <1>1, RxAssumption DEF CrcCheckStat, TypeOK, NoStat
<1> QED BY <1>3, <1>4

\* So does the idle statistics word.
LEMMA NoStatType ==
  NoStat \in [kind : {"none", "done", "drop"}, len : 0 .. CntMax,
              err : BOOLEAN]
BY RxAssumption DEF NoStat

\* Every register keeps its range; in particular byte_cnt stays within its 14
\* bits because it saturates.
LEMMA TypeStep == TypeOK /\ [Next]_vars => TypeOK'
<1> SUFFICES ASSUME TypeOK, [Next]_vars PROVE TypeOK'
  OBVIOUS
<1>1. CASE UNCHANGED vars
  BY <1>1 DEF TypeOK, vars, fsm, fifo
<1>2. CASE Next
  <2>0. PICK tready \in BOOLEAN : Edge(tready)
    BY <1>2 DEF Next
  <2>1. ASSUME NEW line \in Lines, NEW er \in BOOLEAN, Idle(line, er, tready)
        PROVE  TypeOK'
    <3>1. FifoClock(tready) /\ StartFrame(line, er, tready)
      BY <2>1 DEF Idle
    <3> QED BY <2>1, <3>1, FifoStep, NoPushType, StartFrameTypes, NoStatType
        DEF Idle, TypeOK
  <2>2. ASSUME NEW line \in Lines, NEW er \in BOOLEAN,
               Preamble(line, er, tready)
        PROVE  TypeOK'
    <3>1. state' \in States
      BY <2>2 DEF Preamble, AfterLine, Lines, States
    <3>2. {mac_ok, frame_started, rx_er_seen, rx_overflow_seen, vlan_tag}'
            \subseteq BOOLEAN
      BY <2>2, OverflowIsBoolean DEF Preamble, TypeOK
    <3> QED BY <2>2, <3>1, <3>2, FifoStep, NoPushType, NoStatType
        DEF Preamble, TypeOK
  <2>3. ASSUME NEW line \in Lines, NEW er \in BOOLEAN,
               NEW bad \in BOOLEAN, NEW jumbo \in BOOLEAN,
               CrcCheck(line, er, bad, jumbo, tready)
        PROVE  TypeOK'
    BY <2>3, FifoStep, StartFrameTypes, CrcCheckTypes DEF CrcCheck, TypeOK
  <2>4. ASSUME NEW er \in BOOLEAN, NEW mac_pass \in BOOLEAN,
               NEW tagged \in BOOLEAN, DataByte(er, mac_pass, tagged, tready)
        PROVE  TypeOK'
    <3>1. byte_cnt' \in 0 .. CntMax
      BY <2>4, RxAssumption DEF DataByte, TypeOK, CountByte
    <3>2. {mac_ok, frame_started, rx_er_seen, rx_overflow_seen, vlan_tag}'
            \subseteq BOOLEAN
      BY <2>4, OverflowIsBoolean DEF DataByte, TypeOK, StartsHere, InStarted
    <3>3. delay_pipe' \in [0 .. 5 -> Nat] /\ wire_pos' \in Nat
      BY <2>4 DEF DataByte, TypeOK
    <3>4. push_r' \in [en : BOOLEAN, word : Word]
      <4>1. delay_pipe[1] \in Nat
        BY DEF TypeOK
      <4> QED BY <2>4, <4>1, PushTypes, NoPushType DEF DataByte, DataPush
    <3> QED BY <2>4, <3>1, <3>2, <3>3, <3>4, FifoStep, NoStatType
        DEF DataByte, TypeOK
  <2>5. ASSUME NEW er \in BOOLEAN, DataEnd(er, tready)
        PROVE  TypeOK'
    <3>1. state' \in States
      BY <2>5 DEF DataEnd, States
    <3>2. {mac_ok, frame_started, rx_er_seen, rx_overflow_seen, vlan_tag}'
            \subseteq BOOLEAN
      BY <2>5, OverflowIsBoolean DEF DataEnd, TypeOK
    <3> QED BY <2>5, <3>1, <3>2, FifoStep, NoPushType, NoStatType
        DEF DataEnd, TypeOK
  <2>6. ASSUME NEW dv \in BOOLEAN, Drop(dv, tready)
        PROVE  TypeOK'
    <3>1. state' \in States
      BY <2>6 DEF Drop, States
    <3>2. {mac_ok, frame_started, rx_er_seen, rx_overflow_seen, vlan_tag}'
            \subseteq BOOLEAN
      BY <2>6, OverflowIsBoolean DEF Drop, TypeOK
    <3> QED BY <2>6, <3>1, <3>2, FifoStep, NoPushType, NoStatType
        DEF Drop, TypeOK
  <2>7. \A er \in LineErrors : er \in BOOLEAN
    BY RxAssumption, Zenon
  <2> QED BY <2>0, <2>1, <2>2, <2>3, <2>4, <2>5, <2>6, <2>7 DEF Edge, Choice
<1> QED BY <1>1, <1>2

\* An edge keeps what an open frame is.
LEMMA StartedStep == TypeOK /\ StartedInv /\ [Next]_vars => StartedInv'
<1> SUFFICES ASSUME TypeOK, StartedInv, [Next]_vars PROVE StartedInv'
  OBVIOUS
<1> USE DEF StartedInv
<1>1. CASE UNCHANGED vars
  BY <1>1 DEF vars, fsm
<1>2. CASE Next
  <2>0. PICK tready \in BOOLEAN : Edge(tready)
    BY <1>2 DEF Next
  <2>1. ASSUME NEW line, NEW er, Idle(line, er, tready)
        PROVE  StartedInv'
    BY <2>1 DEF Idle, StartFrame
  <2>2. ASSUME NEW line, NEW er, Preamble(line, er, tready)
        PROVE  StartedInv'
    BY <2>2 DEF Preamble
  <2>3. ASSUME NEW line, NEW er, NEW bad, NEW jumbo,
               CrcCheck(line, er, bad, jumbo, tready)
        PROVE  StartedInv'
    BY <2>3 DEF CrcCheck, StartFrame
  <2>4. ASSUME NEW er, NEW mac_pass \in BOOLEAN, NEW tagged,
               DataByte(er, mac_pass, tagged, tready)
        PROVE  StartedInv'
    <3>1. byte_cnt \in Nat /\ byte_cnt <= byte_cnt' /\ byte_cnt' \in Nat
      BY <2>4, RxAssumption DEF DataByte, CountByte, TypeOK
    <3>2. CASE StartsHere(mac_pass)
      <4>1. DstLen = 6 /\ CntMax \in Nat /\ CntMax > 6
        BY RxAssumption
      <4>2. byte_cnt = 5 /\ mac_pass
        BY <3>2, <4>1 DEF StartsHere
      <4>3. byte_cnt' = 6
        BY <2>4, <4>1, <4>2 DEF DataByte, CountByte
      <4>4. mac_ok' /\ state' = "DATA"
        BY <2>4, <4>1, <4>2 DEF DataByte
      <4> QED BY <4>1, <4>3, <4>4
    <3>3. CASE ~StartsHere(mac_pass)
      BY <2>4, <3>1, <3>3, RxAssumption DEF DataByte, TypeOK
    <3> QED BY <3>2, <3>3
  <2>5. ASSUME NEW er, DataEnd(er, tready)
        PROVE  StartedInv'
    BY <2>5 DEF DataEnd
  <2>6. ASSUME NEW dv, Drop(dv, tready)
        PROVE  StartedInv'
    BY <2>6 DEF Drop
  <2> QED BY <2>0, <2>1, <2>2, <2>3, <2>4, <2>5, <2>6 DEF Edge, Choice
<1> QED BY <1>1, <1>2

\* Below the mark, or with at most Depth - 1 words stored, no push is refused.
LEMMA HeadroomSuffices ==
  ASSUME TypeOK, Headroom, NEW tready \in BOOLEAN
  PROVE  ~FifoOverflow(tready)
<1>1. Len(q) \in Nat /\ push_r.en \in BOOLEAN
  BY DEF TypeOK
<1>2. Len(q) # Depth
  BY <1>1, RxAssumption DEF Headroom, Moving
<1> QED BY <1>2 DEF FifoOverflow, Fifo!Overflow, Fifo!PushOk

\* An edge keeps the room for what is in the push register and the closing word.
LEMMA HeadroomStep ==
  TypeOK /\ StartedInv /\ Headroom /\ [Next]_vars => Headroom'
<1> SUFFICES ASSUME TypeOK, StartedInv, Headroom, [Next]_vars PROVE Headroom'
  OBVIOUS
<1>0. /\ Len(q) \in Nat /\ Depth \in Nat
      /\ Moving \in {0, 1}
      /\ push_r.en \in BOOLEAN
      /\ TypeOK'
  BY TypeStep, RxAssumption DEF TypeOK, Moving
<1>a. Len(q') \in Nat /\ Moving' \in {0, 1}
  BY <1>0 DEF TypeOK, Moving
<1>1. CASE UNCHANGED vars
  BY <1>1 DEF vars, fsm, fifo, Headroom, Moving
<1>2. CASE Next
  <2>0. PICK tready \in BOOLEAN : Edge(tready)
    BY <1>2 DEF Next
  <2>a. ASSUME FifoClock(tready), push_r' = NoPush,
               frame_started' => frame_started
        PROVE  Headroom'
    <3>1. Moving' = 0
      BY <2>a, NoPushType DEF Moving
    <3>2. Len(q') <= Len(q) + Moving
      BY <2>a, FifoStep
    <3> QED BY <2>a, <3>1, <3>2, <1>0, <1>a DEF Headroom
  <2>1. ASSUME NEW line, NEW er, Idle(line, er, tready)
        PROVE  Headroom'
    BY <2>1, <2>a DEF Idle, StartFrame
  <2>2. ASSUME NEW line, NEW er, Preamble(line, er, tready)
        PROVE  Headroom'
    BY <2>2, <2>a DEF Preamble
  <2>3. ASSUME NEW line, NEW er, NEW bad, NEW jumbo,
               CrcCheck(line, er, bad, jumbo, tready)
        PROVE  Headroom'
    <3>1. FifoClock(tready) /\ ~frame_started'
      BY <2>3 DEF CrcCheck, StartFrame
    <3>2. Len(q') <= Len(q) + Moving
      BY <3>1, FifoStep
    <3>3. CASE frame_started
      BY <3>1, <3>2, <3>3, <1>0, <1>a DEF Headroom
    <3>4. CASE ~frame_started
      <4>1. push_r' = NoPush
        BY <2>3, <3>4 DEF CrcCheck, CrcCheckPush
      <4> QED BY <3>1, <4>1, <2>a
    <3> QED BY <3>3, <3>4
  <2>4. ASSUME NEW er, NEW mac_pass \in BOOLEAN, NEW tagged,
               DataByte(er, mac_pass, tagged, tready)
        PROVE  Headroom'
    <3>1. FifoClock(tready)
      BY <2>4 DEF DataByte
    <3>2. Len(q') <= Len(q) + Moving
      BY <3>1, FifoStep
    <3>3. CASE FifoRoom
      BY <3>2, <3>3, <1>0, <1>a DEF Headroom, FifoRoom
    <3>4. CASE ~FifoRoom
      <4>1. push_r' = NoPush /\ frame_started' = frame_started
        BY <2>4, <3>4 DEF DataByte, DataPush, StartsHere, TypeOK
      <4> QED BY <3>1, <4>1, <2>a
    <3> QED BY <3>3, <3>4
  <2>5. ASSUME NEW er, DataEnd(er, tready)
        PROVE  Headroom'
    BY <2>5, <2>a DEF DataEnd
  <2>6. ASSUME NEW dv, Drop(dv, tready)
        PROVE  Headroom'
    BY <2>6, <2>a DEF Drop
  <2> QED BY <2>0, <2>1, <2>2, <2>3, <2>4, <2>5, <2>6 DEF Edge, Choice
<1> QED BY <1>1, <1>2

-----------------------------------------------------------------------------
\* The flags of the words in a sequence.
LEMMA WordsOfSeq ==
  ASSUME NEW s \in Seq(Word)
  PROVE  \A i \in 1 .. Len(s) : s[i].last \in BOOLEAN /\ s[i].sof \in BOOLEAN
<1>1. \A i \in 1 .. Len(s) : s[i] \in Word
  OBVIOUS
<1>2. \A w \in Word : w.last \in BOOLEAN /\ w.sof \in BOOLEAN
  BY DEF Word
<1> QED BY <1>1, <1>2

\* Head and tail of a word put before a sequence.
LEMMA HeadTailOfCons ==
  ASSUME NEW S, NEW e \in S, NEW s \in Seq(S)
  PROVE  /\ <<e>> \o s # << >>
         /\ Head(<<e>> \o s) = e
         /\ Tail(<<e>> \o s) = s
<1> DEFINE t == <<e>> \o s
<1>1. <<e>> \in Seq(S) /\ Len(<<e>>) = 1 /\ <<e>>[1] = e /\ Len(s) \in Nat
  OBVIOUS
<1>2. /\ t \in Seq(S) /\ Len(t) = 1 + Len(s)
      /\ \A i \in 1 .. 1 + Len(s) : t[i] = IF i <= 1 THEN <<e>>[i] ELSE s[i - 1]
  BY <1>1, ConcatProperties
<1> HIDE DEF t
<1>3. t # << >> /\ Head(t) = e
  BY <1>1, <1>2
<1>4. /\ Tail(t) \in Seq(S) /\ Len(Tail(t)) = Len(s)
      /\ \A i \in 1 .. Len(s) : Tail(t)[i] = s[i]
  <2>1. Tail(t) \in Seq(S) /\ Len(Tail(t)) = Len(s)
    BY <1>1, <1>2, <1>3, HeadTailProperties
  <2>2. \A i \in 1 .. Len(s) : Tail(t)[i] = t[i + 1]
    BY <2>1, <1>2, <1>3, HeadTailProperties
  <2>3. \A i \in 1 .. Len(s) : t[i + 1] = s[i]
    BY <1>1, <1>2
  <2> QED BY <2>1, <2>2, <2>3
<1>5. Tail(t) = s
  BY <1>4, SeqEqual
<1> QED BY <1>3, <1>5 DEF t

\* Framing survives the sink taking a word.
LEMMA FramedTail ==
  ASSUME NEW s \in Seq(Word), s # << >>, NEW mid \in BOOLEAN,
         NEW open \in BOOLEAN, Framed(mid, s, open)
  PROVE  Framed(~Head(s).last, Tail(s), open)
<1>1. /\ Len(s) \in Nat \ {0} /\ Tail(s) \in Seq(Word)
      /\ Len(Tail(s)) = Len(s) - 1
      /\ \A i \in 1 .. Len(s) - 1 : Tail(s)[i] = s[i + 1]
      /\ Head(s) = s[1]
  OBVIOUS
<1>2. Tail(s) # << >> => Len(s) > 1
  BY <1>1
<1>3. \A i \in 1 .. Len(s) : s[i].last \in BOOLEAN /\ s[i].sof \in BOOLEAN
  BY WordsOfSeq
<1>4. Tail(s) # << >> => Tail(s)[1].sof = ~(~Head(s).last)
  BY <1>1, <1>2, <1>3 DEF Framed
<1>5. \A i \in 1 .. Len(Tail(s)) - 1 : Tail(s)[i + 1].sof = Tail(s)[i].last
  BY <1>1 DEF Framed
<1>6. open = IF Tail(s) = << >> THEN ~Head(s).last
                                ELSE ~Tail(s)[Len(Tail(s))].last
  <2>1. open = ~s[Len(s)].last
    BY DEF Framed
  <2>2. CASE Tail(s) = << >>
    <3>1. Len(s) = 1
      <4>1. Len(Tail(s)) = 0
        BY <2>2, <1>1, EmptySeq
      <4> QED BY <4>1, <1>1
    <3> QED BY <2>1, <2>2, <3>1, <1>1
  <2>3. CASE Tail(s) # << >>
    <3>1. Tail(s)[Len(Tail(s))] = s[Len(s)]
      BY <2>3, <1>1, <1>2
    <3> QED BY <2>1, <2>3, <3>1
  <2> QED BY <2>2, <2>3
<1> QED BY <1>4, <1>5, <1>6 DEF Framed

\* Framing survives a word that fits.
LEMMA FramedAppend ==
  ASSUME NEW s \in Seq(Word), NEW mid \in BOOLEAN, NEW open \in BOOLEAN,
         Framed(mid, s, open), NEW w \in Word, w.sof = ~open
  PROVE  Framed(mid, Append(s, w), ~w.last)
<1> DEFINE t == Append(s, w)
<1>1. /\ Len(s) \in Nat /\ t \in Seq(Word) /\ Len(t) = Len(s) + 1
      /\ \A i \in 1 .. Len(s) : t[i] = s[i]
      /\ t[Len(s) + 1] = w
      /\ t # << >>
  OBVIOUS
<1>2. \A i \in 1 .. Len(s) : s[i].last \in BOOLEAN /\ s[i].sof \in BOOLEAN
  BY WordsOfSeq
<1> HIDE DEF t
<1>3. t[1].sof = ~mid
  <2>1. CASE s = << >>
    BY <2>1, <1>1 DEF Framed
  <2>2. CASE s # << >>
    BY <2>2, <1>1 DEF Framed
  <2> QED BY <2>1, <2>2
<1>4. ASSUME NEW i \in 1 .. Len(t) - 1
      PROVE  t[i + 1].sof = t[i].last
  <2>1. CASE i = Len(s)
    BY <2>1, <1>1, <1>2 DEF Framed
  <2>2. CASE i # Len(s)
    BY <2>2, <1>1 DEF Framed
  <2> QED BY <2>1, <2>2
<1>5. ~w.last = ~t[Len(t)].last
  BY <1>1
<1> QED BY <1>1, <1>3, <1>4, <1>5 DEF Framed, t

\* One edge drops the word the sink took from the front of the stream and adds
\* the newly registered push at its end; nothing else moves.
LEMMA StreamStep ==
  ASSUME TypeOK, TypeOK', Headroom, NEW tready \in BOOLEAN, FifoClock(tready)
  PROVE  /\ Stream \in Seq(Word)
         /\ dout_valid => Stream # << >> /\ Head(Stream) = dout
         /\ Stream' = (IF dout_valid /\ tready THEN Tail(Stream) ELSE Stream)
                         \o Coming'
<1> DEFINE taken == IF dout_valid /\ tready THEN Tail(Stream) ELSE Stream
<1>1. /\ q \in Seq(Word) /\ q' \in Seq(Word)
      /\ Shown \in Seq(Word) /\ Coming \in Seq(Word) /\ Coming' \in Seq(Word)
      /\ dout_valid => Shown = <<dout>> /\ dout \in Word
      /\ ~dout_valid => Shown = << >>
      /\ dout_valid \in BOOLEAN
  BY DEF TypeOK, Shown, Coming
<1>2. Stream \in Seq(Word) /\ (dout_valid => Stream # << >> /\ Head(Stream) = dout)
  BY <1>1 DEF Stream
<1>3. q' = (IF Fifo!IssueRead(tready) THEN Tail(q) ELSE q) \o Coming
  <2>1. ~FifoOverflow(tready)
    BY HeadroomSuffices
  <2>2. CASE push_r.en
    BY <2>1, <2>2, <1>1
       DEF FifoClock, Fifo!Clock, FifoOverflow, Fifo!Overflow, Coming
  <2>3. CASE ~push_r.en
    <3>1. q' = IF Fifo!IssueRead(tready) THEN Tail(q) ELSE q
      BY <2>3 DEF FifoClock, Fifo!Clock
    <3>2. Coming = << >>
      BY <2>3 DEF Coming
    <3> QED BY <3>1, <3>2, <1>1, ConcatEmptySeq
  <2> QED BY <2>2, <2>3
<1>5. (~dout_valid \/ tready) => taken = q \o Coming
  <2>1. CASE ~dout_valid
    BY <2>1, <1>1, ConcatEmptySeq DEF Stream
  <2>2. CASE dout_valid /\ tready
    <3>1. Stream = <<dout>> \o (q \o Coming)
      <4>1. Stream = (<<dout>> \o q) \o Coming /\ <<dout>> \in Seq(Word)
        BY <2>2, <1>1 DEF Stream
      <4> QED BY <4>1, <1>1, ConcatAssociative
    <3>2. q \o Coming \in Seq(Word)
      BY <1>1, ConcatProperties
    <3> QED BY <2>2, <3>1, <3>2, <1>1, HeadTailOfCons
  <2> QED BY <2>1, <2>2
<1>4. Shown' \o q' = taken
  <2>1. CASE q # << >> /\ (~dout_valid \/ tready)
    <3>1. /\ Shown' = <<Head(q)>> /\ q' = Tail(q) \o Coming
      BY <2>1, <1>3 DEF FifoClock, Fifo!Clock, Fifo!IssueRead, Shown
    <3>2. <<Head(q)>> \o (Tail(q) \o Coming) = q \o Coming
      BY <2>1, <1>1
    <3>3. taken = q \o Coming
      BY <2>1, <1>1, <1>5 DEF Stream
    <3> QED BY <3>1, <3>2, <3>3
  <2>2. CASE q = << >> /\ (~dout_valid \/ tready)
    <3>1. Shown' = << >>
      BY <2>2, <1>1 DEF FifoClock, Fifo!Clock, Fifo!IssueRead, Shown
    <3>a. q' = Coming
      BY <2>2, <1>3, <1>1, ConcatEmptySeq DEF Fifo!IssueRead
    <3>2. taken = Coming
      BY <2>2, <1>1, <1>5, ConcatEmptySeq
    <3> QED BY <3>1, <3>a, <3>2, <1>1, ConcatEmptySeq
  <2>3. CASE dout_valid /\ ~tready
    <3>1. Shown' = Shown /\ q' = q \o Coming
      BY <2>3, <1>3 DEF FifoClock, Fifo!Clock, Fifo!IssueRead, Shown
    <3> QED BY <3>1, <2>3, <1>1 DEF Stream
  <2> QED BY <2>1, <2>2, <2>3
<1> QED BY <1>2, <1>4 DEF Stream

\* An edge leaves the framing intact if it pushes nothing and neither opens nor
\* closes a frame, or if it pushes the word that the open or closed frame calls
\* for.
LEMMA FramingEdge ==
  ASSUME TypeOK, TypeOK', Headroom, FramingIntact,
         NEW tready \in BOOLEAN, FifoClock(tready),
         \/ push_r' = NoPush /\ frame_started' = frame_started
         \/ /\ push_r'.en
            /\ push_r'.word.sof = ~frame_started
            /\ frame_started' = ~push_r'.word.last
  PROVE  FramingIntact'
<1> DEFINE taken == IF dout_valid /\ tready THEN Tail(Stream) ELSE Stream
<1>1. /\ Stream \in Seq(Word) /\ Stream' = taken \o Coming'
      /\ dout_valid => Stream # << >> /\ Head(Stream) = dout
  BY StreamStep
<1>2. frame_started \in BOOLEAN /\ sink.mid \in BOOLEAN /\ dout_valid \in BOOLEAN
  BY DEF TypeOK
<1>3. taken \in Seq(Word) /\ Framed(sink'.mid, taken, frame_started)
  <2>1. CASE dout_valid /\ tready
    <3>1. dout.last \in BOOLEAN
      BY <2>1 DEF TypeOK, Word
    <3>2. sink'.mid = ~dout.last
      BY <2>1, <3>1 DEF FifoClock, SinkTakes, SinkIdle
    <3>3. Framed(~Head(Stream).last, Tail(Stream), frame_started)
      BY <2>1, <1>1, <1>2, FramedTail DEF FramingIntact
    <3> QED BY <2>1, <3>2, <3>3, <1>1
  <2>2. CASE ~(dout_valid /\ tready)
    BY <2>2, <1>1 DEF FifoClock, FramingIntact
  <2> QED BY <2>1, <2>2
<1> HIDE DEF taken
<1>4. sink'.mid \in BOOLEAN
  BY DEF TypeOK
<1>5. CASE push_r' = NoPush /\ frame_started' = frame_started
  <2>1. Coming' = << >>
    BY <1>5, NoPushType DEF Coming
  <2>2. Stream' = taken
    BY <2>1, <1>1, <1>3, ConcatEmptySeq
  <2> QED BY <2>2, <1>3, <1>5 DEF FramingIntact
<1>6. CASE /\ push_r'.en
           /\ push_r'.word.sof = ~frame_started
           /\ frame_started' = ~push_r'.word.last
  <2>1. push_r'.word \in Word
    BY DEF TypeOK
  <2>2. Stream' = Append(taken, push_r'.word)
    BY <1>6, <2>1, <1>1, <1>3, AppendIsConcat DEF Coming
  <2>3. Framed(sink'.mid, Append(taken, push_r'.word), ~push_r'.word.last)
    BY <2>1, <1>6, <1>2, <1>3, <1>4, FramedAppend
  <2> QED BY <2>2, <2>3, <1>6 DEF FramingIntact
<1> QED BY <1>5, <1>6

\* An edge keeps the framing.
LEMMA FramingStep ==
  TypeOK /\ StartedInv /\ Headroom /\ FramingIntact /\ [Next]_vars
    => FramingIntact'
<1> SUFFICES ASSUME TypeOK, StartedInv, Headroom, FramingIntact, [Next]_vars
             PROVE  FramingIntact'
  OBVIOUS
<1>0. TypeOK' /\ frame_started \in BOOLEAN
  BY TypeStep DEF TypeOK
<1>1. CASE UNCHANGED vars
  BY <1>1 DEF vars, fsm, fifo, FramingIntact, Stream, Shown, Coming
<1>2. CASE Next
  <2>0. PICK tready \in BOOLEAN : Edge(tready)
    BY <1>2 DEF Next
  <2>1. ASSUME NEW line, NEW er, Idle(line, er, tready)
        PROVE  FramingIntact'
    <3>1. frame_started' = frame_started
      BY <2>1, <1>0 DEF Idle, StartFrame, StartedInv
    <3> QED BY <2>1, <3>1, <1>0, FramingEdge DEF Idle
  <2>2. ASSUME NEW line, NEW er, Preamble(line, er, tready)
        PROVE  FramingIntact'
    BY <2>2, <1>0, FramingEdge DEF Preamble
  <2>3. ASSUME NEW line, NEW er, NEW bad \in BOOLEAN, NEW jumbo \in BOOLEAN,
               CrcCheck(line, er, bad, jumbo, tready)
        PROVE  FramingIntact'
    <3>1. FifoClock(tready) /\ frame_started' = FALSE
      BY <2>3 DEF CrcCheck, StartFrame
    <3>2. CASE frame_started
      <4>1. push_r' = Push(LastWord(delay_pipe[1], FrameErr(bad, jumbo)))
        BY <2>3, <3>2 DEF CrcCheck, CrcCheckPush, StartedInv
      <4>2. push_r'.en /\ push_r'.word.sof = FALSE /\ push_r'.word.last = TRUE
        BY <4>1 DEF Push, LastWord
      <4> QED BY <3>1, <3>2, <4>2, <1>0, FramingEdge
    <3>3. CASE ~frame_started
      <4>1. push_r' = NoPush
        BY <2>3, <3>3 DEF CrcCheck, CrcCheckPush
      <4> QED BY <3>1, <3>3, <4>1, <1>0, FramingEdge
    <3> QED BY <3>2, <3>3
  <2>4. ASSUME NEW er, NEW mac_pass \in BOOLEAN, NEW tagged,
               DataByte(er, mac_pass, tagged, tready)
        PROVE  FramingIntact'
    <3>1. FifoClock(tready)
      BY <2>4 DEF DataByte
    <3>2. CASE StartsHere(mac_pass)
      <4>1. ~frame_started
        BY <3>2, RxAssumption DEF StartsHere, StartedInv
      <4>a. frame_started' = TRUE
        BY <2>4, <3>2 DEF DataByte
      <4>2. push_r'.en /\ push_r'.word.sof = TRUE /\ push_r'.word.last = FALSE
        BY <2>4, <3>2 DEF DataByte, DataPush, Push, SofWord
      <4> QED BY <3>1, <4>1, <4>a, <4>2, <1>0, FramingEdge
    <3>3. CASE ~StartsHere(mac_pass) /\ InStarted /\ FifoRoom
      <4>1. frame_started
        BY <3>3 DEF InStarted
      <4>a. frame_started' = TRUE
        BY <2>4, <4>1, <1>0 DEF DataByte
      <4>2. push_r'.en /\ push_r'.word.sof = FALSE /\ push_r'.word.last = FALSE
        BY <2>4, <3>3 DEF DataByte, DataPush, Push, DataWord
      <4> QED BY <3>1, <4>1, <4>a, <4>2, <1>0, FramingEdge
    <3>4. CASE ~StartsHere(mac_pass) /\ ~(InStarted /\ FifoRoom)
      <4>1. push_r' = NoPush /\ frame_started' = frame_started
        BY <2>4, <3>4, <1>0 DEF DataByte, DataPush
      <4> QED BY <3>1, <4>1, <1>0, FramingEdge
    <3> QED BY <3>2, <3>3, <3>4
  <2>5. ASSUME NEW er, DataEnd(er, tready)
        PROVE  FramingIntact'
    BY <2>5, <1>0, FramingEdge DEF DataEnd
  <2>6. ASSUME NEW dv, Drop(dv, tready)
        PROVE  FramingIntact'
    BY <2>6, <1>0, FramingEdge DEF Drop
  <2> QED BY <2>0, <2>1, <2>2, <2>3, <2>4, <2>5, <2>6 DEF Edge, Choice
<1> QED BY <1>1, <1>2

-----------------------------------------------------------------------------
\* The inductive invariant.
RxInv == TypeOK /\ StartedInv /\ Headroom /\ FramingIntact

\* The receiver starts in the invariant.
LEMMA RxInit == Init => RxInv
<1> SUFFICES ASSUME Init PROVE RxInv
  OBVIOUS
<1>1. TypeOK
  <2>1. q \in Seq(Word) /\ sink \in [mid : BOOLEAN, next : Nat, gap : BOOLEAN]
    BY DEF Init, SinkIdle
  <2>2. delay_pipe \in [0 .. 5 -> Nat]
    BY DEF Init, NoByte
  <2>3. state \in States /\ byte_cnt \in 0 .. CntMax /\ wire_pos \in Nat
    BY RxAssumption DEF Init, States
  <2>4. {mac_ok, frame_started, rx_er_seen, rx_overflow_seen, vlan_tag}
          \subseteq BOOLEAN
    BY DEF Init
  <2> QED BY <2>1, <2>2, <2>3, <2>4, NoPushType, NoStatType DEF Init, TypeOK
<1>2. StartedInv /\ Headroom
  BY RxAssumption, NoPushType DEF Init, StartedInv, Headroom, Moving
<1>3. Stream = << >>
  <2>1. Shown = << >> /\ Coming = << >> /\ q = << >>
    BY NoPushType DEF Init, Shown, Coming
  <2>2. << >> \in Seq(Word)
    OBVIOUS
  <2> QED BY <2>1, <2>2, ConcatEmptySeq DEF Stream
<1>4. FramingIntact
  <2>1. sink.mid = FALSE /\ frame_started = FALSE
    BY DEF Init, SinkIdle
  <2>2. \A i \in 1 .. Len(Stream) - 1 : FALSE
    BY <1>3, EmptySeq
  <2> QED BY <1>3, <2>1, <2>2, Zenon DEF FramingIntact, Framed
<1> QED BY <1>1, <1>2, <1>4 DEF RxInv

\* An edge keeps it.
LEMMA RxNext == RxInv /\ [Next]_vars => RxInv'
BY TypeStep, StartedStep, HeadroomStep, FramingStep DEF RxInv

\* Every register of the receive path stays within its range, byte_cnt within
\* its 14 bits, whatever the line sends.
THEOREM TypeCorrect == Spec => []TypeOK
<1>1. RxInv => TypeOK
  BY DEF RxInv
<1> QED BY RxInit, RxNext, <1>1, PTL DEF Spec

\* The FIFO never refuses a push of the receive path, for every depth the
\* AXIS_FIFO_ADDR_WIDTH parameter can give it.
THEOREM RxNeverOverflows == Spec => []NeverOverflows
<1>1. RxInv => NeverOverflows
  BY HeadroomSuffices DEF RxInv, NeverOverflows
<1> QED BY RxInit, RxNext, <1>1, PTL DEF Spec

\* AXI-Stream framing survives every pattern of backpressure: SOF and TLAST
\* alternate as the sink sees them, for every depth and frames of any length.
THEOREM RxFramingIntact == Spec => []FramingIntact
<1>1. RxInv => FramingIntact
  BY DEF RxInv
<1> QED BY RxInit, RxNext, <1>1, PTL DEF Spec

\* The receive FIFO takes every word it is given and the sink gets whole frames,
\* for every depth, every frame length and every pattern of stalls.
THEOREM RxFifoFraming == Spec => []FifoFraming
<1>1. NeverOverflows /\ FramingIntact => FifoFraming
  BY DEF FifoFraming
<1> QED BY <1>1, RxNeverOverflows, RxFramingIntact, PTL

-----------------------------------------------------------------------------
(***************************************************************************)
(* What is delivered and what is counted.                                  *)
(***************************************************************************)

\* byte_cnt is the number of bytes seen until it stops, and the delay line holds
\* the last six of them.
PosInv ==
  /\ byte_cnt = IF wire_pos <= CntMax THEN wire_pos ELSE CntMax
  /\ \A i \in 0 .. 5 : wire_pos + i >= 6 => delay_pipe[i] = wire_pos + i - 6

\* An edge keeps the relation of the delay pipe to the line.
LEMMA PosStep == TypeOK /\ PosInv /\ [Next]_vars => PosInv'
<1> SUFFICES ASSUME TypeOK, PosInv, [Next]_vars PROVE PosInv'
  OBVIOUS
<1>0. wire_pos \in Nat /\ byte_cnt \in Nat /\ CntMax \in Nat
  BY RxAssumption DEF TypeOK
<1>1. CASE UNCHANGED vars
  BY <1>1 DEF vars, fsm, PosInv
<1>2. CASE Next
  <2>0. PICK tready \in BOOLEAN : Edge(tready)
    BY <1>2 DEF Next
  <2>1. ASSUME NEW line, NEW er, StartFrame(line, er, tready)
        PROVE  PosInv'
    BY <2>1, <1>0 DEF StartFrame, PosInv
  <2>2. ASSUME UNCHANGED <<byte_cnt, wire_pos, delay_pipe>>
        PROVE  PosInv'
    BY <2>2 DEF PosInv
  <2>3. ASSUME NEW er, NEW mac_pass, NEW tagged, DataByte(er, mac_pass, tagged, tready)
        PROVE  PosInv'
    <3>1. /\ byte_cnt' = CountByte /\ wire_pos' = wire_pos + 1
          /\ delay_pipe' = [i \in 0 .. 5 |-> IF i = 5 THEN wire_pos
                                                      ELSE delay_pipe[i + 1]]
      BY <2>3 DEF DataByte
    <3>2. byte_cnt' = IF wire_pos' <= CntMax THEN wire_pos' ELSE CntMax
      BY <3>1, <1>0 DEF CountByte, PosInv
    <3>3. ASSUME NEW i \in 0 .. 5, wire_pos' + i >= 6
          PROVE  delay_pipe'[i] = wire_pos' + i - 6
      <4>1. CASE i = 5
        BY <3>1, <4>1, <1>0
      <4>2. CASE i # 5
        <5>1. i + 1 \in 0 .. 5 /\ wire_pos + (i + 1) >= 6
          BY <3>1, <3>3, <4>2, <1>0
        <5>2. delay_pipe[i + 1] = wire_pos + (i + 1) - 6
          BY <5>1 DEF PosInv
        <5> QED  BY <3>1, <4>2, <5>2, <1>0
      <4> QED  BY <4>1, <4>2
    <3> QED  BY <3>2, <3>3 DEF PosInv
  <2> QED  BY <2>0, <2>1, <2>2, <2>3
           DEF Edge, Choice, Idle, Preamble, CrcCheck, DataEnd, Drop
<1> QED  BY <1>1, <1>2

\* The byte the delay line hands over once the address is complete.
LEMMA PipeByte ==
  ASSUME TypeOK, PosInv, byte_cnt >= DstLen - 1
  PROVE  wire_pos >= 5 /\ delay_pipe[1] = wire_pos - 5
<1>1. DstLen = 6 /\ wire_pos \in Nat /\ CntMax \in Nat
  BY RxAssumption DEF TypeOK
<1>2. wire_pos >= 5
  BY <1>1 DEF PosInv
<1> QED  BY <1>1, <1>2 DEF PosInv

-----------------------------------------------------------------------------
\* The byte that must come at place i of the words s, for a reader that expects
\* byte `next' at place 1.
Expected(next, s, i) ==
  IF i = 1 THEN next ELSE IF s[i - 1].last THEN 0 ELSE s[i - 1].data + 1

\* The frame that word k of s belongs to has no byte missing, doubled or out of
\* place up to word k; `gap': the reader already missed one of it.
WholeTo(next, gap, s, k) ==
  \A i \in 1 .. k :
     (\A j \in i .. k - 1 : ~s[j].last) => /\ s[i].data = Expected(next, s, i)
                                           /\ i = 1 => ~gap

\* Every frame that s closes without terror is whole.
CleanWords(next, gap, s) ==
  \A k \in 1 .. Len(s) : s[k].last /\ ~s[k].err => WholeTo(next, gap, s, k)

\* The frame left open after s is whole so far, and byte pos is its next.
OpenWhole(next, gap, s, pos) ==
  IF s = << >> THEN ~gap /\ next = pos
  ELSE /\ WholeTo(next, gap, s, Len(s))
       /\ ~s[Len(s)].last /\ s[Len(s)].data + 1 = pos

\* Reading the first word: the reader's new expectation takes its place.
LEMMA WholeTail ==
  ASSUME NEW s \in Seq(Word), s # << >>, NEW next \in Nat, NEW gap \in BOOLEAN,
         NEW n1, n1 = IF s[1].last THEN 0 ELSE s[1].data + 1,
         NEW g1, g1 = IF s[1].last THEN FALSE ELSE gap \/ s[1].data # next
  PROVE  /\ \A k \in 1 .. Len(s) - 1 :
              WholeTo(next, gap, s, k + 1) => WholeTo(n1, g1, Tail(s), k)
         /\ CleanWords(next, gap, s) => CleanWords(n1, g1, Tail(s))
         /\ \A pos : OpenWhole(next, gap, s, pos) => OpenWhole(n1, g1, Tail(s), pos)
<1> DEFINE t == Tail(s)
<1>1. /\ Len(s) \in Nat \ {0} /\ t \in Seq(Word) /\ Len(t) = Len(s) - 1
      /\ \A i \in 1 .. Len(t) : t[i] = s[i + 1]
  OBVIOUS
<1> HIDE DEF t
<1>2. ASSUME NEW k \in 1 .. Len(s) - 1, WholeTo(next, gap, s, k + 1)
      PROVE  WholeTo(n1, g1, t, k)
  <2> SUFFICES ASSUME NEW i \in 1 .. k, \A j \in i .. k - 1 : ~t[j].last
               PROVE  t[i].data = Expected(n1, t, i) /\ (i = 1 => ~g1)
    BY DEF WholeTo
  <2>1. /\ i \in Nat /\ k \in Nat /\ i + 1 \in 1 .. k + 1 /\ k <= Len(t)
        /\ t[i] = s[i + 1] /\ i - 1 \in Nat
    BY <1>1
  <2>2. \A j \in i + 1 .. k : ~s[j].last
    <3> TAKE j \in i + 1 .. k
    <3>1. j - 1 \in i .. k - 1 /\ j - 1 \in 1 .. Len(t) /\ (j - 1) + 1 = j
      BY <1>1, <2>1
    <3>2. t[j - 1] = s[j]
      BY <1>1, <3>1
    <3> QED  BY <3>1, <3>2
  <2>3. s[i + 1].data = Expected(next, s, i + 1)
    BY <1>2, <2>1, <2>2 DEF WholeTo
  <2>4. s[i + 1].data = IF s[i].last THEN 0 ELSE s[i].data + 1
    BY <2>1, <2>3 DEF Expected
  <2>5. CASE i = 1
    <3>1. t[i].data = Expected(n1, t, i)
      BY <2>1, <2>4, <2>5 DEF Expected
    <3>2. CASE s[1].last
      BY <2>5, <3>1, <3>2
    <3>3. CASE ~s[1].last
      <4>1. \A j \in 1 .. k : ~s[j].last
        BY <2>1, <2>2, <2>5, <3>3
      <4>2. s[1].data = Expected(next, s, 1) /\ ~gap
        BY <1>2, <2>1, <4>1 DEF WholeTo
      <4> QED  BY <2>5, <3>1, <3>3, <4>2 DEF Expected
    <3> QED  BY <3>2, <3>3
  <2>6. CASE i # 1
    <3>1. i - 1 \in 1 .. Len(t) /\ t[i - 1] = s[i]
      BY <1>1, <2>1, <2>6
    <3> QED  BY <2>1, <2>4, <2>6, <3>1 DEF Expected
  <2> QED  BY <2>5, <2>6
<1>3. ASSUME CleanWords(next, gap, s)
      PROVE  CleanWords(n1, g1, t)
  <2> SUFFICES ASSUME NEW k \in 1 .. Len(t), t[k].last, ~t[k].err
               PROVE  WholeTo(n1, g1, t, k)
    BY DEF CleanWords
  <2>1. k \in 1 .. Len(s) - 1 /\ k + 1 \in 1 .. Len(s) /\ t[k] = s[k + 1]
    BY <1>1
  <2>2. WholeTo(next, gap, s, k + 1)
    BY <1>3, <2>1 DEF CleanWords
  <2> QED  BY <1>2, <2>1, <2>2
<1>4. ASSUME NEW pos, OpenWhole(next, gap, s, pos)
      PROVE  OpenWhole(n1, g1, t, pos)
  <2>1. WholeTo(next, gap, s, Len(s)) /\ ~s[Len(s)].last /\ s[Len(s)].data + 1 = pos
    BY <1>4 DEF OpenWhole
  <2>2. CASE t = << >>
    <3>1. Len(s) = 1
      BY <1>1, <2>2, EmptySeq
    <3>2. s[1].data = next /\ ~gap
      BY <2>1, <3>1 DEF WholeTo, Expected
    <3> QED  BY <2>1, <2>2, <3>1, <3>2 DEF OpenWhole
  <2>3. CASE t # << >>
    <3>1. /\ Len(t) \in 1 .. Len(s) - 1 /\ Len(t) + 1 = Len(s)
          /\ t[Len(t)] = s[Len(s)]
      BY <1>1, <2>3, EmptySeq
    <3>2. WholeTo(n1, g1, t, Len(t))
      BY <1>2, <2>1, <3>1
    <3> QED  BY <2>1, <2>3, <3>1, <3>2 DEF OpenWhole
  <2> QED  BY <2>2, <2>3
<1> QED  BY <1>2, <1>3, <1>4 DEF t

\* Adding a word at the end leaves the words before it as whole as they were; it
\* is itself in place if it carries the byte due there.
LEMMA WholeAppend ==
  ASSUME NEW s \in Seq(Word), NEW next \in Nat, NEW gap \in BOOLEAN, NEW w \in Word
  PROVE  LET t == Append(s, w) IN
         /\ \A k \in 1 .. Len(s) : WholeTo(next, gap, s, k) => WholeTo(next, gap, t, k)
         /\ OpenWhole(next, gap, s, w.data) => WholeTo(next, gap, t, Len(t))
         /\ /\ s # << >> => s[Len(s)].last
            /\ s = << >> => next = 0 /\ ~gap
            /\ w.data = 0
            => WholeTo(next, gap, t, Len(t))
<1> DEFINE t == Append(s, w)
           n == Len(s)
<1>1. /\ n \in Nat /\ t \in Seq(Word) /\ Len(t) = n + 1
      /\ \A i \in 1 .. n : t[i] = s[i]
      /\ t[n + 1] = w
  BY AppendProperties
<1> HIDE DEF t, n
<1>2. ASSUME NEW k \in 1 .. n, WholeTo(next, gap, s, k)
      PROVE  WholeTo(next, gap, t, k)
  <2> SUFFICES ASSUME NEW i \in 1 .. k, \A j \in i .. k - 1 : ~t[j].last
               PROVE  t[i].data = Expected(next, t, i) /\ (i = 1 => ~gap)
    BY DEF WholeTo
  <2>1. \A j \in i .. k - 1 : ~s[j].last
    <3> TAKE j \in i .. k - 1
    <3>1. j \in 1 .. n
      BY <1>1
    <3> QED  BY <1>1, <3>1
  <2>2. s[i].data = Expected(next, s, i) /\ (i = 1 => ~gap)
    BY <1>2, <2>1 DEF WholeTo
  <2>3. t[i] = s[i] /\ (i # 1 => t[i - 1] = s[i - 1])
    BY <1>1
  <2> QED  BY <2>2, <2>3 DEF Expected
<1>3. ASSUME OpenWhole(next, gap, s, w.data)
      PROVE  WholeTo(next, gap, t, n + 1)
  <2> SUFFICES ASSUME NEW i \in 1 .. n + 1, \A j \in i .. n : ~t[j].last
               PROVE  t[i].data = Expected(next, t, i) /\ (i = 1 => ~gap)
    BY <1>1 DEF WholeTo
  <2>1. CASE n = 0
    <3>1. s = << >> /\ i = 1
      BY <1>1, <2>1, EmptySeq DEF n
    <3> QED  BY <1>1, <1>3, <2>1, <3>1 DEF OpenWhole, Expected
  <2>2. CASE n # 0
    <3>1. s # << >>
      BY <1>1, <2>2 DEF n
    <3>2. WholeTo(next, gap, s, n) /\ ~s[n].last /\ s[n].data + 1 = w.data
      BY <1>3, <3>1 DEF OpenWhole, n
    <3>3. CASE i = n + 1
      <4>1. i # 1 /\ i - 1 = n /\ t[i - 1] = s[n] /\ t[i] = w
        BY <1>1, <2>2, <3>3
      <4> QED  BY <3>2, <4>1 DEF Expected
    <3>4. CASE i # n + 1
      <4>1. i \in 1 .. n /\ n \in 1 .. n
        BY <1>1, <3>4
      <4>2. WholeTo(next, gap, t, n)
        BY <1>2, <3>2, <4>1
      <4>3. \A j \in i .. n - 1 : ~t[j].last
        BY <1>1
      <4> QED  BY <4>1, <4>2, <4>3 DEF WholeTo
    <3> QED  BY <3>3, <3>4
  <2> QED  BY <2>1, <2>2
<1>4. ASSUME s # << >> => s[n].last, s = << >> => next = 0 /\ ~gap, w.data = 0
      PROVE  WholeTo(next, gap, t, n + 1)
  <2> SUFFICES ASSUME NEW i \in 1 .. n + 1, \A j \in i .. n : ~t[j].last
               PROVE  t[i].data = Expected(next, t, i) /\ (i = 1 => ~gap)
    BY <1>1 DEF WholeTo
  <2>1. CASE n = 0
    <3>1. s = << >> /\ i = 1
      BY <1>1, <2>1, EmptySeq DEF n
    <3> QED  BY <1>1, <1>4, <2>1, <3>1 DEF Expected
  <2>2. CASE n # 0
    <3>1. s # << >> /\ s[n].last /\ t[n] = s[n]
      BY <1>1, <1>4, <2>2 DEF n
    <3>2. i = n + 1
      BY <1>1, <2>2, <3>1
    <3> QED  BY <1>1, <1>4, <2>2, <3>1, <3>2 DEF Expected
  <2> QED  BY <2>1, <2>2
<1> QED  BY <1>1, <1>2, <1>3, <1>4 DEF t, n

\* A clean closing word must end a whole frame; any other word may be added.
LEMMA CleanAppend ==
  ASSUME NEW s \in Seq(Word), NEW next \in Nat, NEW gap \in BOOLEAN, NEW w \in Word,
         CleanWords(next, gap, s),
         w.last /\ ~w.err => WholeTo(next, gap, Append(s, w), Len(Append(s, w)))
  PROVE  CleanWords(next, gap, Append(s, w))
<1> DEFINE t == Append(s, w)
<1>1. /\ Len(s) \in Nat /\ t \in Seq(Word) /\ Len(t) = Len(s) + 1
      /\ \A i \in 1 .. Len(s) : t[i] = s[i]
      /\ t[Len(s) + 1] = w
  BY AppendProperties
<1>2. \A k \in 1 .. Len(s) : WholeTo(next, gap, s, k) => WholeTo(next, gap, t, k)
  BY WholeAppend
<1>a. w.last /\ ~w.err => WholeTo(next, gap, t, Len(t))
  OBVIOUS
<1> HIDE DEF t
<1> SUFFICES ASSUME NEW k \in 1 .. Len(t), t[k].last, ~t[k].err
             PROVE  WholeTo(next, gap, t, k)
  BY DEF CleanWords, t
<1>3. CASE k \in 1 .. Len(s)
  BY <1>1, <1>2, <1>3 DEF CleanWords
<1>4. CASE k = Len(t)
  <2>1. t[k] = w
    BY <1>1, <1>4
  <2> QED  BY <1>4, <1>a, <2>1
<1> QED  BY <1>1, <1>3, <1>4

\* What the sink still has to read, added to what it has read, is whole: every
\* frame closed clean, and the open one as long as nothing of it was dropped.
WholeInv ==
  /\ CleanWords(sink.next, sink.gap, Stream)
  /\ frame_started /\ ~rx_overflow_seen
       => OpenWhole(sink.next, sink.gap, Stream, wire_pos - 5)
  /\ ~sink.mid => sink.next = 0 /\ ~sink.gap

\* The sink's step: what is left of the stream is as whole as it was.
LEMMA WholeEdge ==
  ASSUME TypeOK, TypeOK', Headroom, FramingIntact, WholeInv,
         NEW tready \in BOOLEAN, FifoClock(tready)
  PROVE  \E left \in Seq(Word) :
           /\ ~push_r'.en => Stream' = left
           /\ push_r'.en => Stream' = Append(left, push_r'.word)
           /\ CleanWords(sink'.next, sink'.gap, left)
           /\ frame_started /\ ~rx_overflow_seen
                => OpenWhole(sink'.next, sink'.gap, left, wire_pos - 5)
           /\ ~sink'.mid => sink'.next = 0 /\ ~sink'.gap
           /\ Framed(sink'.mid, left, frame_started)
<1> DEFINE taken == IF dout_valid /\ tready THEN Tail(Stream) ELSE Stream
<1>1. /\ Stream \in Seq(Word) /\ Stream' = taken \o Coming'
      /\ dout_valid => Stream # << >> /\ Head(Stream) = dout
  BY StreamStep
<1>2. /\ frame_started \in BOOLEAN /\ sink.mid \in BOOLEAN /\ dout_valid \in BOOLEAN
      /\ sink.next \in Nat /\ sink.gap \in BOOLEAN
      /\ push_r'.word \in Word
  BY DEF TypeOK
<1>3. /\ taken \in Seq(Word)
      /\ CleanWords(sink'.next, sink'.gap, taken)
      /\ frame_started /\ ~rx_overflow_seen
           => OpenWhole(sink'.next, sink'.gap, taken, wire_pos - 5)
      /\ ~sink'.mid => sink'.next = 0 /\ ~sink'.gap
      /\ Framed(sink'.mid, taken, frame_started)
  <2>1. CASE dout_valid /\ tready
    <3>1. /\ dout.last \in BOOLEAN /\ Stream # << >> /\ Stream[1] = dout
          /\ taken = Tail(Stream) /\ taken \in Seq(Word)
      BY <2>1, <1>1 DEF TypeOK, Word
    <3>2. /\ sink'.mid = ~dout.last
          /\ sink'.next = IF dout.last THEN 0 ELSE dout.data + 1
          /\ sink'.gap = IF dout.last THEN FALSE
                         ELSE sink.gap \/ dout.data # sink.next
      BY <2>1, <3>1 DEF FifoClock, SinkTakes, SinkIdle
    <3>3. Framed(~Head(Stream).last, Tail(Stream), frame_started)
      BY <2>1, <1>1, <1>2, FramedTail DEF FramingIntact
    <3>4. /\ CleanWords(sink.next, sink.gap, Stream)
               => CleanWords(sink'.next, sink'.gap, Tail(Stream))
          /\ \A pos : OpenWhole(sink.next, sink.gap, Stream, pos)
               => OpenWhole(sink'.next, sink'.gap, Tail(Stream), pos)
      <4>1. /\ sink'.next = IF Stream[1].last THEN 0 ELSE Stream[1].data + 1
            /\ sink'.gap = IF Stream[1].last THEN FALSE
                           ELSE sink.gap \/ Stream[1].data # sink.next
        BY <3>1, <3>2
      <4>2. ASSUME NEW n1, n1 = IF Stream[1].last THEN 0 ELSE Stream[1].data + 1,
                   NEW g1, g1 = IF Stream[1].last THEN FALSE
                                ELSE sink.gap \/ Stream[1].data # sink.next
            PROVE  /\ CleanWords(sink.next, sink.gap, Stream)
                        => CleanWords(n1, g1, Tail(Stream))
                   /\ \A pos : OpenWhole(sink.next, sink.gap, Stream, pos)
                        => OpenWhole(n1, g1, Tail(Stream), pos)
        <5>1. Stream \in Seq(Word) /\ Stream # << >>
          BY <1>1, <3>1
        <5> QED  BY ONLY <4>2, <1>2, <5>1, WholeTail
      <4> QED  BY ONLY <4>1, <4>2
    <3> HIDE DEF taken
    <3>5. Head(Stream) = dout
      BY <2>1, <1>1
    <3> QED  BY <3>1, <3>2, <3>3, <3>4, <3>5 DEF WholeInv
  <2>2. CASE ~(dout_valid /\ tready)
    BY <2>2, <1>1 DEF FifoClock, FramingIntact, WholeInv
  <2> QED BY <2>1, <2>2
<1> HIDE DEF taken
<1>4. ~push_r'.en => Stream' = taken
  <2> SUFFICES ASSUME ~push_r'.en PROVE Stream' = taken
    OBVIOUS
  <2>1. Coming' = << >>
    BY DEF Coming
  <2> QED BY <2>1, <1>1, <1>3, ConcatEmptySeq
<1>5. push_r'.en => Stream' = Append(taken, push_r'.word)
  BY <1>1, <1>2, <1>3, AppendIsConcat DEF Coming
<1> QED  BY <1>3, <1>4, <1>5

\* An edge keeps what is stored of the frame that is open.
LEMMA WholeStep ==
  RxInv /\ PosInv /\ WholeInv /\ [Next]_vars => WholeInv'
<1> SUFFICES ASSUME RxInv, PosInv, WholeInv, [Next]_vars PROVE WholeInv'
  OBVIOUS
<1>0. /\ TypeOK /\ StartedInv /\ Headroom /\ FramingIntact
      /\ TypeOK' /\ frame_started \in BOOLEAN /\ wire_pos \in Nat
      /\ rx_overflow_seen \in BOOLEAN
      /\ sink'.next \in Nat /\ sink'.gap \in BOOLEAN /\ push_r'.word \in Word
  BY TypeStep DEF TypeOK, RxInv
<1>1. CASE UNCHANGED vars
  BY <1>1 DEF vars, fsm, fifo, WholeInv, Stream, Shown, Coming
<1>2. CASE Next
  <2>0. PICK tready \in BOOLEAN : Edge(tready)
    BY <1>2 DEF Next
  <2>a. ASSUME FifoClock(tready), push_r' = NoPush,
               frame_started' /\ ~rx_overflow_seen'
                 => frame_started /\ ~rx_overflow_seen /\ wire_pos' = wire_pos
        PROVE  WholeInv'
    <3>1. ~push_r'.en
      BY <2>a, NoPushType
    <3> QED BY <2>a, <3>1, <1>0, WholeEdge DEF WholeInv
  <2>1. ASSUME NEW line, NEW er, Idle(line, er, tready)
        PROVE  WholeInv'
    BY <2>1, <2>a DEF Idle, StartFrame
  <2>2. ASSUME NEW line, NEW er, Preamble(line, er, tready)
        PROVE  WholeInv'
    BY <2>2, <2>a, <1>0 DEF Preamble
  <2>3. ASSUME NEW line, NEW er, NEW bad \in BOOLEAN, NEW jumbo \in BOOLEAN,
               CrcCheck(line, er, bad, jumbo, tready)
        PROVE  WholeInv'
    <3>1. FifoClock(tready) /\ ~frame_started'
      BY <2>3 DEF CrcCheck, StartFrame
    <3>2. CASE frame_started
      <4>1. push_r' = Push(LastWord(delay_pipe[1], FrameErr(bad, jumbo)))
        BY <2>3, <3>2, <1>0 DEF CrcCheck, CrcCheckPush, StartedInv
      <4>2. delay_pipe[1] = wire_pos - 5
        BY <3>2, <1>0, PipeByte, RxAssumption DEF StartedInv, TypeOK
      <4>3. /\ push_r'.en /\ push_r'.word.data = wire_pos - 5
            /\ ~push_r'.word.err => ~rx_overflow_seen
        BY <4>1, <4>2 DEF Push, LastWord, FrameErr
      <4>4. PICK left \in Seq(Word) :
              /\ Stream' = Append(left, push_r'.word)
              /\ CleanWords(sink'.next, sink'.gap, left)
              /\ frame_started /\ ~rx_overflow_seen
                   => OpenWhole(sink'.next, sink'.gap, left, wire_pos - 5)
              /\ ~sink'.mid => sink'.next = 0 /\ ~sink'.gap
        BY <3>1, <4>3, <1>0, WholeEdge
      <4>5. ~rx_overflow_seen => WholeTo(sink'.next, sink'.gap, Stream', Len(Stream'))
        <5> SUFFICES ASSUME ~rx_overflow_seen
                     PROVE  WholeTo(sink'.next, sink'.gap, Stream', Len(Stream'))
          OBVIOUS
        <5>1. OpenWhole(sink'.next, sink'.gap, left, push_r'.word.data)
          BY <3>2, <4>3, <4>4
        <5>2. ASSUME NEW n \in Nat, NEW g \in BOOLEAN, NEW w \in Word,
                     OpenWhole(n, g, left, w.data)
              PROVE  WholeTo(n, g, Append(left, w), Len(Append(left, w)))
          BY <5>2, WholeAppend
        <5> QED  BY <5>1, <5>2, <4>4, <1>0
      <4>6. CleanWords(sink'.next, sink'.gap, Stream')
        BY <4>3, <4>4, <4>5, <1>0, CleanAppend
      <4> QED BY <3>1, <4>4, <4>6 DEF WholeInv
    <3>3. CASE ~frame_started
      <4>1. push_r' = NoPush
        BY <2>3, <3>3 DEF CrcCheck, CrcCheckPush
      <4> QED BY <3>1, <4>1, <2>a
    <3> QED BY <3>2, <3>3
  <2>4. ASSUME NEW er, NEW mac_pass \in BOOLEAN, NEW tagged,
               DataByte(er, mac_pass, tagged, tready)
        PROVE  WholeInv'
    <3>1. FifoClock(tready) /\ wire_pos' = wire_pos + 1
      BY <2>4 DEF DataByte
    <3>2. rx_overflow_seen => rx_overflow_seen'
      BY <2>4, <1>0 DEF DataByte
    <3>a. ASSUME NEW w \in Word, push_r' = Push(w), ~w.last, w.data = wire_pos - 5,
                 NEW left \in Seq(Word), Stream' = Append(left, w),
                 CleanWords(sink'.next, sink'.gap, left),
                 ~sink'.mid => sink'.next = 0 /\ ~sink'.gap,
                 ~rx_overflow_seen
                    => WholeTo(sink'.next, sink'.gap, Stream', Len(Stream'))
          PROVE  WholeInv'
      <4>1. CleanWords(sink'.next, sink'.gap, Stream')
        BY <3>a, <1>0, CleanAppend
      <4>2. Stream' # << >> /\ Stream'[Len(Stream')] = w
        BY <3>a, AppendProperties
      <4>3. ~rx_overflow_seen'
              => OpenWhole(sink'.next, sink'.gap, Stream', wire_pos' - 5)
        BY <3>a, <3>1, <3>2, <4>2, <1>0 DEF OpenWhole
      <4> QED  BY <3>a, <4>1, <4>3 DEF WholeInv
    <3>3. CASE StartsHere(mac_pass)
      <4>1. ~frame_started /\ byte_cnt = 5 /\ DstLen = 6
        BY <3>3, <1>0, RxAssumption DEF StartsHere, StartedInv
      <4>2. wire_pos = 5 /\ delay_pipe[1] = 0
        BY <4>1, <1>0, PipeByte, RxAssumption DEF PosInv
      <4>3. push_r' = Push(SofWord(0)) /\ SofWord(0) \in Word
        BY <2>4, <3>3, <4>2 DEF DataByte, DataPush, SofWord, Word
      <4>4. push_r'.en /\ push_r'.word = SofWord(0)
        BY <4>3 DEF Push
      <4>5. PICK left \in Seq(Word) :
              /\ Stream' = Append(left, SofWord(0))
              /\ CleanWords(sink'.next, sink'.gap, left)
              /\ ~sink'.mid => sink'.next = 0 /\ ~sink'.gap
              /\ Framed(sink'.mid, left, frame_started)
        BY <3>1, <4>4, <1>0, WholeEdge
      <4>6. /\ left # << >> => left[Len(left)].last
            /\ left = << >> => ~sink'.mid
        <5>1. \A i \in 1 .. Len(left) : left[i].last \in BOOLEAN
          BY WordsOfSeq
        <5>2. sink'.mid \in BOOLEAN
          BY <1>0 DEF TypeOK
        <5>3. left # << >> => Len(left) \in 1 .. Len(left)
          OBVIOUS
        <5> QED  BY <4>1, <4>5, <5>1, <5>2, <5>3, <1>0 DEF Framed
      <4>7. WholeTo(sink'.next, sink'.gap, Stream', Len(Stream'))
        <5>1. SofWord(0).data = 0
          BY DEF SofWord
        <5>2. ASSUME NEW n \in Nat, NEW g \in BOOLEAN,
                     left = << >> => n = 0 /\ ~g
              PROVE  WholeTo(n, g, Append(left, SofWord(0)), Len(Append(left, SofWord(0))))
          BY ONLY <5>1, <5>2, <4>3, <4>6, WholeAppend
        <5> QED  BY <5>2, <4>5, <4>6, <1>0
      <4>8. ~SofWord(0).last /\ SofWord(0).data = wire_pos - 5
        BY <4>2 DEF SofWord
      <4> QED BY <4>3, <4>5, <4>7, <4>8, <3>a
    <3>4. CASE ~StartsHere(mac_pass) /\ InStarted /\ FifoRoom
      <4>1. /\ frame_started /\ delay_pipe[1] = wire_pos - 5
            /\ wire_pos - 5 \in Nat
        BY <3>4, <1>0, PipeByte, RxAssumption DEF InStarted, TypeOK
      <4> DEFINE w == DataWord(wire_pos - 5)
      <4>2. /\ push_r' = Push(w) /\ w \in Word
            /\ ~w.last /\ w.data = wire_pos - 5
        BY <2>4, <3>4, <4>1 DEF DataByte, DataPush, DataWord, Word
      <4> HIDE DEF w
      <4>3. push_r'.en /\ push_r'.word = w
        BY <4>2 DEF Push
      <4>4. PICK left \in Seq(Word) :
              /\ Stream' = Append(left, w)
              /\ CleanWords(sink'.next, sink'.gap, left)
              /\ frame_started /\ ~rx_overflow_seen
                   => OpenWhole(sink'.next, sink'.gap, left, wire_pos - 5)
              /\ ~sink'.mid => sink'.next = 0 /\ ~sink'.gap
        BY <3>1, <4>3, <1>0, WholeEdge
      <4>5. ~rx_overflow_seen => WholeTo(sink'.next, sink'.gap, Stream', Len(Stream'))
        <5> SUFFICES ASSUME ~rx_overflow_seen
                     PROVE  WholeTo(sink'.next, sink'.gap, Stream', Len(Stream'))
          OBVIOUS
        <5>1. OpenWhole(sink'.next, sink'.gap, left, w.data)
          BY <4>1, <4>2, <4>4
        <5>2. ASSUME NEW n \in Nat, NEW g \in BOOLEAN, OpenWhole(n, g, left, w.data)
              PROVE  WholeTo(n, g, Append(left, w), Len(Append(left, w)))
          BY ONLY <5>2, <4>2, WholeAppend
        <5> QED  BY <5>1, <5>2, <4>4, <1>0
      <4> QED BY <4>2, <4>4, <4>5, <3>a
    <3>5. CASE ~StartsHere(mac_pass) /\ ~(InStarted /\ FifoRoom)
      <4>1. push_r' = NoPush /\ frame_started' = frame_started
        BY <2>4, <3>5, <1>0 DEF DataByte, DataPush
      <4>2. frame_started => rx_overflow_seen'
        BY <2>4, <3>5, <1>0 DEF DataByte, InStarted, StartedInv
      <4> QED BY <3>1, <4>1, <4>2, <2>a
    <3> QED BY <3>3, <3>4, <3>5
  <2>5. ASSUME NEW er, DataEnd(er, tready)
        PROVE  WholeInv'
    BY <2>5, <2>a, <1>0 DEF DataEnd
  <2>6. ASSUME NEW dv, Drop(dv, tready)
        PROVE  WholeInv'
    BY <2>6, <2>a, <1>0 DEF Drop
  <2> QED BY <2>0, <2>1, <2>2, <2>3, <2>4, <2>5, <2>6 DEF Edge, Choice
<1> QED BY <1>1, <1>2

\* The closing word at the sink: what it says of its frame is what was read.
LEMMA CleanAtSinkHolds == RxInv /\ WholeInv => CleanAtSink
<1> SUFFICES ASSUME RxInv, WholeInv, dout_valid, dout.last, ~dout.err
             PROVE  ~sink.gap /\ dout.data = sink.next
  BY DEF CleanAtSink
<1>1. /\ q \in Seq(Word) /\ Shown = <<dout>> /\ dout \in Word /\ Coming \in Seq(Word)
  BY DEF RxInv, TypeOK, Shown, Coming
<1>2. Stream \in Seq(Word) /\ Len(Stream) >= 1 /\ Stream[1] = dout
  BY <1>1 DEF Stream
<1>3. WholeTo(sink.next, sink.gap, Stream, 1)
  BY <1>2 DEF WholeInv, CleanWords
<1> QED  BY <1>2, <1>3 DEF WholeTo, Expected

\* The statistics pulse and the closing word are registered on the same edge.
StatInv == CleanLengthExact /\ DoneMatchesDelivery

\* An edge keeps the agreement of the statistics with what was pushed.
LEMMA StatStep == RxInv /\ PosInv /\ StatInv /\ [Next]_vars => StatInv'
<1> SUFFICES ASSUME RxInv, PosInv, StatInv, [Next]_vars PROVE StatInv'
  OBVIOUS
<1> USE DEF StatInv
<1>0. /\ TypeOK /\ StartedInv /\ TypeOK'
      /\ wire_pos \in Nat /\ byte_cnt \in Nat /\ CntMax \in Nat
      /\ MaxStd \in Nat /\ MaxJumbo \in Nat /\ DstLen = 6
      /\ MaxStd + 4 < CntMax /\ MaxJumbo < CntMax
  BY TypeStep, RxAssumption DEF TypeOK, RxInv
<1>1. CASE UNCHANGED vars
  BY <1>1 DEF vars, CleanLengthExact, DoneMatchesDelivery
<1>2. CASE Next
  <2>0. PICK tready \in BOOLEAN : Edge(tready)
    BY <1>2 DEF Next
  <2>a. ASSUME stat'.kind # "done", ~(push_r'.en /\ push_r'.word.last)
        PROVE  StatInv'
    BY <2>a DEF CleanLengthExact, DoneMatchesDelivery
  <2>b. ~(NoPush.en /\ NoPush.word.last) /\ NoStat.kind # "done"
    BY NoPushType DEF NoStat
  <2>1. ASSUME stat' = NoStat, push_r' = NoPush
        PROVE  StatInv'
    BY <2>1, <2>a, <2>b
  <2>2. ASSUME NEW line, NEW er, NEW bad \in BOOLEAN, NEW jumbo \in BOOLEAN,
               CrcCheck(line, er, bad, jumbo, tready)
        PROVE  StatInv'
    <3>1. /\ push_r' = CrcCheckPush(bad, jumbo)
          /\ stat' = CrcCheckStat(bad, jumbo)
      BY <2>2 DEF CrcCheck
    <3>2. CASE frame_started
      <4>1. mac_ok /\ byte_cnt >= DstLen
        BY <3>2, <1>0 DEF StartedInv
      <4>2. delay_pipe[1] = wire_pos - 5
        BY <4>1, <1>0, PipeByte
      <4>3. /\ push_r' = Push(LastWord(wire_pos - 5, FrameErr(bad, jumbo)))
            /\ stat' = [kind |-> "done", len |-> byte_cnt, err |-> FrameErr(bad, jumbo)]
        BY <3>1, <3>2, <4>1, <4>2 DEF CrcCheckPush, CrcCheckStat
      <4>4. /\ push_r'.en /\ push_r'.word.last /\ push_r'.word.data = wire_pos - 5
            /\ stat'.kind = "done" /\ stat'.len = byte_cnt
            /\ stat'.err = FrameErr(bad, jumbo)
        BY <4>3 DEF Push, LastWord
      <4>5. ~FrameErr(bad, jumbo) => byte_cnt <= MaxStd + 4 \/ byte_cnt <= MaxJumbo
        BY <1>0 DEF FrameErr, Oversize
      <4>6. byte_cnt <= MaxStd + 4 \/ byte_cnt <= MaxJumbo => byte_cnt = wire_pos
        BY <1>0 DEF PosInv
      <4> QED  BY <4>4, <4>5, <4>6, <1>0 DEF CleanLengthExact, DoneMatchesDelivery
    <3>3. CASE ~frame_started
      <4>1. push_r' = NoPush /\ stat'.kind # "done"
        BY <3>1, <3>3 DEF CrcCheckPush, CrcCheckStat, NoStat
      <4> QED  BY <4>1, <2>a, <2>b
    <3> QED  BY <3>2, <3>3
  <2>3. ASSUME NEW er, NEW mac_pass, NEW tagged,
               DataByte(er, mac_pass, tagged, tready)
        PROVE  StatInv'
    <3>1. stat' = NoStat /\ push_r' = DataPush(mac_pass)
      BY <2>3 DEF DataByte
    <3>2. ~(DataPush(mac_pass).en /\ DataPush(mac_pass).word.last)
      BY <2>b DEF DataPush, Push, SofWord, DataWord
    <3> QED  BY <3>1, <3>2, <2>a, <2>b
  <2> QED  BY <2>0, <2>1, <2>2, <2>3
           DEF Edge, Choice, Idle, Preamble, DataEnd, Drop
<1> QED  BY <1>1, <1>2

\* Within the counter's range the registers agree with the wire, and the
\* scoreboard's reference is what the closing cycle does.
LEMMA ReferenceHolds == RxInv /\ PosInv => ScoredAsReference
<1> SUFFICES ASSUME RxInv, PosInv, state = "CRC_CHECK", mac_ok, frame_started,
                    ~rx_overflow_seen, wire_pos \in MinFrame .. CntMax,
                    NEW bad \in BOOLEAN, NEW jumbo \in BOOLEAN
             PROVE  RxScoreboard(bad, jumbo)
  BY DEF ScoredAsReference
<1>1. /\ TypeOK /\ StartedInv /\ wire_pos \in Nat /\ CntMax \in Nat
      /\ MinFrame \in Nat /\ MaxStd \in Nat /\ MaxJumbo \in Nat /\ DstLen = 6
      /\ rx_er_seen \in BOOLEAN /\ vlan_tag \in BOOLEAN
  BY RxAssumption DEF TypeOK, RxInv
<1>2. byte_cnt = wire_pos /\ byte_cnt >= DstLen
  BY <1>1 DEF PosInv, StartedInv
<1>3. delay_pipe[1] = wire_pos - 5
  BY <1>1, <1>2, PipeByte
<1>4. rx_expected(bad, jumbo).len = wire_pos
  BY DEF rx_expected
<1>5. rx_expected(bad, jumbo).terror = FrameErr(bad, jumbo)
  <2> DEFINE limit == IF vlan_tag THEN MaxStd + 4 ELSE MaxStd
             over == wire_pos > limit /\ (~jumbo \/ wire_pos > MaxJumbo)
  <2>1. MaxStd + (IF vlan_tag THEN 4 ELSE 0) = limit
    BY <1>1
  <2>2. rx_expected(bad, jumbo).terror = (bad \/ rx_er_seen \/ over)
    BY <2>1 DEF rx_expected
  <2>3. Oversize(jumbo) = over
    BY <1>2 DEF Oversize
  <2>4. Undersize = FALSE
    BY <1>1, <1>2 DEF Undersize
  <2>5. FrameErr(bad, jumbo) = (bad \/ rx_er_seen \/ over)
    BY <2>3, <2>4, Zenon DEF FrameErr
  <2> QED  BY <2>2, <2>5
<1> QED  BY <1>2, <1>3, <1>4, <1>5
         DEF RxScoreboard, CrcCheckPush, CrcCheckStat

DeliveryInv == RxInv /\ PosInv /\ WholeInv /\ StatInv

\* The receiver starts with nothing delivered and nothing counted.
LEMMA DeliveryInit == Init => DeliveryInv
<1> SUFFICES ASSUME Init PROVE DeliveryInv
  OBVIOUS
<1>1. RxInv
  BY RxInit
<1>2. PosInv
  BY RxAssumption DEF Init, PosInv, NoByte
<1>3. Stream = << >> /\ sink.next = 0 /\ ~sink.gap /\ ~frame_started
  <2>1. Shown = << >> /\ Coming = << >> /\ q = << >>
    BY NoPushType DEF Init, Shown, Coming
  <2>2. << >> \in Seq(Word)
    OBVIOUS
  <2>3. Stream = << >>
    BY <2>1, <2>2, ConcatEmptySeq DEF Stream
  <2> QED  BY <2>3 DEF Init, SinkIdle
<1>4. \A k \in 1 .. Len(Stream) : FALSE
  BY <1>3, EmptySeq
<1>5. WholeInv
  BY <1>3, <1>4 DEF WholeInv, CleanWords
<1>6. StatInv
  BY NoPushType DEF Init, StatInv, CleanLengthExact, DoneMatchesDelivery, NoStat
<1> QED  BY <1>1, <1>2, <1>5, <1>6 DEF DeliveryInv

\* An edge keeps deliveries and counts in step.
LEMMA DeliveryNext == DeliveryInv /\ [Next]_vars => DeliveryInv'
<1>1. RxInv => TypeOK
  BY DEF RxInv
<1> QED  BY <1>1, RxNext, PosStep, WholeStep, StatStep DEF DeliveryInv

\* A frame handed over clean is the frame that was on the wire, the statistics
\* count exactly the frames handed over, and both score as the reference model of
\* the test bench says: for every depth, every limit below the counter's end,
\* frames of any length and every pattern of stalls and line errors.
THEOREM RxDeliveredAsCounted == Spec => []DeliveredAsCounted
<1>1. DeliveryInv => DeliveredAsCounted
  BY CleanAtSinkHolds, ReferenceHolds
     DEF DeliveryInv, StatInv, DeliveredAsCounted, CleanMeansWhole
<1> QED  BY DeliveryInit, DeliveryNext, <1>1, PTL DEF Spec
=============================================================================
