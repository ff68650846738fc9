--------------------------- MODULE EthPauseProofs ---------------------------
(***************************************************************************)
(* Proofs about the PAUSE receiver and its timer (rtl/eth_pause_rx.v,      *)
(* rtl/eth_pause.v), for every prescaler, header and frame length.         *)
(***************************************************************************)
EXTENDS EthPause, SequenceTheorems, TLAPS

\* What a byte of pause_time may be in a register.
Quantum == [hi : {0, 1}, lo : {0, 1}]

-----------------------------------------------------------------------------
(* The timer *)

\* The registers the timer is loaded from, and its own.
QuantaTypes ==
  /\ pause_quanta \in Quantum
  /\ old.q \in Quantum

TimerTypes ==
  /\ tick_cnt \in 0 .. TickDiv - 1
  /\ pause_tick \in BOOLEAN
  /\ pause_remaining \in Nat
  /\ tx_paused \in BOOLEAN
  /\ since \in [n : Nat, q : Nat]

\* The cycles that the quanta still to run and the prescaler account for: those of
\* the quanta gone, those of the current one, and a quantum that has ended and is
\* not subtracted yet.
Accounted == (since.q - pause_remaining) * TickDiv + tick_cnt
             + (IF pause_tick THEN TickDiv ELSE 0)

\* tx_paused is pause_remaining # 0, the tick marks the first cycle of a quantum,
\* a running pause has lasted what the registers account for, and one that has run
\* out has lasted all its quanta (or is a resume, loaded in the last cycle).
TimerInv ==
  /\ tx_paused <=> pause_remaining # 0
  /\ pause_tick => tick_cnt = 0
  /\ pause_remaining # 0 => pause_remaining <= since.q /\ since.n = Accounted
  /\ pause_remaining = 0 => \/ since.n > since.q * TickDiv
                            \/ since.n = 0 /\ since.q = 0

PauseInv == QuantaTypes /\ TimerTypes /\ TimerInv

\* Multiplication by the prescaler.
LEMMA TickTimes ==
  /\ \A a \in Int : a * TickDiv \in Int /\ (a + 1) * TickDiv = a * TickDiv + TickDiv
  /\ \A a, c \in Int : a <= c => a * TickDiv <= c * TickDiv
PROOF
<1>1. TickDiv \in Nat /\ TickDiv > 0  BY PauseAssumption
<1> DEFINE T == TickDiv
<1> HIDE DEF T
<1>2. T \in Nat /\ T > 0  BY <1>1 DEF T
<1>3. \A a \in Int : a * T \in Int /\ (a + 1) * T = a * T + T  BY <1>2
<1>4. \A a, c \in Int : a <= c => a * T <= c * T  BY <1>2
<1> QED  BY <1>3, <1>4 DEF T

\* A sampled pause_time is a number of quanta.
LEMMA SampledQuanta ==
  ASSUME QuantaTypes,
         NEW hi \in Sampled(old.q.hi, pause_quanta.hi),
         NEW lo \in Sampled(old.q.lo, pause_quanta.lo)
  PROVE  hi \in {0, 1} /\ lo \in {0, 1} /\ 2 * hi + lo \in Nat
PROOF
<1>1. /\ old.q.hi \in {0, 1} /\ pause_quanta.hi \in {0, 1}
      /\ old.q.lo \in {0, 1} /\ pause_quanta.lo \in {0, 1}
  BY DEF QuantaTypes, Quantum
<1>2. hi \in {0, 1}  BY <1>1 DEF Sampled
<1>3. lo \in {0, 1}  BY <1>1 DEF Sampled
<1> QED  BY <1>2, <1>3

\* An edge of rx_clk writes the quanta register digit by digit and nothing of the
\* timer.
LEMMA RxKeepsPause ==
  ASSUME PauseInv, Rx
  PROVE  PauseInv'
PROOF
<1>1. /\ old' = [tgl |-> pause_tgl, q |-> pause_quanta]
      /\ pause_quanta' = Quanta
      /\ UNCHANGED <<timer, since>>
  BY DEF Rx, RxEdge, Parse
<1>2. Digit(b.d) \in {0, 1}  BY DEF Digit
<1>3. pause_quanta' \in Quantum  BY <1>1, <1>2 DEF Quanta, PauseInv, QuantaTypes, Quantum
<1>4. old'.q \in Quantum  BY <1>1 DEF PauseInv, QuantaTypes
<1>5. /\ tick_cnt' = tick_cnt /\ pause_tick' = pause_tick /\ since' = since
      /\ pause_remaining' = pause_remaining /\ tx_paused' = tx_paused
  BY <1>1 DEF timer
<1>6. TimerTypes' /\ TimerInv'
  BY <1>5 DEF PauseInv, TimerTypes, TimerInv, Accounted
<1> QED  BY <1>3, <1>4, <1>6 DEF PauseInv, QuantaTypes

\* An edge of clk: the load restarts the prescaler, and a quantum is subtracted in
\* the cycle after the prescaler has counted it out.
LEMMA ClkKeepsTimer ==
  ASSUME TimerTypes, TimerInv,
         NEW tgl, NEW hi, NEW lo, NEW en, NEW stat_clr,
         2 * hi + lo \in Nat,
         ClkEdge(tgl, hi, lo, en, stat_clr)
  PROVE  TimerTypes' /\ TimerInv'
PROOF
<1>a. pause_remaining = 0 => \/ since.n > since.q * TickDiv
                             \/ since.n = 0 /\ since.q = 0
  BY Zenon DEF TimerInv
<1> DEFINE T == TickDiv
           n == since.n
           q == since.q
           r == pause_remaining
           wrap == tick_cnt >= T - 1
<1>0. /\ T \in Nat /\ T > 0 /\ n \in Nat /\ q \in Nat /\ r \in Nat
      /\ tick_cnt \in 0 .. T - 1 /\ pause_tick \in BOOLEAN /\ tx_paused \in BOOLEAN
      /\ since = [n |-> n, q |-> q]
  BY PauseAssumption DEF TimerTypes
<1>1. /\ Prescaler /\ Timer(2 * hi + lo)
      /\ since' = IF pause_load THEN [n |-> 0, q |-> 2 * hi + lo]
                  ELSE IF n <= q * T THEN [since EXCEPT !.n = @ + 1] ELSE since
  BY DEF ClkEdge
<1>2. CASE pause_load
  <2> DEFINE v == 2 * hi + lo
  <2>1. /\ tick_cnt' = 0 /\ pause_tick' = FALSE /\ since' = [n |-> 0, q |-> v]
        /\ pause_remaining' = v
        /\ IF v # 0 THEN tx_paused' = TRUE ELSE tx_paused' = FALSE
    BY <1>1, <1>2 DEF Prescaler, Timer
  <2>2. v \in Nat  OBVIOUS
  <2> HIDE DEF v
  <2>3. (v - v) * T = 0
    <3>1. v - v = 0  BY <2>2
    <3> QED  BY <3>1, <1>0
  <2>4. TimerTypes'
    <3>1. 0 \in 0 .. TickDiv - 1  BY <1>0
    <3>2. tx_paused' \in BOOLEAN  BY <2>1
    <3>3. since' \in [n : Nat, q : Nat]  BY <2>1, <2>2
    <3> HIDE DEF T
    <3> QED  BY <3>1, <3>2, <3>3, <2>1, <2>2 DEF TimerTypes
  <2>5. since'.n = 0 /\ since'.q = v  BY <2>1
  <2>6. Accounted' = 0  BY <2>1, <2>3, <2>5, <1>0 DEF Accounted
  <2>7. TimerInv'
    <3>1. tx_paused' <=> pause_remaining' # 0  BY <2>1
    <3>2. pause_tick' => tick_cnt' = 0  BY <2>1
    <3>3. pause_remaining' # 0 => pause_remaining' <= since'.q /\ since'.n = Accounted'
      BY <2>1, <2>2, <2>5, <2>6
    <3>4. pause_remaining' = 0 => since'.n = 0 /\ since'.q = 0  BY <2>1, <2>5
    <3> QED  BY <3>1, <3>2, <3>3, <3>4 DEF TimerInv
  <2> QED  BY <2>4, <2>7
<1>3. CASE ~pause_load
  <2>1. /\ IF wrap THEN tick_cnt' = 0 /\ pause_tick' = TRUE
                   ELSE tick_cnt' = tick_cnt + 1 /\ pause_tick' = FALSE
        /\ IF pause_tick /\ r # 0
           THEN pause_remaining' = r - 1 /\ tx_paused' = (tx_paused /\ r # 1)
           ELSE pause_remaining' = r /\ tx_paused' = tx_paused
        /\ since' = IF n <= q * T THEN [n |-> n + 1, q |-> q] ELSE since
    <3>1. since' = IF n <= q * T THEN [since EXCEPT !.n = @ + 1] ELSE since
      BY <1>1, <1>3
    <3>2. [since EXCEPT !.n = @ + 1] = [n |-> n + 1, q |-> q]  BY <1>0
    <3>3. IF wrap THEN tick_cnt' = 0 /\ pause_tick' = TRUE
                  ELSE tick_cnt' = tick_cnt + 1 /\ pause_tick' = FALSE
      <4>1. /\ tick_cnt' = (IF wrap THEN 0 ELSE tick_cnt + 1)
            /\ pause_tick' = wrap  BY <1>1, <1>3 DEF Prescaler
      <4> HIDE DEF T
      <4>2. wrap = TRUE \/ wrap = FALSE  OBVIOUS
      <4>3. CASE wrap = TRUE  BY <4>1, <4>3
      <4>4. CASE wrap = FALSE  BY <4>1, <4>4
      <4> QED  BY <4>2, <4>3, <4>4
    <3>4. IF pause_tick /\ r # 0
          THEN pause_remaining' = r - 1 /\ tx_paused' = (tx_paused /\ r # 1)
          ELSE pause_remaining' = r /\ tx_paused' = tx_paused
      BY <1>1, <1>3 DEF Timer
    <3> QED  BY <3>1, <3>2, <3>3, <3>4
  <2>2. since'.q = q /\ since'.n = (IF n <= q * T THEN n + 1 ELSE n)
    BY <2>1, <1>0
  <2>3. tick_cnt' \in 0 .. T - 1 /\ pause_tick' \in BOOLEAN /\ pause_remaining' \in Nat
        /\ (pause_tick' => tick_cnt' = 0)
    <3>1. pause_remaining' \in Nat  BY <2>1, <1>0
    <3>2. CASE wrap  BY <3>1, <3>2, <2>1, <1>0
    <3>3. CASE ~wrap
      <4>1. tick_cnt' = tick_cnt + 1 /\ pause_tick' = FALSE  BY <3>3, <2>1
      <4>2. tick_cnt + 1 \in 0 .. T - 1  BY <3>3, <1>0
      <4> QED  BY <3>1, <4>1, <4>2
    <3> QED  BY <3>2, <3>3
  <2>4. q * T \in Int  BY <1>0, TickTimes
  <2>5. tx_paused' \in BOOLEAN /\ (tx_paused' <=> pause_remaining' # 0)
    <3>1. tx_paused = (r # 0)  BY <1>0 DEF TimerInv
    <3>2. tx_paused' = (pause_remaining' # 0)
      <4>1. CASE pause_tick /\ r # 0
        <5>1. pause_remaining' = r - 1 /\ tx_paused' = (tx_paused /\ r # 1)  BY <2>1, <4>1
        <5>2. (r - 1 # 0) <=> (r # 1)  BY <1>0
        <5> QED  BY <5>1, <5>2, <3>1, <4>1
      <4>2. CASE ~(pause_tick /\ r # 0)  BY <2>1, <3>1, <4>2
      <4> QED  BY <4>1, <4>2
    <3> QED  BY <3>2
  <2>6. since' \in [n : Nat, q : Nat]  BY <2>1, <1>0
  <2>7. r # 0 => /\ n = (q - r) * T + tick_cnt + (IF pause_tick THEN T ELSE 0)
                 /\ n <= q * T /\ r <= q
    <3> SUFFICES ASSUME r # 0
                 PROVE  /\ n = (q - r) * T + tick_cnt + (IF pause_tick THEN T ELSE 0)
                        /\ n <= q * T /\ r <= q
      OBVIOUS
    <3>1. n = (q - r) * T + tick_cnt + (IF pause_tick THEN T ELSE 0) /\ r <= q
      BY DEF TimerInv, Accounted
    <3>2. pause_tick => tick_cnt = 0  BY DEF TimerInv
    <3>3. q - r \in Int /\ (q - r) + 1 \in Int /\ (q - r) + 1 <= q  BY <1>0
    <3>4. (q - r) * T \in Int /\ ((q - r) + 1) * T = (q - r) * T + T
      BY <3>3, TickTimes
    <3>5. ((q - r) + 1) * T <= q * T  BY <3>3, <1>0, TickTimes
    <3>6. n <= (q - r) * T + T  BY <3>1, <3>2, <3>4, <1>0
    <3> QED  BY <3>1, <3>4, <3>5, <3>6, <2>4, <1>0
  <2>8. pause_remaining' # 0 => pause_remaining' <= q /\ since'.n = Accounted'
    <3> SUFFICES ASSUME pause_remaining' # 0
                 PROVE  pause_remaining' <= q /\ since'.n = Accounted'
      OBVIOUS
    <3>1. r # 0  BY <2>1, <1>0
    <3>2. since'.n = n + 1  BY <3>1, <2>2, <2>7
    <3>3. q - r \in Int /\ (q - r) * T \in Int
          /\ ((q - r) + 1) * T = (q - r) * T + T
      <4>1. q - r \in Int  BY <1>0
      <4> QED  BY <4>1, TickTimes
    <3>4. Accounted' = (q - pause_remaining') * T + tick_cnt' + (IF pause_tick' THEN T ELSE 0)
      BY <2>2 DEF Accounted
    <3>5. CASE pause_tick
      <4>1. pause_remaining' = r - 1 /\ tick_cnt = 0  BY <2>1, <3>1, <3>5 DEF TimerInv
      <4>2. q - (r - 1) = (q - r) + 1  BY <1>0
      <4>3. (q - pause_remaining') * T = (q - r) * T + T  BY <4>1, <4>2, <3>3
      <4>4. n = (q - r) * T + T  BY <2>7, <3>1, <3>5, <3>3, <4>1, <1>0
      <4>5. tick_cnt' + (IF pause_tick' THEN T ELSE 0) = 1  BY <2>1, <4>1, <1>0
      <4> QED  BY <3>2, <3>3, <3>4, <4>1, <4>3, <4>4, <4>5, <2>7, <2>3, <1>0
    <3>6. CASE ~pause_tick
      <4>1. pause_remaining' = r  BY <2>1, <3>6
      <4>2. n = (q - r) * T + tick_cnt  BY <2>7, <3>1, <3>6, <3>3, <1>0
      <4>3. tick_cnt' + (IF pause_tick' THEN T ELSE 0) = tick_cnt + 1  BY <2>1, <1>0
      <4> QED  BY <3>2, <3>3, <3>4, <4>1, <4>2, <4>3, <2>7, <2>3, <3>1, <1>0
    <3> QED  BY <3>5, <3>6, <1>0
  <2>9. pause_remaining' = 0 => since'.n > q * T \/ (since'.n = 0 /\ q = 0)
    <3> SUFFICES ASSUME pause_remaining' = 0 PROVE since'.n > q * T
      OBVIOUS
    <3>1. CASE r = 0
      <4>1. n > q * T \/ (n = 0 /\ q = 0)  BY Zenon, <1>a, <3>1
      <4>2. CASE n > q * T  BY <4>2, <2>2, <2>4, <1>0
      <4>3. CASE n = 0 /\ q = 0
        <5>1. q * T = 0  BY <4>3, <1>0
        <5> QED  BY <5>1, <4>3, <2>2
      <4> QED  BY <4>1, <4>2, <4>3
    <3>2. CASE r # 0
      <4>1. pause_tick /\ r = 1  BY <2>1, <3>2, <1>0
      <4>2. tick_cnt = 0  BY <4>1 DEF TimerInv
      <4>3. n = (q - 1) * T + T
        <5>1. q - 1 \in Int  BY <1>0
        <5>2. (q - 1) * T \in Int  BY <5>1, TickTimes
        <5> QED  BY <5>2, <4>1, <4>2, <2>7, <3>2, <1>0
      <4>4. q * T = (q - 1) * T + T
        <5>1. q - 1 \in Int /\ (q - 1) + 1 = q  BY <1>0
        <5> QED  BY <5>1, TickTimes
      <4>5. since'.n = n + 1  BY <2>2, <2>7, <3>2
      <4> QED  BY <4>3, <4>4, <4>5, <2>4, <1>0
    <3> QED  BY <3>1, <3>2
  <2>10. TimerTypes'  BY <2>3, <2>5, <2>6 DEF TimerTypes
  <2>11. TimerInv'
    <3>1. since'.q = q  BY <2>2
    <3> QED  BY <3>1, <2>3, <2>5, <2>8, <2>9 DEF TimerInv
  <2> QED  BY <2>10, <2>11
<1> QED  BY <1>2, <1>3

\* Every reachable state satisfies the invariant of the timer.
THEOREM PauseInductive == Spec => []PauseInv
PROOF
<1>1. Init => PauseInv
  <2> SUFFICES ASSUME Init PROVE PauseInv  OBVIOUS
  <2>1. QuantaTypes  BY DEF Init, QuantaTypes, Quantum, Zero
  <2>2. TimerTypes
    <3>1. 0 \in 0 .. TickDiv - 1  BY PauseAssumption
    <3>2. since \in [n : Nat, q : Nat]  BY DEF Init
    <3> QED  BY <3>1, <3>2 DEF Init, TimerTypes
  <2>3. TimerInv  BY DEF Init, TimerInv
  <2> QED  BY <2>1, <2>2, <2>3 DEF PauseInv
<1>2. PauseInv /\ [Next]_vars => PauseInv'
  <2> SUFFICES ASSUME PauseInv, [Next]_vars PROVE PauseInv'  OBVIOUS
  <2>1. CASE Rx  BY <2>1, RxKeepsPause
  <2>2. CASE Clk
    <3>1. PICK tgl \in Sampled(old.tgl, pause_tgl), hi \in Sampled(old.q.hi, pause_quanta.hi),
               lo \in Sampled(old.q.lo, pause_quanta.lo), en \in BOOLEAN,
               stat_clr \in BOOLEAN : ClkEdge(tgl, hi, lo, en, stat_clr)
      BY <2>2 DEF Clk
    <3>2. QuantaTypes /\ TimerTypes /\ TimerInv  BY DEF PauseInv
    <3>3. 2 * hi + lo \in Nat  BY <3>2, SampledQuanta
    <3>4. TimerTypes' /\ TimerInv'  BY <3>1, <3>2, <3>3, ClkKeepsTimer
    <3>5. pause_quanta' = pause_quanta /\ old' = old  BY <3>1 DEF ClkEdge, parser
    <3>6. QuantaTypes'  BY <3>2, <3>5 DEF QuantaTypes
    <3> QED  BY <3>4, <3>6 DEF PauseInv
  <2>3. CASE UNCHANGED vars
    BY <2>3 DEF vars, timer, parser, PauseInv, QuantaTypes, TimerTypes, TimerInv, Accounted
  <2> QED  BY <2>1, <2>2, <2>3 DEF Next
<1> QED  BY <1>1, <1>2, PTL DEF Spec

\* "N quanta always last N full quanta" (eth_pause.v 100-104): a pause does not end
\* before, whatever the speed's prescaler and whenever the next frame arrives.
THEOREM PauseLastsFully == Spec => []PauseFullLength
PROOF
<1>1. PauseInv => PauseFullLength
  BY DEF PauseInv, TimerTypes, TimerInv, PauseFullLength
<1> QED  BY <1>1, PauseInductive, PTL
-----------------------------------------------------------------------------
(* The parser follows the line *)

States == {"IDLE", "PRE", "HEADER", "QUANTA_HI", "QUANTA_LO", "LATCH", "DRAIN"}
Seen   == {"none", "pre", "sfd", "bad"}
Classes == {"pre", "sfd", "hdr", "zz"}

FrameTypes == [seen : Seen, n : 0 .. MinLen, match : BOOLEAN, er : BOOLEAN, q : Quantum]

ParserTypes ==
  /\ line \in [dv : BOOLEAN, fcs : BOOLEAN]
  /\ b \in [stb : BOOLEAN, d : Classes, end : BOOLEAN, end_er : BOOLEAN,
            dv_d1 : BOOLEAN, dv_er : BOOLEAN]
  /\ rx_state \in States /\ rx_idx \in 0 .. HeaderLen - 1 /\ rx_len \in 0 .. MinLen
  /\ frame \in FrameTypes
  /\ QuantaTypes

\* One byte through the parser, and through the frame as 802.3 reads it.
NextState(st, idx, d) ==
  IF st \in {"IDLE", "PRE"}
  THEN IF d = "sfd" THEN "HEADER" ELSE IF d = "pre" THEN "PRE" ELSE "DRAIN"
  ELSE IF st = "HEADER"
  THEN IF d # "hdr" THEN "DRAIN"
       ELSE IF idx = HeaderLen - 1 THEN "QUANTA_HI" ELSE "HEADER"
  ELSE IF st = "QUANTA_HI" THEN "QUANTA_LO"
  ELSE IF st = "QUANTA_LO" THEN "LATCH"
  ELSE st

NextIdx(st, idx, d) ==
  IF st \in {"IDLE", "PRE"} THEN 0
  ELSE IF st = "HEADER" /\ d = "hdr" THEN (idx + 1) % HeaderLen ELSE idx

NextLen(st, len) ==
  IF st \in {"IDLE", "PRE"} THEN 0
  ELSE IF st # "DRAIN" /\ len # MinLen THEN len + 1 ELSE len

NextQuanta(st, q, d) ==
  IF st = "QUANTA_HI" THEN [q EXCEPT !.hi = Digit(d)]
  ELSE IF st = "QUANTA_LO" THEN [q EXCEPT !.lo = Digit(d)] ELSE q

Fed(f, byte, er) ==
  LET body == f.seen = "sfd"
  IN  [seen |-> IF body \/ f.seen = "bad" THEN f.seen
                ELSE IF byte = "sfd" THEN "sfd"
                ELSE IF byte = "pre" THEN "pre" ELSE "bad",
       n |-> IF body /\ f.n < MinLen THEN f.n + 1 ELSE f.n,
       match |-> f.match /\ (body /\ f.n < HeaderLen => byte = "hdr"),
       er |-> f.er \/ er,
       q |-> IF body /\ f.n = HeaderLen THEN [f.q EXCEPT !.hi = Digit(byte)]
             ELSE IF body /\ f.n = HeaderLen + 1
             THEN [f.q EXCEPT !.lo = Digit(byte)] ELSE f.q]

\* Where n bytes after the SFD take the parser, if none was wrong.
Place(n) == IF n < HeaderLen THEN "HEADER"
            ELSE IF n = HeaderLen THEN "QUANTA_HI"
            ELSE IF n = HeaderLen + 1 THEN "QUANTA_LO" ELSE "LATCH"

\* The parser that has consumed the frame f: it is in the place f has reached, or
\* has given it up, and holds the part of pause_time that f has.
Matches(st, idx, len, q, f) ==
  /\ f.seen = "none" => st = "IDLE"
  /\ f.seen = "pre" => st = "PRE"
  /\ f.seen = "bad" => st = "DRAIN"
  /\ f.seen # "sfd" => f.n = 0 /\ f.match
  /\ f.seen = "sfd" /\ ~f.match => st = "DRAIN"
  /\ f.seen = "sfd" /\ f.match =>
       /\ st = Place(f.n) /\ len = f.n
       /\ f.n < HeaderLen => idx = f.n
       /\ f.n > HeaderLen => q.hi = f.q.hi
       /\ f.n > HeaderLen + 1 => q.lo = f.q.lo

\* The parser with the byte of the byte stage consumed.
StateAfter == IF b.stb THEN NextState(rx_state, rx_idx, b.d) ELSE rx_state
IdxAfter   == IF b.stb THEN NextIdx(rx_state, rx_idx, b.d) ELSE rx_idx
LenAfter   == IF b.stb THEN NextLen(rx_state, rx_len) ELSE rx_len
QuantaAfter == IF b.stb THEN NextQuanta(rx_state, pause_quanta, b.d) ELSE pause_quanta

\* In a frame the parser is one byte behind the line, and the error of the byte
\* stage is the frame's; out of one it is idle, or about to judge the last frame.
FollowsLine ==
  /\ line.dv = b.dv_d1
  /\ line.dv => /\ ~b.end /\ b.dv_er = frame.er
                /\ Matches(StateAfter, IdxAfter, LenAfter, QuantaAfter, frame)
  /\ ~line.dv => /\ frame = NoFrame /\ ~b.stb /\ ~b.dv_er
                 /\ ~b.end => rx_state = "IDLE"

ParserInv == ParserTypes /\ FollowsLine

\* A byte keeps parser and frame in step, wherever they are.
LEMMA ByteKeepsStep ==
  ASSUME NEW st \in States, NEW idx \in 0 .. HeaderLen - 1, NEW len \in 0 .. MinLen,
         NEW q \in Quantum, NEW f \in FrameTypes,
         NEW d \in Classes, NEW er \in BOOLEAN,
         Matches(st, idx, len, q, f)
  PROVE  Matches(NextState(st, idx, d), NextIdx(st, idx, d), NextLen(st, len),
                 NextQuanta(st, q, d), Fed(f, d, er))
PROOF
<1> DEFINE g == Fed(f, d, er)
           st2 == NextState(st, idx, d)
           q2 == NextQuanta(st, q, d)
<1>0. /\ HeaderLen \in Nat /\ HeaderLen > 0 /\ MinLen \in Nat /\ MinLen >= HeaderLen + 2
      /\ f.seen \in Seen /\ f.n \in 0 .. MinLen /\ f.match \in BOOLEAN
      /\ f.q \in Quantum
  BY PauseAssumption DEF FrameTypes
<1>1. /\ g.seen = (IF f.seen = "sfd" \/ f.seen = "bad" THEN f.seen
                   ELSE IF d = "sfd" THEN "sfd" ELSE IF d = "pre" THEN "pre" ELSE "bad")
      /\ g.n = (IF f.seen = "sfd" /\ f.n < MinLen THEN f.n + 1 ELSE f.n)
      /\ g.match = (f.match /\ (f.seen = "sfd" /\ f.n < HeaderLen => d = "hdr"))
      /\ g.q = (IF f.seen = "sfd" /\ f.n = HeaderLen THEN [f.q EXCEPT !.hi = Digit(d)]
                ELSE IF f.seen = "sfd" /\ f.n = HeaderLen + 1
                THEN [f.q EXCEPT !.lo = Digit(d)] ELSE f.q)
  BY DEF Fed
<1> HIDE DEF g
<1>2. CASE f.seen \in {"none", "pre"}
  <2>1. st \in {"IDLE", "PRE"} /\ f.n = 0 /\ f.match = TRUE
    BY <1>2, <1>0 DEF Matches
  <2>2. g.n = 0 /\ g.match = TRUE /\ g.seen = (IF d = "sfd" THEN "sfd" ELSE IF d = "pre" THEN "pre" ELSE "bad")
    BY <1>1, <1>2, <2>1, <1>0
  <2>3. /\ st2 = (IF d = "sfd" THEN "HEADER" ELSE IF d = "pre" THEN "PRE" ELSE "DRAIN")
        /\ NextIdx(st, idx, d) = 0 /\ NextLen(st, len) = 0
    BY <2>1 DEF NextState, NextIdx, NextLen
  <2>4. Place(0) = "HEADER"  BY <1>0 DEF Place
  <2> HIDE DEF st2, q2
  <2>5. Matches(st2, NextIdx(st, idx, d), NextLen(st, len), q2, g)
    BY <2>2, <2>3, <2>4, <1>0 DEF Matches
  <2> QED  BY <2>5 DEF st2, q2, g
<1>3. CASE f.seen = "bad"
  <2>1. st = "DRAIN" /\ f.n = 0 /\ f.match = TRUE  BY <1>3, <1>0 DEF Matches
  <2>2. g.n = 0 /\ g.match = TRUE /\ g.seen = "bad"  BY <1>1, <1>3, <2>1, <1>0
  <2>3. st2 = "DRAIN"  BY <2>1 DEF NextState
  <2> HIDE DEF st2, q2
  <2>4. Matches(st2, NextIdx(st, idx, d), NextLen(st, len), q2, g)
    BY <2>2, <2>3 DEF Matches
  <2> QED  BY <2>4 DEF st2, q2, g
<1>4. CASE f.seen = "sfd" /\ f.match = FALSE
  <2>1. st = "DRAIN"  BY <1>4 DEF Matches
  <2>2. g.match = FALSE /\ g.seen = "sfd"  BY <1>1, <1>4
  <2>3. st2 = "DRAIN"  BY <2>1 DEF NextState
  <2> HIDE DEF st2, q2
  <2>4. Matches(st2, NextIdx(st, idx, d), NextLen(st, len), q2, g)
    BY <2>2, <2>3 DEF Matches
  <2> QED  BY <2>4 DEF st2, q2, g
<1>5. CASE f.seen = "sfd" /\ f.match = TRUE
  <2>1. /\ st = Place(f.n) /\ len = f.n
        /\ f.n < HeaderLen => idx = f.n
        /\ f.n > HeaderLen => q.hi = f.q.hi
        /\ f.n > HeaderLen + 1 => q.lo = f.q.lo
    BY <1>5 DEF Matches
  <2>2. g.seen = "sfd"  BY <1>1, <1>5
  <2>3. /\ g.n = (IF f.n < MinLen THEN f.n + 1 ELSE f.n)
        /\ g.match = (f.n < HeaderLen => d = "hdr")
        /\ g.q = (IF f.n = HeaderLen THEN [f.q EXCEPT !.hi = Digit(d)]
                  ELSE IF f.n = HeaderLen + 1 THEN [f.q EXCEPT !.lo = Digit(d)] ELSE f.q)
    BY <1>1, <1>5
  <2>4. NextLen(st, len) = g.n
    <3>1. st \notin {"IDLE", "PRE", "DRAIN"}  BY <2>1 DEF Place
    <3>2. NextLen(st, len) = (IF len # MinLen THEN len + 1 ELSE len)  BY <3>1 DEF NextLen
    <3> QED  BY <3>2, <2>1, <2>3, <1>0
  <2>5. CASE f.n < HeaderLen
    <3>1. st = "HEADER" /\ idx = f.n /\ g.n = f.n + 1  BY <2>1, <2>3, <2>5, <1>0 DEF Place
    <3>2. CASE d # "hdr"
      <4>1. g.match = FALSE  BY <2>3, <2>5, <3>2
      <4>2. st2 = "DRAIN"  BY <3>1, <3>2 DEF NextState
      <4> HIDE DEF st2, q2
      <4>3. Matches(st2, NextIdx(st, idx, d), NextLen(st, len), q2, g)
        BY <4>1, <4>2, <2>2 DEF Matches
      <4> QED  BY <4>3 DEF st2, q2, g
    <3>3. CASE d = "hdr"
      <4>1. g.match = TRUE  BY <2>3, <2>5, <3>3
      <4>2. st2 = Place(g.n)
        <5>1. st2 = (IF idx = HeaderLen - 1 THEN "QUANTA_HI" ELSE "HEADER")
          BY <3>1, <3>3 DEF NextState
        <5> QED  BY <5>1, <3>1, <2>5, <1>0 DEF Place
      <4>3. g.n < HeaderLen => NextIdx(st, idx, d) = g.n
        <5>1. NextIdx(st, idx, d) = (idx + 1) % HeaderLen  BY <3>1, <3>3 DEF NextIdx
        <5>2. g.n < HeaderLen => (idx + 1) % HeaderLen = idx + 1
          BY <3>1, <1>0
        <5> QED  BY <5>1, <5>2, <3>1
      <4>4. ~(g.n > HeaderLen)  BY <3>1, <2>5, <1>0
      <4>5. ~(g.n > HeaderLen + 1)  BY <3>1, <2>5, <1>0
      <4> HIDE DEF st2, q2
      <4>6. Matches(st2, NextIdx(st, idx, d), NextLen(st, len), q2, g)
        BY <4>1, <4>2, <4>3, <4>4, <4>5, <2>2, <2>4 DEF Matches
      <4> QED  BY <4>6 DEF st2, q2, g
    <3> QED  BY <3>2, <3>3
  <2>6. CASE ~(f.n < HeaderLen)
    <3>1. g.match = TRUE  BY <2>3, <2>6
    <3>2. st2 = Place(g.n)
      BY <2>1, <2>3, <2>6, <1>0 DEF Place, NextState
    <3>3. ~(g.n < HeaderLen)  BY <2>3, <2>6, <1>0
    <3>4. g.n > HeaderLen => q2.hi = g.q.hi
      <4>1. CASE f.n = HeaderLen
        <5>1. st = "QUANTA_HI"  BY <2>1, <4>1, <1>0 DEF Place
        <5> QED  BY <5>1, <2>3, <4>1, <1>0 DEF NextQuanta, Quantum
      <4>2. CASE f.n # HeaderLen
        <5>1. f.n > HeaderLen /\ st # "QUANTA_HI"  BY <2>1, <2>6, <4>2, <1>0 DEF Place
        <5>2. q2.hi = q.hi  BY <5>1 DEF NextQuanta, Quantum
        <5>3. g.q.hi = f.q.hi  BY <2>3, <4>2, <1>0 DEF Quantum
        <5> QED  BY <5>1, <5>2, <5>3, <2>1
      <4> QED  BY <4>1, <4>2
    <3>5. g.n > HeaderLen + 1 => q2.lo = g.q.lo
      <4>1. CASE f.n = HeaderLen + 1
        <5>1. st = "QUANTA_LO"  BY <2>1, <4>1, <1>0 DEF Place
        <5>2. q2.lo = Digit(d)  BY <5>1 DEF NextQuanta, Quantum
        <5>3. f.n # HeaderLen  BY <4>1, <1>0
        <5>4. g.q.lo = Digit(d)  BY <5>3, <2>3, <4>1, <1>0 DEF Quantum
        <5> QED  BY <5>2, <5>4
      <4>2. CASE f.n = HeaderLen
        <5>1. g.n = HeaderLen + 1  BY <2>3, <4>2, <1>0
        <5> QED  BY <5>1, <1>0
      <4>3. CASE f.n > HeaderLen + 1
        <5>1. st = "LATCH" /\ f.n # HeaderLen /\ f.n # HeaderLen + 1
          BY <2>1, <4>3, <1>0 DEF Place
        <5>2. q2 = q  BY <5>1 DEF NextQuanta
        <5>3. g.q = f.q  BY <5>1, <2>3
        <5> QED  BY <5>2, <5>3, <4>3, <2>1
      <4>4. f.n = HeaderLen + 1 \/ f.n = HeaderLen \/ f.n > HeaderLen + 1
        BY <2>6, <1>0
      <4> QED  BY <4>1, <4>2, <4>3, <4>4
    <3> HIDE DEF st2, q2
    <3>6. Matches(st2, NextIdx(st, idx, d), NextLen(st, len), q2, g)
      BY <3>1, <3>2, <3>3, <3>4, <3>5, <2>2, <2>4 DEF Matches
    <3> QED  BY <3>6 DEF st2, q2, g
  <2> QED  BY <2>5, <2>6
<1> QED  BY <1>0, <1>2, <1>3, <1>4, <1>5 DEF Seen
\* What one edge of rx_clk does to the parser: it consumes the byte stage, and the
\* end of a frame sends it home.
LEMMA EdgeConsumes ==
  ASSUME ParserInv, Parse
  PROVE  /\ pause_quanta' = QuantaAfter
         /\ ~b.end => /\ rx_state' = StateAfter /\ rx_idx' = IdxAfter
                      /\ rx_len' = LenAfter /\ pause_tgl' = pause_tgl
         /\ b.end => /\ ~line.dv /\ ~b.stb /\ rx_state' = "IDLE" /\ rx_idx' = 0
                     /\ rx_len' = rx_len /\ pause_quanta' = pause_quanta
                     /\ pause_tgl' = IF Commit THEN ~pause_tgl ELSE pause_tgl
PROOF
<1>0. /\ b.stb \in BOOLEAN /\ b.end \in BOOLEAN /\ line.dv \in BOOLEAN
      /\ rx_state \in States
  BY DEF ParserInv, ParserTypes
<1>1. b.end => ~line.dv /\ ~b.stb  BY DEF ParserInv, FollowsLine
<1>2. pause_quanta' = QuantaAfter
  BY DEF Parse, Quanta, QuantaAfter, NextQuanta
<1>3. ASSUME ~b.end
      PROVE  /\ rx_state' = StateAfter /\ rx_idx' = IdxAfter
             /\ rx_len' = LenAfter /\ pause_tgl' = pause_tgl
  <2>1. rx_state' = StateAfter
    BY <1>3 DEF Parse, AfterByte, StateAfter, NextState
  <2>2. rx_idx' = IdxAfter  BY <1>3 DEF Parse, IdxAfter, NextIdx
  <2>3. rx_len' = LenAfter  BY <1>3 DEF Parse, rx_body, LenAfter, NextLen
  <2>4. pause_tgl' = pause_tgl  BY <1>3 DEF Parse
  <2> QED  BY <2>1, <2>2, <2>3, <2>4
<1>4. ASSUME b.end
      PROVE  /\ rx_state' = "IDLE" /\ rx_idx' = 0
             /\ rx_len' = rx_len /\ pause_quanta' = pause_quanta
             /\ pause_tgl' = IF Commit THEN ~pause_tgl ELSE pause_tgl
  <2>1. ~b.stb  BY <1>1, <1>4
  <2>2. rx_state' = "IDLE" /\ rx_idx' = 0  BY <1>4 DEF Parse
  <2>3. rx_len' = rx_len  BY <2>1 DEF Parse, rx_body
  <2>4. pause_quanta' = pause_quanta  BY <2>1, <1>2 DEF QuantaAfter
  <2>5. pause_tgl' = IF Commit THEN ~pause_tgl ELSE pause_tgl  BY <1>4 DEF Parse
  <2> QED  BY <2>2, <2>3, <2>4, <2>5
<1> QED  BY <1>1, <1>2, <1>3, <1>4

\* So, after each edge, the parser has consumed what the line showed before it.
LEMMA EdgeMatches ==
  ASSUME ParserInv, Parse
  PROVE  Matches(rx_state', rx_idx', rx_len', pause_quanta', frame)
PROOF
<1>1. CASE line.dv
  <2>1. ~b.end /\ Matches(StateAfter, IdxAfter, LenAfter, QuantaAfter, frame)
    BY <1>1 DEF ParserInv, FollowsLine
  <2>2. /\ rx_state' = StateAfter /\ rx_idx' = IdxAfter
        /\ rx_len' = LenAfter /\ pause_quanta' = QuantaAfter
    BY <2>1, EdgeConsumes
  <2> QED  BY <2>1, <2>2
<1>2. CASE ~line.dv
  <2>1. frame = NoFrame /\ ~b.stb /\ (~b.end => rx_state = "IDLE")
    BY <1>2 DEF ParserInv, FollowsLine
  <2>2. rx_state' = "IDLE"
    <3>1. CASE b.end  BY <3>1, EdgeConsumes
    <3>2. CASE ~b.end
      <4>1. rx_state' = StateAfter  BY <3>2, EdgeConsumes
      <4> QED  BY <4>1, <3>2, <2>1 DEF StateAfter
    <3> QED  BY <3>1, <3>2
  <2>3. frame.seen = "none" /\ frame.n = 0 /\ frame.match = TRUE  BY <2>1 DEF NoFrame
  <2> QED  BY <2>2, <2>3 DEF Matches
<1> QED  BY <1>1, <1>2

\* The registers of the parser keep their ranges.
LEMMA EdgeKeepsRanges ==
  ASSUME ParserInv, Parse
  PROVE  /\ rx_state' \in States /\ rx_idx' \in 0 .. HeaderLen - 1
         /\ rx_len' \in 0 .. MinLen /\ pause_quanta' \in Quantum
PROOF
<1>0. /\ HeaderLen \in Nat /\ HeaderLen > 0 /\ MinLen \in Nat
      /\ rx_state \in States /\ rx_idx \in 0 .. HeaderLen - 1 /\ rx_len \in 0 .. MinLen
      /\ pause_quanta \in Quantum
  BY PauseAssumption DEF ParserInv, ParserTypes, QuantaTypes
<1>1. StateAfter \in States  BY <1>0 DEF StateAfter, NextState, States
<1>2. IdxAfter \in 0 .. HeaderLen - 1
  <2>1. (rx_idx + 1) % HeaderLen \in 0 .. HeaderLen - 1  BY <1>0
  <2>2. 0 \in 0 .. HeaderLen - 1  BY <1>0
  <2> QED  BY <2>1, <2>2, <1>0 DEF IdxAfter, NextIdx
<1>3. LenAfter \in 0 .. MinLen
  <2>1. rx_len # MinLen => rx_len + 1 \in 0 .. MinLen  BY <1>0
  <2>2. 0 \in 0 .. MinLen  BY <1>0
  <2> QED  BY <2>1, <2>2, <1>0 DEF LenAfter, NextLen
<1>4. QuantaAfter \in Quantum
  <2>1. Digit(b.d) \in {0, 1}  BY DEF Digit
  <2> QED  BY <2>1, <1>0 DEF QuantaAfter, NextQuanta, Quantum
<1>5. CASE b.end
  <2>1. 0 \in 0 .. HeaderLen - 1 /\ "IDLE" \in States  BY <1>0 DEF States
  <2> QED  BY <2>1, <1>0, <1>4, <1>5, EdgeConsumes
<1>6. CASE ~b.end
  BY <1>1, <1>2, <1>3, <1>4, <1>6, EdgeConsumes
<1> QED  BY <1>5, <1>6

\* An edge of rx_clk keeps the parser behind the line.
LEMMA RxKeepsParser ==
  ASSUME ParserInv,
         NEW dv \in BOOLEAN, NEW ce \in BOOLEAN, NEW byte \in Classes,
         NEW er \in BOOLEAN, NEW fcs \in BOOLEAN,
         RxEdge(dv, ce, byte, er, fcs)
  PROVE  ParserInv'
PROOF
<1> DEFINE f == frame
<1>0. /\ line \in [dv : BOOLEAN, fcs : BOOLEAN]
      /\ b.stb \in BOOLEAN /\ b.end \in BOOLEAN /\ b.dv_d1 \in BOOLEAN /\ b.dv_er \in BOOLEAN
      /\ f \in FrameTypes /\ QuantaTypes
      /\ line.dv = b.dv_d1
  BY DEF ParserInv, ParserTypes, FollowsLine
<1>1. /\ Parse /\ ByteStage(dv, ce, byte, er) /\ Observe(dv, ce, byte, er)
      /\ line' = [dv |-> dv, fcs |-> IF line.dv /\ ~dv THEN fcs ELSE line.fcs]
      /\ old' = [tgl |-> pause_tgl, q |-> pause_quanta]
  BY DEF RxEdge
<1>2. /\ rx_state' \in States /\ rx_idx' \in 0 .. HeaderLen - 1
      /\ rx_len' \in 0 .. MinLen /\ pause_quanta' \in Quantum
  BY <1>1, EdgeKeepsRanges
<1>3. /\ b'.stb = (dv /\ ce) /\ b'.end = (b.dv_d1 /\ ~dv) /\ b'.dv_d1 = dv
      /\ b'.dv_er = (dv /\ (b.dv_er \/ er)) /\ b'.end_er = b.dv_er
      /\ (dv /\ ce => b'.d = byte)
      /\ b' \in [stb : BOOLEAN, d : Classes, end : BOOLEAN, end_er : BOOLEAN,
                 dv_d1 : BOOLEAN, dv_er : BOOLEAN]
  <2>1. b' = [stb |-> dv /\ ce, d |-> IF dv /\ ce THEN byte ELSE "zz",
              end |-> b.dv_d1 /\ ~dv, end_er |-> b.dv_er,
              dv_d1 |-> dv, dv_er |-> dv /\ (b.dv_er \/ er)]
    BY <1>1 DEF ByteStage
  <2>2. (IF dv /\ ce THEN byte ELSE "zz") \in Classes  BY DEF Classes
  <2> QED  BY <2>1, <2>2, <1>0
<1>4. line' \in [dv : BOOLEAN, fcs : BOOLEAN] /\ line'.dv = dv  BY <1>0, <1>1
<1>5. old'.q \in Quantum  BY <1>0, <1>1 DEF QuantaTypes
<1>6. Matches(rx_state', rx_idx', rx_len', pause_quanta', f)  BY <1>1, EdgeMatches
<1>7. CASE ~dv
  <2>1. frame' = NoFrame  BY <1>1, <1>7 DEF Observe
  <2>2. NoFrame \in FrameTypes
    <3>1. 0 \in 0 .. MinLen  BY PauseAssumption
    <3> QED  BY <3>1 DEF NoFrame, FrameTypes, Seen, Quantum, Zero
  <2>3. ~b'.end => rx_state' = "IDLE"
    <3> SUFFICES ASSUME ~b'.end PROVE rx_state' = "IDLE"  OBVIOUS
    <3>1. ~line.dv  BY <1>0, <1>3, <1>7
    <3>2. f = NoFrame  BY <3>1 DEF ParserInv, FollowsLine
    <3> QED  BY <3>2, <1>6 DEF Matches, NoFrame
  <2>4. FollowsLine'  BY <2>1, <2>3, <1>3, <1>4, <1>7 DEF FollowsLine
  <2>5. ParserTypes'  BY <2>1, <2>2, <1>2, <1>3, <1>4, <1>5 DEF ParserTypes, QuantaTypes
  <2> QED  BY <2>4, <2>5 DEF ParserInv
<1>8. CASE dv /\ ~ce
  <2>1. frame' = [f EXCEPT !.er = @ \/ er]  BY <1>1, <1>8 DEF Observe
  <2>2. /\ frame' \in FrameTypes
        /\ frame'.seen = f.seen /\ frame'.n = f.n /\ frame'.match = f.match
        /\ frame'.q = f.q /\ frame'.er = (f.er \/ er)
    BY <2>1, <1>0 DEF FrameTypes
  <2>3. ~b'.stb /\ ~b'.end  BY <1>3, <1>8
  <2>4. /\ StateAfter' = rx_state' /\ IdxAfter' = rx_idx' /\ LenAfter' = rx_len'
        /\ QuantaAfter' = pause_quanta'
    BY <2>3 DEF StateAfter, IdxAfter, LenAfter, QuantaAfter
  <2>5. Matches(StateAfter', IdxAfter', LenAfter', QuantaAfter', frame')
    <3>1. Matches(rx_state', rx_idx', rx_len', pause_quanta', frame')
      BY <2>2, <1>6 DEF Matches
    <3> QED  BY <3>1, <2>4
  <2>6. b'.dv_er = frame'.er
    <3>1. b.dv_er = f.er
      <4>1. CASE line.dv  BY <4>1 DEF ParserInv, FollowsLine
      <4>2. CASE ~line.dv
        <5>1. f = NoFrame /\ b.dv_er = FALSE  BY <4>2, <1>0 DEF ParserInv, FollowsLine
        <5> QED  BY <5>1 DEF NoFrame
      <4> QED  BY <4>1, <4>2
    <3> QED  BY <3>1, <2>2, <1>3, <1>8
  <2>7. FollowsLine'
    <3>1. Matches(StateAfter, IdxAfter, LenAfter, QuantaAfter, frame)'  BY <2>5
    <3> QED  BY <3>1, <2>3, <2>6, <1>3, <1>4, <1>8 DEF FollowsLine
  <2>8. ParserTypes'  BY <2>2, <1>2, <1>3, <1>4, <1>5 DEF ParserTypes, QuantaTypes
  <2> QED  BY <2>7, <2>8 DEF ParserInv
<1>9. CASE dv /\ ce
  <2>1. frame' = Fed(f, byte, er)  BY <1>1, <1>9 DEF Observe, Fed
  <2>2. frame' \in FrameTypes
    <3>1. f.seen \in Seen /\ f.n \in 0 .. MinLen /\ f.match \in BOOLEAN
          /\ f.er \in BOOLEAN /\ f.q \in Quantum  BY <1>0 DEF FrameTypes
    <3>2. f.n < MinLen => f.n + 1 \in 0 .. MinLen  BY <3>1, PauseAssumption
    <3>3. Digit(byte) \in {0, 1}  BY DEF Digit
    <3>4. frame'.seen \in Seen /\ frame'.n \in 0 .. MinLen
      BY <2>1, <3>1, <3>2 DEF Fed, Seen
    <3>5. frame'.match \in BOOLEAN /\ frame'.er \in BOOLEAN  BY <2>1 DEF Fed
    <3>6. frame'.q \in Quantum  BY <2>1, <3>1, <3>3 DEF Fed, Quantum
    <3>7. frame' = [seen |-> frame'.seen, n |-> frame'.n, match |-> frame'.match,
                    er |-> frame'.er, q |-> frame'.q]  BY <2>1 DEF Fed
    <3> QED  BY <3>4, <3>5, <3>6, <3>7 DEF FrameTypes
  <2>3. b'.stb /\ ~b'.end /\ b'.d = byte  BY <1>3, <1>9
  <2>4. /\ StateAfter' = NextState(rx_state', rx_idx', byte)
        /\ IdxAfter' = NextIdx(rx_state', rx_idx', byte)
        /\ LenAfter' = NextLen(rx_state', rx_len')
        /\ QuantaAfter' = NextQuanta(rx_state', pause_quanta', byte)
    BY <2>3 DEF StateAfter, IdxAfter, LenAfter, QuantaAfter
  <2>5. Matches(NextState(rx_state', rx_idx', byte), NextIdx(rx_state', rx_idx', byte),
                NextLen(rx_state', rx_len'), NextQuanta(rx_state', pause_quanta', byte),
                Fed(f, byte, er))
    BY <1>0, <1>2, <1>6, ByteKeepsStep
  <2>6. Matches(StateAfter', IdxAfter', LenAfter', QuantaAfter', frame')
    BY <2>1, <2>4, <2>5
  <2>7. b'.dv_er = frame'.er
    <3>1. b.dv_er = f.er
      <4>1. CASE line.dv  BY <4>1 DEF ParserInv, FollowsLine
      <4>2. CASE ~line.dv
        <5>1. f = NoFrame /\ b.dv_er = FALSE  BY <4>2, <1>0 DEF ParserInv, FollowsLine
        <5> QED  BY <5>1 DEF NoFrame
      <4> QED  BY <4>1, <4>2
    <3>2. frame'.er = (f.er \/ er)  BY <2>1 DEF Fed
    <3> QED  BY <3>1, <3>2, <1>3, <1>9
  <2>8. FollowsLine'
    <3>1. Matches(StateAfter, IdxAfter, LenAfter, QuantaAfter, frame)'  BY <2>6
    <3> QED  BY <3>1, <2>3, <2>7, <1>3, <1>4, <1>9 DEF FollowsLine
  <2>9. ParserTypes'  BY <2>2, <1>2, <1>3, <1>4, <1>5 DEF ParserTypes, QuantaTypes
  <2> QED  BY <2>8, <2>9 DEF ParserInv
<1> QED  BY <1>7, <1>8, <1>9
-----------------------------------------------------------------------------
(* The crossing *)

CrossingTypes ==
  /\ pause_tgl \in BOOLEAN /\ old.tgl \in BOOLEAN
  /\ s1 \in BOOLEAN /\ s2 \in BOOLEAN /\ s3 \in BOOLEAN
  /\ lead \in 0 .. MaxRatio

\* A flip of the toggle on its way: not sampled yet, in the first flop, in the second.
AtTheDoor == pause_tgl # s1
InFirst   == s1 # s2
InSecond  == s2 # s3
OnItsWay  == AtTheDoor \/ InFirst \/ InSecond

\* How many edges of rx_clk the parser needs at least, from the end of a frame on,
\* to be where it is,
Progress == IF rx_state = "HEADER" THEN rx_idx + 1
            ELSE IF rx_state = "QUANTA_HI" THEN HeaderLen + 1
            ELSE IF rx_state \in {"QUANTA_LO", "LATCH"} THEN HeaderLen + 2 ELSE 0

\* and how many the flip can have seen since then.
Elapsed == IF AtTheDoor THEN lead ELSE IF InFirst THEN MaxRatio + lead
           ELSE 2 * MaxRatio + lead

\* A frame judged valid, whose end the parser has not seen yet.
Judged == b.end /\ Commit

\* At most one flip is on its way; while it is, the parser has not come to the
\* pause_time of the next frame, so the register still holds the frame's own; a
\* frame is owed from the end of its line to the load of the timer.
CrossingInv ==
  /\ ~(AtTheDoor /\ InFirst) /\ ~(AtTheDoor /\ InSecond) /\ ~(InFirst /\ InSecond)
  /\ OnItsWay => /\ owed = <<Value(pause_quanta)>> /\ old.q = pause_quanta
                 /\ Progress <= Elapsed
  /\ old.tgl # pause_tgl /\ lead > 0 => AtTheDoor /\ Progress = 0
  /\ ~OnItsWay /\ Judged => owed = <<Value(pause_quanta)>>
  /\ ~OnItsWay /\ ~Judged => owed = << >>

LoadInv == ParserInv /\ CrossingTypes /\ CrossingInv

\* While a flip is on its way the parser is at most at the first byte of pause_time:
\* no frame is judged.
LEMMA FlipKeepsParserAway ==
  ASSUME LoadInv, OnItsWay
  PROVE  /\ Progress <= HeaderLen + 1 /\ rx_state \notin {"QUANTA_LO", "LATCH"}
         /\ ~Judged
         /\ lead < MaxRatio => Progress <= HeaderLen /\ rx_state # "QUANTA_HI"
PROOF
<1>0. /\ HeaderLen \in Nat /\ HeaderLen > 0 /\ MaxRatio \in Nat
      /\ 3 * MaxRatio <= HeaderLen + 1
      /\ lead \in 0 .. MaxRatio /\ rx_idx \in 0 .. HeaderLen - 1
  BY PauseAssumption, CrossingAssumption
     DEF LoadInv, CrossingTypes, ParserInv, ParserTypes
<1>1. Progress <= Elapsed  BY DEF LoadInv, CrossingInv
<1>2. Elapsed \in Nat /\ Elapsed <= 2 * MaxRatio + lead  BY <1>0 DEF Elapsed
<1>3. Progress \in Nat  BY <1>0 DEF Progress
<1>4. Progress <= HeaderLen + 1 /\ (lead < MaxRatio => Progress <= HeaderLen)
  BY <1>0, <1>1, <1>2, <1>3
<1>5. rx_state \in {"QUANTA_LO", "LATCH"} => Progress = HeaderLen + 2  BY DEF Progress
<1>6. rx_state = "QUANTA_HI" => Progress = HeaderLen + 1  BY DEF Progress
<1>7. rx_state \notin {"QUANTA_LO", "LATCH"}  BY <1>0, <1>4, <1>5
<1>8. lead < MaxRatio => rx_state # "QUANTA_HI"  BY <1>0, <1>4, <1>6
<1>9. ~Judged  BY <1>7 DEF Judged, Commit
<1> QED  BY <1>4, <1>7, <1>8, <1>9

\* One edge of rx_clk takes the parser one place on at most.
LEMMA ProgressByOne ==
  ASSUME ParserInv, Parse
  PROVE  Progress \in Nat /\ Progress' \in Nat /\ Progress' <= Progress + 1
PROOF
<1>0. /\ HeaderLen \in Nat /\ HeaderLen > 0
      /\ rx_state \in States /\ rx_idx \in 0 .. HeaderLen - 1
      /\ b.stb \in BOOLEAN
  BY PauseAssumption DEF ParserInv, ParserTypes
<1>1. rx_state' \in States /\ rx_idx' \in 0 .. HeaderLen - 1  BY EdgeKeepsRanges
<1>2. Progress \in Nat  BY <1>0 DEF Progress
<1>3. Progress' \in Nat
  <2>1. /\ rx_idx' + 1 \in Nat /\ HeaderLen + 1 \in Nat
        /\ HeaderLen + 2 \in Nat /\ 0 \in Nat
    <3>1. rx_idx' \in 0 .. HeaderLen - 1  BY <1>1
    <3>2. HeaderLen \in Nat  BY <1>0
    <3>3. rx_idx' \in Nat  BY <3>1, <3>2
    <3>4. \A n \in Nat : n + 1 \in Nat  OBVIOUS
    <3>5. rx_idx' + 1 \in Nat  BY <3>3, <3>4, Zenon
    <3> QED  BY <3>2, <3>5
  <2> QED  BY <2>1, Zenon DEF Progress
<1>4. Progress' <= Progress + 1
  <2>1. CASE b.end
    <3>1. rx_state' = "IDLE"  BY <2>1, EdgeConsumes
    <3>2. Progress' = 0  BY <3>1 DEF Progress
    <3> QED  BY <3>2, <1>2
  <2>2. CASE ~b.end /\ ~b.stb
    <3>1. rx_state' = rx_state /\ rx_idx' = rx_idx
      BY <2>2, EdgeConsumes DEF StateAfter, IdxAfter
    <3>2. Progress' = Progress  BY <3>1 DEF Progress
    <3> QED  BY <3>2, <1>2
  <2>3. CASE ~b.end /\ b.stb
    <3>1. /\ rx_state' = NextState(rx_state, rx_idx, b.d)
          /\ rx_idx' = NextIdx(rx_state, rx_idx, b.d)
      BY <2>3, EdgeConsumes DEF StateAfter, IdxAfter
    <3>2. CASE rx_state = "HEADER" /\ rx_idx < HeaderLen - 1
      <4>1. Progress = rx_idx + 1  BY <3>2 DEF Progress
      <4>2. rx_state' = "DRAIN" \/ (rx_state' = "HEADER" /\ rx_idx' = (rx_idx + 1) % HeaderLen)
        <5>1. rx_idx # HeaderLen - 1  BY <3>2, <1>0
        <5> QED  BY <3>1, <3>2, <5>1 DEF NextState, NextIdx
      <4>3. (rx_idx + 1) % HeaderLen = rx_idx + 1  BY <1>0, <3>2
      <4>4. Progress' = 0 \/ Progress' = rx_idx + 1 + 1  BY <4>2, <4>3 DEF Progress
      <4> QED  BY <4>1, <4>4, <1>0
    <3>3. CASE rx_state = "HEADER" /\ rx_idx = HeaderLen - 1
      <4>1. Progress = rx_idx + 1  BY <3>3 DEF Progress
      <4>2. rx_state' \in {"DRAIN", "QUANTA_HI"}  BY <3>1, <3>3 DEF NextState
      <4>3. Progress' = 0 \/ Progress' = HeaderLen + 1  BY <4>2 DEF Progress
      <4> QED  BY <4>1, <4>3, <3>3, <1>0
    <3>4. CASE rx_state \in {"IDLE", "PRE"}
      <4>1. rx_idx' = 0 /\ rx_state' \in {"HEADER", "PRE", "DRAIN"}
        BY <3>1, <3>4 DEF NextState, NextIdx
      <4>2. Progress' = 0 \/ Progress' = 1  BY <4>1 DEF Progress
      <4> QED  BY <4>2, <1>2
    <3>5. CASE rx_state \in {"QUANTA_HI", "QUANTA_LO", "LATCH", "DRAIN"}
      <4>1. rx_state' = (IF rx_state = "QUANTA_HI" THEN "QUANTA_LO"
                         ELSE IF rx_state = "QUANTA_LO" THEN "LATCH" ELSE rx_state)
        BY <3>1, <3>5 DEF NextState
      <4> QED  BY <4>1, <3>5, <1>0 DEF Progress
    <3> QED  BY <3>2, <3>3, <3>4, <3>5, <1>0 DEF States
  <2> QED  BY <2>1, <2>2, <2>3
<1> QED  BY <1>2, <1>3, <1>4

\* The parser's verdict on a frame that ends at this edge is 802.3's, and the
\* register then holds the frame's pause_time.
LEMMA VerdictIsTheLines ==
  ASSUME ParserInv,
         NEW dv \in BOOLEAN, NEW ce \in BOOLEAN, NEW byte \in Classes,
         NEW er \in BOOLEAN, NEW fcs \in BOOLEAN,
         RxEdge(dv, ce, byte, er, fcs)
  PROVE  /\ Judged' <=> line.dv /\ ~dv /\ fcs /\ IsPause(frame)
         /\ Judged' => /\ Value(frame.q) = Value(pause_quanta')
                       /\ rx_state' = "LATCH"
PROOF
<1>0. /\ HeaderLen \in Nat /\ MinLen \in Nat /\ MinLen >= HeaderLen + 2
      /\ line.dv \in BOOLEAN /\ line.dv = b.dv_d1
      /\ frame.seen \in Seen /\ frame.n \in 0 .. MinLen /\ frame.match \in BOOLEAN
  BY PauseAssumption DEF ParserInv, ParserTypes, FollowsLine, FrameTypes
<1>1. /\ Parse /\ b'.end = (b.dv_d1 /\ ~dv) /\ b'.end_er = b.dv_er
      /\ line'.fcs = IF line.dv /\ ~dv THEN fcs ELSE line.fcs
  BY DEF RxEdge, ByteStage
<1>2. Matches(rx_state', rx_idx', rx_len', pause_quanta', frame)  BY <1>1, EdgeMatches
<1>3. Judged' <=> b'.end /\ rx_state' = "LATCH" /\ line'.fcs /\ ~b'.end_er /\ rx_len' = MinLen
  BY DEF Judged, Commit
<1>4. CASE ~(line.dv /\ ~dv)
  <2>1. ~b'.end  BY <1>0, <1>1, <1>4
  <2> QED  BY <2>1, <1>3, <1>4
<1>5. CASE line.dv /\ ~dv
  <2>1. b'.end /\ line'.fcs = fcs /\ b'.end_er = frame.er
    BY <1>0, <1>1, <1>5 DEF ParserInv, FollowsLine
  <2>2. Judged' <=> rx_state' = "LATCH" /\ fcs /\ ~frame.er /\ rx_len' = MinLen
    BY <2>1, <1>3
  <2>3. ASSUME rx_state' = "LATCH", rx_len' = MinLen
        PROVE  frame.seen = "sfd" /\ frame.n = MinLen /\ frame.match
    BY <2>3, <1>0, <1>2 DEF Matches, Seen
  <2>4. ASSUME frame.seen = "sfd", frame.n = MinLen, frame.match
        PROVE  /\ rx_state' = "LATCH" /\ rx_len' = MinLen
               /\ pause_quanta'.hi = frame.q.hi /\ pause_quanta'.lo = frame.q.lo
    <3>1. Place(MinLen) = "LATCH" /\ MinLen > HeaderLen /\ MinLen > HeaderLen + 1
      BY <1>0 DEF Place
    <3> QED  BY <3>1, <2>4, <1>2 DEF Matches
  <2>5. Judged' <=> fcs /\ IsPause(frame)  BY <2>2, <2>3, <2>4 DEF IsPause
  <2>6. Judged' => Value(frame.q) = Value(pause_quanta') /\ rx_state' = "LATCH"
    BY <2>2, <2>3, <2>4 DEF Value
  <2> QED  BY <2>5, <2>6, <1>5
<1> QED  BY <1>4, <1>5
\* An edge of rx_clk: a flip starts with the parser at home and finds nobody else on
\* the way; a frame is owed from the edge at which it ends.
LEMMA RxKeepsCrossing ==
  ASSUME LoadInv,
         NEW dv \in BOOLEAN, NEW ce \in BOOLEAN, NEW byte \in Classes,
         NEW er \in BOOLEAN, NEW fcs \in BOOLEAN,
         RxEdge(dv, ce, byte, er, fcs)
  PROVE  LoadInv'
PROOF
<1>0. /\ ParserInv /\ CrossingTypes /\ CrossingInv
      /\ pause_tgl \in BOOLEAN /\ s1 \in BOOLEAN /\ s2 \in BOOLEAN /\ s3 \in BOOLEAN
      /\ lead \in 0 .. MaxRatio /\ MaxRatio \in Nat /\ HeaderLen \in Nat
  BY PauseAssumption DEF LoadInv, CrossingTypes
<1>1. /\ Parse /\ lead < MaxRatio /\ lead' = lead + 1
      /\ old' = [tgl |-> pause_tgl, q |-> pause_quanta]
      /\ s1' = s1 /\ s2' = s2 /\ s3' = s3
      /\ owed' = IF line.dv /\ ~dv /\ fcs /\ IsPause(frame)
                 THEN Append(owed, Value(frame.q)) ELSE owed
  BY DEF RxEdge
<1>2. ParserInv'  BY <1>0, RxKeepsParser
<1>3. /\ Judged' <=> line.dv /\ ~dv /\ fcs /\ IsPause(frame)
      /\ Judged' => Value(frame.q) = Value(pause_quanta') /\ rx_state' = "LATCH"
  BY <1>0, VerdictIsTheLines
<1>4. /\ owed' = IF Judged' THEN Append(owed, Value(pause_quanta')) ELSE owed
      /\ old'.tgl = pause_tgl /\ old'.q = pause_quanta
      /\ lead' \in 0 .. MaxRatio /\ lead' > 0
  BY <1>0, <1>1, <1>3
<1>5. pause_tgl' = IF Judged THEN ~pause_tgl ELSE pause_tgl
  BY <1>0, <1>1, EdgeConsumes DEF Judged
<1>6. CrossingTypes'
  BY <1>0, <1>1, <1>4, <1>5 DEF CrossingTypes
<1>7. CASE OnItsWay
  <2>1. /\ Progress <= HeaderLen /\ rx_state \notin {"QUANTA_HI", "QUANTA_LO", "LATCH"}
        /\ ~Judged
    BY <1>1, <1>7, FlipKeepsParserAway
  <2>2. pause_tgl' = pause_tgl  BY <1>5, <2>1
  <2>3. pause_quanta' = pause_quanta
    BY <1>0, <1>1, <2>1, EdgeConsumes DEF QuantaAfter, NextQuanta
  <2>4. Progress \in Nat /\ Progress' \in Nat /\ Progress' <= Progress + 1
    BY <1>0, <1>1, ProgressByOne
  <2>5. ~Judged'
    <3>1. rx_state' = "LATCH" => Progress' = HeaderLen + 2  BY DEF Progress
    <3>2. rx_state' # "LATCH"  BY <2>1, <2>4, <3>1, <1>0
    <3> QED  BY <1>3, <3>2
  <2>6. owed' = owed  BY <1>4, <2>5
  <2>7. /\ AtTheDoor' <=> AtTheDoor
        /\ InFirst' <=> InFirst
        /\ InSecond' <=> InSecond
    BY <1>1, <2>2 DEF AtTheDoor, InFirst, InSecond
  <2>8. OnItsWay' <=> OnItsWay  BY <2>7 DEF OnItsWay
  <2>9. Elapsed \in Nat /\ Elapsed' = Elapsed + 1
    BY <2>7, <1>0, <1>1 DEF Elapsed
  <2>10. Progress' <= Elapsed'
    <3>1. Progress <= Elapsed  BY <1>0, <1>7 DEF CrossingInv
    <3> QED  BY <3>1, <2>4, <2>9
  <2>11. owed' = <<Value(pause_quanta')>> /\ old'.q = pause_quanta'
    BY <2>3, <2>6, <1>0, <1>4, <1>7 DEF CrossingInv, Value
  <2>12. old'.tgl = pause_tgl'  BY <1>4, <2>2
  <2>13. CrossingInv'
    BY <2>7, <2>8, <2>10, <2>11, <2>12, <1>0, <1>7 DEF CrossingInv
  <2> QED  BY <1>2, <1>6, <2>13 DEF LoadInv
<1>8. CASE ~OnItsWay /\ Judged
  <2>1. b.end  BY <1>8 DEF Judged
  <2>2. /\ ~line.dv /\ rx_state' = "IDLE" /\ pause_quanta' = pause_quanta
    BY <1>0, <1>1, <2>1, EdgeConsumes
  <2>3. pause_tgl' = ~pause_tgl  BY <1>5, <1>8
  <2>4. pause_tgl = s1 /\ s1 = s2 /\ s2 = s3
    BY <1>8 DEF OnItsWay, AtTheDoor, InFirst, InSecond
  <2>5. AtTheDoor' /\ ~InFirst' /\ ~InSecond'
    BY <2>3, <2>4, <1>0, <1>1 DEF AtTheDoor, InFirst, InSecond
  <2>6. ~Judged'  BY <1>3, <2>2
  <2>7. owed' = <<Value(pause_quanta')>>
    <3>1. owed = <<Value(pause_quanta)>>  BY <1>0, <1>8 DEF CrossingInv
    <3> QED  BY <3>1, <2>2, <2>6, <1>4
  <2>8. Progress' = 0  BY <2>2 DEF Progress
  <2>9. Progress' <= Elapsed'
    <3>1. Elapsed' = lead'  BY <2>5 DEF Elapsed
    <3> QED  BY <3>1, <2>8, <1>4
  <2>10. old'.q = pause_quanta'  BY <1>4, <2>2
  <2>11. OnItsWay'  BY <2>5 DEF OnItsWay
  <2>12. CrossingInv'
    BY <2>5, <2>7, <2>8, <2>9, <2>10, <2>11 DEF CrossingInv
  <2> QED  BY <1>2, <1>6, <2>12 DEF LoadInv
<1>9. CASE ~OnItsWay /\ ~Judged
  <2>1. pause_tgl' = pause_tgl  BY <1>5, <1>9
  <2>2. ~AtTheDoor' /\ ~InFirst' /\ ~InSecond'
    BY <2>1, <1>1, <1>9 DEF OnItsWay, AtTheDoor, InFirst, InSecond
  <2>3. owed = << >>  BY <1>0, <1>9 DEF CrossingInv
  <2>4. /\ Judged' => owed' = <<Value(pause_quanta')>>
        /\ ~Judged' => owed' = << >>
    <3>1. Append(<< >>, Value(pause_quanta')) = <<Value(pause_quanta')>>  OBVIOUS
    <3> QED  BY <3>1, <2>3, <1>4
  <2>5. old'.tgl = pause_tgl'  BY <1>4, <2>1
  <2>6. ~OnItsWay'  BY <2>2 DEF OnItsWay
  <2>7. CrossingInv'
    BY <2>2, <2>4, <2>5, <2>6 DEF CrossingInv
  <2> QED  BY <1>2, <1>6, <2>7 DEF LoadInv
<1> QED  BY <1>7, <1>8, <1>9

\* An edge of clk: the flip moves on by one flop, except that the edge right behind it
\* may still see the old value.
LEMMA ClkKeepsCrossing ==
  ASSUME LoadInv,
         NEW tgl \in Sampled(old.tgl, pause_tgl), NEW hi, NEW lo, NEW en, NEW stat_clr,
         ClkEdge(tgl, hi, lo, en, stat_clr)
  PROVE  LoadInv'
PROOF
<1>0. /\ ParserInv /\ CrossingTypes /\ CrossingInv
      /\ pause_tgl \in BOOLEAN /\ old.tgl \in BOOLEAN
      /\ s1 \in BOOLEAN /\ s2 \in BOOLEAN /\ s3 \in BOOLEAN
      /\ lead \in 0 .. MaxRatio /\ MaxRatio \in Nat
  BY PauseAssumption DEF LoadInv, CrossingTypes
<1>1. /\ lead' = 0 /\ s1' = tgl /\ s2' = s1 /\ s3' = s2
      /\ line' = line /\ b' = b /\ rx_state' = rx_state /\ rx_idx' = rx_idx
      /\ rx_len' = rx_len /\ pause_tgl' = pause_tgl /\ pause_quanta' = pause_quanta
      /\ old' = old /\ frame' = frame
      /\ owed' = IF prx_evt /\ owed # << >> THEN Tail(owed) ELSE owed
  BY DEF ClkEdge, Sync, parser
<1>2. ParserInv'
  <2>1. ParserTypes'  BY <1>0, <1>1 DEF ParserInv, ParserTypes, QuantaTypes
  <2>2. FollowsLine'
    BY <1>0, <1>1 DEF ParserInv, FollowsLine, StateAfter, IdxAfter, LenAfter, QuantaAfter
  <2> QED  BY <2>1, <2>2 DEF ParserInv
<1>3. Progress' = Progress /\ (Judged' <=> Judged) /\ Value(pause_quanta') = Value(pause_quanta)
  BY <1>1 DEF Progress, Judged, Commit, Value
<1>4. /\ tgl \in {old.tgl, pause_tgl} /\ tgl \in BOOLEAN
      /\ tgl # pause_tgl => lead > 0 /\ old.tgl # pause_tgl
  BY <1>0 DEF Sampled
<1>5. CrossingTypes'
  <2>1. 0 \in 0 .. MaxRatio  BY <1>0
  <2> QED  BY <2>1, <1>0, <1>1, <1>4 DEF CrossingTypes
<1>6. tgl # pause_tgl => AtTheDoor /\ Progress = 0
  BY <1>0, <1>4 DEF CrossingInv
<1>7. ~(lead' > 0)  BY <1>1
<1>8. Progress \in Nat
  BY <1>0, PauseAssumption DEF Progress, ParserInv, ParserTypes
<1>9. CASE AtTheDoor
  <2>1. s1 = s2 /\ s2 = s3 /\ pause_tgl # s1
    BY <1>0, <1>9 DEF CrossingInv, AtTheDoor, InFirst, InSecond
  <2>2. ~prx_evt  BY <2>1 DEF prx_evt
  <2>3. owed' = <<Value(pause_quanta')>> /\ old'.q = pause_quanta'
    <3>1. owed = <<Value(pause_quanta)>> /\ old.q = pause_quanta
      BY <1>0, <1>9 DEF CrossingInv, OnItsWay
    <3> QED  BY <3>1, <2>2, <1>1, <1>3
  <2>4. Progress <= lead
    BY <1>0, <1>9 DEF CrossingInv, OnItsWay, Elapsed
  <2>5. CASE tgl = pause_tgl
    <3>1. ~AtTheDoor' /\ InFirst' /\ ~InSecond'
      BY <2>1, <2>5, <1>1 DEF AtTheDoor, InFirst, InSecond
    <3>2. Elapsed' = MaxRatio + 0  BY <3>1, <1>1 DEF Elapsed
    <3>3. Progress' <= Elapsed'  BY <3>2, <2>4, <1>0, <1>3, <1>8
    <3>4. OnItsWay'  BY <3>1 DEF OnItsWay
    <3>5. CrossingInv'  BY <3>1, <3>3, <3>4, <2>3, <1>7 DEF CrossingInv
    <3> QED  BY <3>5, <1>2, <1>5 DEF LoadInv
  <2>6. CASE tgl # pause_tgl
    <3>1. AtTheDoor' /\ ~InFirst' /\ ~InSecond'
      BY <2>1, <2>6, <1>0, <1>1, <1>4 DEF AtTheDoor, InFirst, InSecond
    <3>2. Elapsed' = 0  BY <3>1, <1>1 DEF Elapsed
    <3>3. Progress' <= Elapsed'  BY <3>2, <2>6, <1>3, <1>6
    <3>4. OnItsWay'  BY <3>1 DEF OnItsWay
    <3>5. CrossingInv'  BY <3>1, <3>3, <3>4, <2>3, <1>7 DEF CrossingInv
    <3> QED  BY <3>5, <1>2, <1>5 DEF LoadInv
  <2> QED  BY <2>5, <2>6
<1>10. CASE InFirst
  <2>1. s1 # s2 /\ s2 = s3 /\ pause_tgl = s1 /\ ~AtTheDoor
    BY <1>0, <1>10 DEF CrossingInv, AtTheDoor, InFirst, InSecond
  <2>2. ~prx_evt /\ tgl = pause_tgl  BY <2>1, <1>6 DEF prx_evt
  <2>3. owed' = <<Value(pause_quanta')>> /\ old'.q = pause_quanta'
    <3>1. owed = <<Value(pause_quanta)>> /\ old.q = pause_quanta
      BY <1>0, <1>10 DEF CrossingInv, OnItsWay
    <3> QED  BY <3>1, <2>2, <1>1, <1>3
  <2>4. Progress <= MaxRatio + lead
    BY <1>0, <1>10, <2>1 DEF CrossingInv, OnItsWay, Elapsed
  <2>5. ~AtTheDoor' /\ ~InFirst' /\ InSecond'
    BY <2>1, <2>2, <1>1 DEF AtTheDoor, InFirst, InSecond
  <2>6. Elapsed' = 2 * MaxRatio + 0  BY <2>5, <1>1 DEF Elapsed
  <2>7. Progress' <= Elapsed'  BY <2>4, <2>6, <1>0, <1>3, <1>8
  <2>8. OnItsWay'  BY <2>5 DEF OnItsWay
  <2>9. CrossingInv'  BY <2>5, <2>7, <2>8, <2>3, <1>7 DEF CrossingInv
  <2> QED  BY <2>9, <1>2, <1>5 DEF LoadInv
<1>11. CASE InSecond
  <2>1. s2 # s3 /\ s1 = s2 /\ pause_tgl = s1 /\ ~AtTheDoor /\ OnItsWay
    BY <1>0, <1>11 DEF CrossingInv, AtTheDoor, InFirst, InSecond, OnItsWay
  <2>2. prx_evt /\ tgl = pause_tgl  BY <2>1, <1>6 DEF prx_evt
  <2>3. owed' = << >>
    <3>1. owed = <<Value(pause_quanta)>>  BY <1>0, <2>1 DEF CrossingInv
    <3>2. <<Value(pause_quanta)>> # << >> /\ Tail(<<Value(pause_quanta)>>) = << >>  OBVIOUS
    <3> QED  BY <3>1, <3>2, <2>2, <1>1
  <2>4. ~AtTheDoor' /\ ~InFirst' /\ ~InSecond'
    BY <2>1, <2>2, <1>1 DEF AtTheDoor, InFirst, InSecond
  <2>5. ~Judged'  BY <2>1, <1>3, FlipKeepsParserAway
  <2>6. ~OnItsWay'  BY <2>4 DEF OnItsWay
  <2>7. CrossingInv'  BY <2>3, <2>4, <2>5, <2>6, <1>7 DEF CrossingInv
  <2> QED  BY <2>7, <1>2, <1>5 DEF LoadInv
<1>12. CASE ~OnItsWay
  <2>1. pause_tgl = s1 /\ s1 = s2 /\ s2 = s3 /\ ~AtTheDoor
    BY <1>12 DEF OnItsWay, AtTheDoor, InFirst, InSecond
  <2>2. ~prx_evt /\ tgl = pause_tgl  BY <2>1, <1>6 DEF prx_evt
  <2>3. ~AtTheDoor' /\ ~InFirst' /\ ~InSecond'
    BY <2>1, <2>2, <1>1 DEF AtTheDoor, InFirst, InSecond
  <2>4. owed' = owed  BY <2>2, <1>1
  <2>5. ~OnItsWay'  BY <2>3 DEF OnItsWay
  <2>6. /\ Judged' => owed' = <<Value(pause_quanta')>>
        /\ ~Judged' => owed' = << >>
    BY <2>4, <1>0, <1>3, <1>12 DEF CrossingInv
  <2>7. CrossingInv'  BY <2>3, <2>5, <2>6, <1>7 DEF CrossingInv
  <2> QED  BY <2>7, <1>2, <1>5 DEF LoadInv
<1> QED  BY <1>9, <1>10, <1>11, <1>12 DEF OnItsWay

\* Every reachable state satisfies the invariant of the crossing.
THEOREM LoadInductive == Spec => []LoadInv
PROOF
<1>1. Init => LoadInv
  <2> SUFFICES ASSUME Init PROVE LoadInv  OBVIOUS
  <2>1. ParserTypes
    <3>1. 0 \in 0 .. HeaderLen - 1 /\ 0 \in 0 .. MinLen  BY PauseAssumption
    <3>2. NoFrame \in FrameTypes  BY <3>1 DEF NoFrame, FrameTypes, Seen, Quantum, Zero
    <3>3. QuantaTypes  BY DEF Init, QuantaTypes, Quantum, Zero
    <3>4. /\ line \in [dv : BOOLEAN, fcs : BOOLEAN]
          /\ b \in [stb : BOOLEAN, d : Classes, end : BOOLEAN, end_er : BOOLEAN,
                    dv_d1 : BOOLEAN, dv_er : BOOLEAN]
      BY DEF Init, Classes
    <3> QED  BY <3>1, <3>2, <3>3, <3>4 DEF Init, ParserTypes, States
  <2>2. FollowsLine  BY DEF Init, FollowsLine
  <2>3. CrossingTypes
    <3>1. 0 \in 0 .. MaxRatio  BY PauseAssumption
    <3> QED  BY <3>1 DEF Init, CrossingTypes
  <2>4. CrossingInv
    <3>1. ~AtTheDoor /\ ~InFirst /\ ~InSecond
      BY DEF Init, AtTheDoor, InFirst, InSecond
    <3>2. ~Judged /\ ~(lead > 0) /\ owed = << >>  BY DEF Init, Judged
    <3> QED  BY <3>1, <3>2 DEF CrossingInv, OnItsWay
  <2> QED  BY <2>1, <2>2, <2>3, <2>4 DEF LoadInv, ParserInv
<1>2. LoadInv /\ [Next]_vars => LoadInv'
  <2> SUFFICES ASSUME LoadInv, [Next]_vars PROVE LoadInv'  OBVIOUS
  <2>1. CASE Rx
    <3>1. CASE \E ce \in Strobes, byte \in Bytes, er \in Errors :
                 RxEdge(TRUE, ce, byte, er, FALSE)
      <4>1. PICK ce \in Strobes, byte \in Bytes, er \in Errors :
                   RxEdge(TRUE, ce, byte, er, FALSE)  BY <3>1
      <4>2. ce \in BOOLEAN /\ er \in BOOLEAN /\ byte \in Classes
        BY PauseAssumption DEF Bytes, Classes
      <4> QED  BY <4>1, <4>2, RxKeepsCrossing
    <3>2. CASE \E fcs \in BOOLEAN : RxEdge(FALSE, FALSE, "zz", FALSE, fcs)
      <4>1. PICK fcs \in BOOLEAN : RxEdge(FALSE, FALSE, "zz", FALSE, fcs)  BY <3>2
      <4>2. "zz" \in Classes  BY DEF Classes
      <4> QED  BY <4>1, <4>2, RxKeepsCrossing
    <3> QED  BY <2>1, <3>1, <3>2 DEF Rx
  <2>2. CASE Clk
    <3>1. PICK tgl \in Sampled(old.tgl, pause_tgl), hi \in Sampled(old.q.hi, pause_quanta.hi),
               lo \in Sampled(old.q.lo, pause_quanta.lo), en \in BOOLEAN,
               stat_clr \in BOOLEAN : ClkEdge(tgl, hi, lo, en, stat_clr)
      BY <2>2 DEF Clk
    <3> QED  BY <3>1, ClkKeepsCrossing
  <2>3. CASE UNCHANGED vars
    <3>1. ParserInv'
      BY <2>3 DEF vars, parser, LoadInv, ParserInv, ParserTypes, QuantaTypes, FollowsLine,
                  StateAfter, IdxAfter, LenAfter, QuantaAfter
    <3>2. CrossingTypes'  BY <2>3 DEF vars, parser, LoadInv, CrossingTypes
    <3>3. CrossingInv'
      BY <2>3 DEF vars, parser, LoadInv, CrossingInv, OnItsWay, AtTheDoor, InFirst, InSecond,
                  Progress, Elapsed, Judged, Commit, Value
    <3> QED  BY <3>1, <3>2, <3>3 DEF LoadInv
  <2> QED  BY <2>1, <2>2, <2>3 DEF Next
<1> QED  BY <1>1, <1>2, PTL DEF Spec

\* eth_pause.v 73-76: the quanta register "holds ... after it", so it is "sampled
\* directly on the cycle the toggle edge is seen". For every header length and every
\* ratio of the clocks within the header, the timer is loaded with the pause_time of
\* the valid frame whose toggle it sees, once per frame, and with nothing else.
THEOREM PauseLoadsItsOwn == Spec => PauseTakesItsOwnFrame
PROOF
<1>1. LoadInv /\ [Next]_vars =>
        [prx_evt /\ s3' # s3 =>
           owed # << >> /\ (cfg_pause_rx_en => pause_remaining' = Head(owed))]_vars
  <2> SUFFICES ASSUME LoadInv, [Next]_vars, prx_evt, s3' # s3
               PROVE  owed # << >> /\ (cfg_pause_rx_en => pause_remaining' = Head(owed))
    OBVIOUS
  <2>1. Clk
    <3>1. ~Rx  BY DEF Rx, RxEdge
    <3>2. ~UNCHANGED vars  BY DEF vars
    <3> QED  BY <3>1, <3>2 DEF Next
  <2>2. PICK tgl \in Sampled(old.tgl, pause_tgl), hi \in Sampled(old.q.hi, pause_quanta.hi),
             lo \in Sampled(old.q.lo, pause_quanta.lo), en \in BOOLEAN,
             stat_clr \in BOOLEAN : ClkEdge(tgl, hi, lo, en, stat_clr)
    BY <2>1 DEF Clk
  <2>3. owed = <<Value(pause_quanta)>> /\ old.q = pause_quanta
    BY DEF LoadInv, CrossingInv, OnItsWay, InSecond, prx_evt
  <2>4. hi = pause_quanta.hi /\ lo = pause_quanta.lo  BY <2>3 DEF Sampled
  <2>5. cfg_pause_rx_en => pause_remaining' = 2 * hi + lo
    BY <2>2 DEF ClkEdge, Timer, pause_load
  <2>6. owed # << >> /\ Head(owed) = Value(pause_quanta)
    <3>1. <<Value(pause_quanta)>> # << >>
          /\ Head(<<Value(pause_quanta)>>) = Value(pause_quanta)  OBVIOUS
    <3> QED  BY <3>1, <2>3
  <2> QED  BY <2>4, <2>5, <2>6 DEF Value
<1> QED  BY <1>1, LoadInductive, PTL DEF Spec, PauseTakesItsOwnFrame
=============================================================================
