------------------------------ MODULE EthPause ------------------------------
(***************************************************************************)
(* rtl/eth_pause_rx.v and the receive half of rtl/eth_pause.v: a PAUSE     *)
(* frame is recognised in the PHY's receive clock and flips a toggle, the  *)
(* toggle crosses into the system clock, where it loads the pause timer    *)
(* with a quanta register that crosses with no synchroniser of its own.    *)
(*                                                                         *)
(* A byte is a class: "hdr" is the byte the parser expects at that place   *)
(* of the header (and the digit 1 in pause_time), "zz" any other (the      *)
(* digit 0).  The header is HeaderLen bytes long, the shortest legal frame *)
(* MinLen.  Sampling while the other clock moves sees the old or the new   *)
(* value of every bit.                                                     *)
(***************************************************************************)
EXTENDS Integers, Sequences

CONSTANTS HeaderLen,  \* 16: dst, src, EtherType, opcode
          MinLen,     \* 64
          TickDiv,    \* TICK_DIV_1G, _100M or _10M, as cfg_speed selects
          MaxRatio,   \* bound: rx_clk edges between two clk edges
          MaxCnt,     \* 2^32 - 1: where pause_rx_cnt saturates
          Strobes,    \* the values of rx_ce: {TRUE}, or both at 10/100 RGMII
          Errors      \* bound: TRUE is in it if rx_er may rise

ASSUME PauseAssumption ==
  /\ HeaderLen \in Nat \ {0} /\ TickDiv \in Nat \ {0} /\ MaxCnt \in Nat
  /\ MinLen \in Nat /\ MinLen >= HeaderLen + 2
  /\ MaxRatio \in Nat \ {0}
  /\ TRUE \in Strobes /\ Strobes \subseteq BOOLEAN
  /\ FALSE \in Errors /\ Errors \subseteq BOOLEAN

\* The crossing has the header of the next frame to complete in: 16 byte times for
\* three clk edges, so clk may be five times slower than rx_clk.
ASSUME CrossingAssumption == 3 * MaxRatio <= HeaderLen + 1

VARIABLES
  line,               \* rx_dv, and the last byte's class; the FCS of the frame
  b,                  \* the byte stage: b_stb, b_d, b_end, b_end_er, dv_d1, dv_er
  rx_state, rx_idx, rx_len,
  pause_tgl, pause_quanta,
  old,                \* tgl and quanta before the last rx_clk edge
  lead,               \* rx_clk edges since the last clk edge
  s1, s2, s3,         \* prx_tgl_s1 .. s3
  cfg_pause_rx_en,
  tick_cnt, pause_tick, pause_remaining, tx_paused,
  pause_rx_cnt,
  frame,              \* history: the frame on the line, as 802.3 reads it
  owed,               \* history: pause_time of valid PAUSE frames not acted on
  since               \* history: clk cycles since the timer was loaded, and with what

parser == <<rx_state, rx_idx, rx_len, pause_tgl, pause_quanta>>
timer  == <<tick_cnt, pause_tick, pause_remaining, tx_paused>>
vars   == <<line, b, parser, old, lead, s1, s2, s3, cfg_pause_rx_en, timer,
            pause_rx_cnt, frame, owed, since>>

-----------------------------------------------------------------------------
Digit(byte)  == IF byte = "hdr" THEN 1 ELSE 0
Value(q)     == 2 * q.hi + q.lo
Zero         == [hi |-> 0, lo |-> 0]
NoFrame      == [seen |-> "none", n |-> 0, match |-> TRUE, er |-> FALSE, q |-> Zero]

Init ==
  /\ line = [dv |-> FALSE, fcs |-> FALSE]
  /\ b = [stb |-> FALSE, d |-> "zz", end |-> FALSE, end_er |-> FALSE,
          dv_d1 |-> FALSE, dv_er |-> FALSE]
  /\ rx_state = "IDLE" /\ rx_idx = 0 /\ rx_len = 0
  /\ pause_tgl = FALSE /\ pause_quanta = Zero
  /\ old = [tgl |-> FALSE, q |-> Zero] /\ lead = 0
  /\ s1 = FALSE /\ s2 = FALSE /\ s3 = FALSE
  /\ cfg_pause_rx_en \in BOOLEAN
  /\ tick_cnt = 0 /\ pause_tick = FALSE
  /\ pause_remaining = 0 /\ tx_paused = FALSE
  /\ pause_rx_cnt = 0
  /\ frame = NoFrame /\ owed = << >> /\ since = [n |-> 0, q |-> 0]

-----------------------------------------------------------------------------
(* rx_clk *)

\* The byte stage: a strobe per byte, and the end of the frame with its rx_er.
ByteStage(dv, ce, byte, er) ==
  b' = [stb |-> dv /\ ce, d |-> IF dv /\ ce THEN byte ELSE "zz",
        end |-> b.dv_d1 /\ ~dv, end_er |-> b.dv_er,
        dv_d1 |-> dv, dv_er |-> dv /\ (b.dv_er \/ er)]

rx_body == b.stb /\ rx_state \notin {"IDLE", "PRE", "DRAIN"}

\* "Commit a matched PAUSE frame only if it was a valid frame."
Commit == rx_state = "LATCH" /\ line.fcs /\ ~b.end_er /\ rx_len = MinLen

\* Where the byte in the byte stage takes the parser.
AfterByte ==
  IF rx_state \in {"IDLE", "PRE"}
  THEN IF b.d = "sfd" THEN "HEADER" ELSE IF b.d = "pre" THEN "PRE" ELSE "DRAIN"
  ELSE IF rx_state = "HEADER"
  THEN IF b.d # "hdr" THEN "DRAIN"
       ELSE IF rx_idx = HeaderLen - 1 THEN "QUANTA_HI" ELSE "HEADER"
  ELSE IF rx_state = "QUANTA_HI" THEN "QUANTA_LO"
  ELSE IF rx_state = "QUANTA_LO" THEN "LATCH"
  ELSE rx_state

\* Mutant: pause_time goes to the register that crosses while the address is
\* still arriving.
QuantaEarly ==
  IF b.stb /\ rx_state = "HEADER"
  THEN [pause_quanta EXCEPT !.hi = Digit(b.d), !.lo = Digit(b.d)]
  ELSE IF b.stb /\ rx_state = "QUANTA_HI"
  THEN [pause_quanta EXCEPT !.hi = Digit(b.d)]
  ELSE IF b.stb /\ rx_state = "QUANTA_LO"
  THEN [pause_quanta EXCEPT !.lo = Digit(b.d)]
  ELSE pause_quanta

\* pause_quanta takes pause_time as soon as its bytes arrive.
Quanta ==
  IF b.stb /\ rx_state = "QUANTA_HI"
  THEN [pause_quanta EXCEPT !.hi = Digit(b.d)]
  ELSE IF b.stb /\ rx_state = "QUANTA_LO"
  THEN [pause_quanta EXCEPT !.lo = Digit(b.d)]
  ELSE pause_quanta

Parse ==
  /\ rx_state' = IF b.end THEN "IDLE" ELSE IF b.stb THEN AfterByte ELSE rx_state
  /\ rx_idx' = IF b.end \/ (b.stb /\ rx_state \in {"IDLE", "PRE"}) THEN 0
               ELSE IF b.stb /\ rx_state = "HEADER" /\ b.d = "hdr"
               THEN (rx_idx + 1) % HeaderLen ELSE rx_idx
  /\ rx_len' = IF b.stb /\ rx_state \in {"IDLE", "PRE"} THEN 0
               ELSE IF rx_body /\ rx_len # MinLen THEN rx_len + 1 ELSE rx_len
  /\ pause_quanta' = Quanta
  /\ pause_tgl' = IF b.end /\ Commit THEN ~pause_tgl ELSE pause_tgl

\* The frame as it is on the line.
Observe(dv, ce, byte, er) ==
  LET f == frame
      body == f.seen = "sfd"
  IN  frame' = IF ~dv THEN NoFrame
               ELSE IF ~ce THEN [f EXCEPT !.er = @ \/ er]
               ELSE [seen |-> IF body \/ f.seen = "bad" THEN f.seen
                              ELSE IF byte = "sfd" THEN "sfd"
                              ELSE IF byte = "pre" THEN "pre" ELSE "bad",
                     n |-> IF body /\ f.n < MinLen THEN f.n + 1 ELSE f.n,
                     match |-> f.match /\ (body /\ f.n < HeaderLen => byte = "hdr"),
                     er |-> f.er \/ er,
                     q |-> IF body /\ f.n = HeaderLen THEN [f.q EXCEPT !.hi = Digit(byte)]
                           ELSE IF body /\ f.n = HeaderLen + 1
                           THEN [f.q EXCEPT !.lo = Digit(byte)] ELSE f.q]

IsPause(f) == f.seen = "sfd" /\ f.n = MinLen /\ f.match /\ ~f.er

\* Bytes that differ for the parser: before the SFD, and after it.
Bytes == IF frame.seen \in {"none", "pre"} THEN {"pre", "sfd", "zz"} ELSE {"hdr", "zz"}

RxEdge(dv, ce, byte, er, fcs) ==
  /\ lead < MaxRatio /\ lead' = lead + 1
  /\ old' = [tgl |-> pause_tgl, q |-> pause_quanta]
  /\ ByteStage(dv, ce, byte, er)
  /\ Parse
  /\ Observe(dv, ce, byte, er)
  /\ line' = [dv |-> dv, fcs |-> IF line.dv /\ ~dv THEN fcs ELSE line.fcs]
  /\ owed' = IF line.dv /\ ~dv /\ fcs /\ IsPause(frame)
             THEN Append(owed, Value(frame.q)) ELSE owed
  /\ UNCHANGED <<s1, s2, s3, cfg_pause_rx_en, timer, pause_rx_cnt, since>>

-----------------------------------------------------------------------------
(* clk *)

prx_evt    == s2 # s3
pause_load == prx_evt /\ cfg_pause_rx_en

\* Mutant: the prescaler runs on when the timer is loaded.
PrescalerFree ==
  /\ tick_cnt' = IF tick_cnt >= TickDiv - 1 THEN 0 ELSE tick_cnt + 1
  /\ pause_tick' = (tick_cnt >= TickDiv - 1)

\* "It restarts when a PAUSE frame loads the timer, so N quanta always last N
\* full quanta."
Prescaler ==
  IF pause_load THEN tick_cnt' = 0 /\ pause_tick' = FALSE
  ELSE /\ tick_cnt' = IF tick_cnt >= TickDiv - 1 THEN 0 ELSE tick_cnt + 1
       /\ pause_tick' = (tick_cnt >= TickDiv - 1)

\* tx_paused is a flop of its own beside pause_remaining.
Timer(q) ==
  IF pause_load THEN pause_remaining' = q /\ tx_paused' = (q # 0)
  ELSE IF pause_tick /\ pause_remaining # 0
  THEN /\ pause_remaining' = pause_remaining - 1
       /\ tx_paused' = (tx_paused /\ pause_remaining # 1)
  ELSE UNCHANGED <<pause_remaining, tx_paused>>

\* Mutant: the synchroniser stands still while PAUSE frames are not honoured.
SyncGated(tgl) ==
  IF cfg_pause_rx_en THEN s1' = tgl /\ s2' = s1 /\ s3' = s2
                     ELSE UNCHANGED <<s1, s2, s3>>

\* The toggle synchroniser.
Sync(tgl) == s1' = tgl /\ s2' = s1 /\ s3' = s2

CountEvent(stat_clr) ==
  pause_rx_cnt' = IF stat_clr THEN 0
                  ELSE IF prx_evt /\ pause_rx_cnt # MaxCnt THEN pause_rx_cnt + 1
                  ELSE pause_rx_cnt

\* Each bit sampled is the old or the new one, if rx_clk moved since the last clk
\* edge.
Sampled(was, is) == IF lead = 0 THEN {is} ELSE {was, is}

ClkEdge(tgl, hi, lo, en, stat_clr) ==
  /\ lead' = 0
  /\ Sync(tgl)
  /\ Prescaler
  /\ Timer(2 * hi + lo)
  /\ CountEvent(stat_clr)
  /\ cfg_pause_rx_en' = en
  /\ owed' = IF prx_evt /\ owed # << >> THEN Tail(owed) ELSE owed
  /\ since' = IF pause_load THEN [n |-> 0, q |-> 2 * hi + lo]
              ELSE IF since.n <= since.q * TickDiv THEN [since EXCEPT !.n = @ + 1] ELSE since
  /\ UNCHANGED <<line, b, parser, old, frame>>

\* Inside a frame, and outside one or at its end, where the FCS verdict falls.
Rx ==
  \/ \E ce \in Strobes, byte \in Bytes, er \in Errors :
       RxEdge(TRUE, ce, byte, er, FALSE)
  \/ \E fcs \in BOOLEAN : RxEdge(FALSE, FALSE, "zz", FALSE, fcs)

Clk ==
  \E tgl \in Sampled(old.tgl, pause_tgl), hi \in Sampled(old.q.hi, pause_quanta.hi),
     lo \in Sampled(old.q.lo, pause_quanta.lo), en, stat_clr \in BOOLEAN :
     ClkEdge(tgl, hi, lo, en, stat_clr)

Next == Rx \/ Clk

Spec == Init /\ [][Next]_vars

\* clk runs; the PHY's clock may stop.
LiveSpec == Spec /\ WF_vars(Clk)

-----------------------------------------------------------------------------
\* The timer is loaded only by a valid PAUSE frame, each frame once, and with that
\* frame's own pause_time: the quanta register is not sampled while another frame,
\* valid or not, is changing it.
PauseTakesItsOwnFrame ==
  [][prx_evt /\ s3' # s3 =>
       owed # << >> /\ (cfg_pause_rx_en => pause_remaining' = Head(owed))]_vars

\* "N quanta always last N full quanta": a pause does not end before.
PauseFullLength == (~tx_paused /\ since.n > 0) => since.n > since.q * TickDiv

\* A valid PAUSE frame reaches the timer, also if the PHY's clock stops after it.
EveryPauseFrameActs == owed # << >> /\ ~b.end /\ ~b.dv_d1 ~> owed = << >>

\* A pause ends by itself, unless another PAUSE frame renews it.
PauseExpires == tx_paused ~> (~tx_paused \/ pause_load)

\* Nothing of the pause is stuck: the request arrives and the hold is released
\* (eth_pause.v 77-145).
PauseActsAndEnds == EveryPauseFrameActs /\ PauseExpires
=============================================================================
