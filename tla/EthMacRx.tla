------------------------------ MODULE EthMacRx ------------------------------
(***************************************************************************)
(* rtl/eth_mac_rx.v: the receive path of the MAC.  The PHY cannot be held  *)
(* off, so a frame that meets a full output FIFO must lose bytes; what the *)
(* module promises is that it loses them without breaking the framing of   *)
(* the AXI-Stream, without calling a damaged frame clean, and without      *)
(* losing count of frames.                                                 *)
(*                                                                         *)
(* One step is one clock edge.  A byte is represented by its position in   *)
(* its frame, so that loss, duplication and reordering show.  The address  *)
(* comparison, the CRC and the checksum verdicts are inputs.               *)
(***************************************************************************)
EXTENDS Integers, Sequences

CONSTANTS Depth,        \* AXIS_FIFO_DEPTH
          DstLen,       \* bytes of destination address: 6
          VlanPos,      \* byte that completes the TPID: 13
          MinFrame,     \* 64
          MaxStd,       \* MAX_FRAME_STD
          MaxJumbo,     \* MAX_FRAME_JUMBO
          CntMax,       \* 14'h3FFF, where byte_cnt stops counting
          MaxWire,      \* bound: the longest frame the line delivers
          LineErrors    \* bound: TRUE is in it if the line may show rx_er

ASSUME RxAssumption ==
  /\ Depth \in Nat /\ Depth >= 4
  /\ DstLen = 6
  /\ VlanPos \in Nat /\ MinFrame \in Nat /\ MaxWire \in Nat
  /\ MaxStd \in Nat /\ MaxJumbo \in Nat /\ CntMax \in Nat
  /\ DstLen < VlanPos /\ VlanPos < CntMax
  /\ DstLen <= MinFrame
  /\ FALSE \in LineErrors /\ LineErrors \subseteq BOOLEAN
  /\ MaxStd + 4 < CntMax /\ MaxJumbo < CntMax \* gen_limit_check

VARIABLES
  state, byte_cnt, mac_ok, frame_started, rx_er_seen, rx_overflow_seen,
  vlan_tag,
  delay_pipe,     \* delay_pipe[5] is the newest byte
  push_r,         \* the registered push request (push_en_r and its word)
  stat,           \* the statistics pulses of this cycle
  q, dout, dout_valid,     \* u_fifo
  wire_pos,       \* history: bytes of this frame seen since its SFD
  sink            \* history: what the sink took of the frame it is reading

fsm  == <<state, byte_cnt, mac_ok, frame_started, rx_er_seen,
          rx_overflow_seen, vlan_tag, delay_pipe>>
fifo == <<q, dout, dout_valid>>
vars == <<fsm, push_r, stat, fifo, wire_pos, sink>>

-----------------------------------------------------------------------------
States == {"IDLE", "PREAMBLE", "DATA", "DROP", "CRC_CHECK"}

Word == [sof : BOOLEAN, last : BOOLEAN, err : BOOLEAN, data : Nat]

NoStat == [kind |-> "none", len |-> 0, err |-> FALSE]

\* The sink is between frames; the next byte it expects is byte 0.
SinkIdle == [mid |-> FALSE, next |-> 0, gap |-> FALSE]

SinkTakes(w) ==
  IF w.last THEN SinkIdle
            ELSE [mid |-> TRUE, next |-> w.data + 1,
                  gap |-> sink.gap \/ w.data # sink.next]

Fifo == INSTANCE FwftFifo

\* Mutant: no slots are reserved above the mark.
FifoRoomNoReserve == Len(q) < Depth

\* Occupancy is below FIFO_HWM.  The word in push_r is not yet counted.
FifoRoom == Len(q) < Depth - 4

SofWord(d)     == [sof |-> TRUE,  last |-> FALSE, err |-> FALSE, data |-> d]
DataWord(d)    == [sof |-> FALSE, last |-> FALSE, err |-> FALSE, data |-> d]
LastWord(d, e) == [sof |-> FALSE, last |-> TRUE,  err |-> e,     data |-> d]

NoPush  == [en |-> FALSE, word |-> DataWord(0)]
Push(w) == [en |-> TRUE,  word |-> w]

NoByte == [i \in 0 .. 5 |-> 0]

Oversize(jumbo) ==
  /\ byte_cnt > (IF vlan_tag THEN MaxStd + 4 ELSE MaxStd)
  /\ ~jumbo \/ byte_cnt > MaxJumbo

Undersize == byte_cnt < MinFrame

\* Mutant: bytes dropped for want of room do not condemn the frame.
FrameErrForgetsOverflow(bad, jumbo) ==
  \/ bad \/ rx_er_seen
  \/ Oversize(jumbo) \/ Undersize

\* What makes push_err of the closing word; `bad' is the verdict of the CRC or
\* of the checksum checker.
FrameErr(bad, jumbo) ==
  \/ bad \/ rx_er_seen \/ rx_overflow_seen
  \/ Oversize(jumbo) \/ Undersize

TypeOK ==
  /\ state \in States
  /\ byte_cnt \in 0 .. CntMax
  /\ {mac_ok, frame_started, rx_er_seen, rx_overflow_seen, vlan_tag}
        \subseteq BOOLEAN
  /\ delay_pipe \in [0 .. 5 -> Nat]
  /\ push_r \in [en : BOOLEAN, word : Word]
  /\ stat \in [kind : {"none", "done", "drop"}, len : 0 .. CntMax,
               err : BOOLEAN]
  /\ q \in Seq(Word)
  /\ dout_valid \in BOOLEAN
  /\ dout_valid => dout \in Word
  /\ wire_pos \in Nat
  /\ sink \in [mid : BOOLEAN, next : Nat, gap : BOOLEAN]

Init ==
  /\ state = "IDLE"
  /\ byte_cnt = 0
  /\ mac_ok = FALSE /\ frame_started = FALSE
  /\ rx_er_seen = FALSE /\ rx_overflow_seen = FALSE
  /\ vlan_tag = FALSE
  /\ delay_pipe = NoByte
  /\ push_r = NoPush
  /\ stat = NoStat
  /\ q = << >> /\ dout = SofWord(0) /\ dout_valid = FALSE
  /\ wire_pos = 0
  /\ sink = SinkIdle

-----------------------------------------------------------------------------
\* The output FIFO takes the registered push and the sink's tready; the sink
\* takes the word shown to it.
FifoClock(tready) ==
  /\ Fifo!Clock(push_r.en, push_r.word, tready)
  /\ sink' = IF dout_valid /\ tready THEN SinkTakes(dout) ELSE sink

FifoOverflow(tready) == Fifo!Overflow(push_r.en, tready)

\* What gmii_rx_dv and gmii_rxd show before a frame's data: nothing (rx_dv
\* low), a preamble byte, the SFD, or any other byte.
Lines == {"none", "pre", "sfd", "other"}

\* The first byte of a frame is preamble, or the SFD when the PHY dropped the
\* preamble; anything else drops the frame.
AfterLine ==
  [none |-> "IDLE", pre |-> "PREAMBLE", sfd |-> "DATA", other |-> "DROP"]

\* S_IDLE and S_CRC_CHECK both clear the frame's registers and both may take
\* the next frame's first byte.
StartFrame(line, er, tready) ==
  /\ state' = AfterLine[line]
  /\ byte_cnt' = 0
  /\ mac_ok' = FALSE /\ frame_started' = FALSE
  /\ rx_er_seen' = (line # "none" /\ er)
  /\ rx_overflow_seen' = FifoOverflow(tready)
  /\ vlan_tag' = FALSE
  /\ delay_pipe' = NoByte
  /\ wire_pos' = 0

Idle(line, er, tready) ==
  /\ state = "IDLE"
  /\ StartFrame(line, er, tready)
  /\ push_r' = NoPush
  /\ stat' = NoStat
  /\ FifoClock(tready)

CrcCheckStat(bad, jumbo) ==
  IF ~mac_ok THEN NoStat
  ELSE IF frame_started
       THEN [kind |-> "done", len |-> byte_cnt, err |-> FrameErr(bad, jumbo)]
       ELSE [kind |-> "drop", len |-> 0, err |-> FALSE]

\* Mutant: the closing word is pushed only below the mark, like data.
CrcCheckPushIfRoom(bad, jumbo) ==
  IF byte_cnt >= DstLen /\ mac_ok /\ frame_started /\ FifoRoom
  THEN Push(LastWord(delay_pipe[1], FrameErr(bad, jumbo)))
  ELSE NoPush

\* The closing word of a started frame is pushed whatever the occupancy.
CrcCheckPush(bad, jumbo) ==
  IF byte_cnt >= DstLen /\ mac_ok /\ frame_started
  THEN Push(LastWord(delay_pipe[1], FrameErr(bad, jumbo)))
  ELSE NoPush

CrcCheck(line, er, bad, jumbo, tready) ==
  /\ state = "CRC_CHECK"
  /\ push_r' = CrcCheckPush(bad, jumbo)
  /\ stat' = CrcCheckStat(bad, jumbo)
  /\ StartFrame(line, er, tready)
  /\ FifoClock(tready)

Preamble(line, er, tready) ==
  /\ state = "PREAMBLE"
  /\ state' = AfterLine[line]
  /\ rx_er_seen' = (rx_er_seen \/ er)
  /\ rx_overflow_seen' = (rx_overflow_seen \/ FifoOverflow(tready))
  /\ push_r' = NoPush
  /\ stat' = NoStat
  /\ FifoClock(tready)
  /\ UNCHANGED <<byte_cnt, mac_ok, frame_started, vlan_tag, delay_pipe,
                 wire_pos>>

\* The byte at byte_cnt = 5 completes the destination address: a frame that
\* passes the filter starts if there is room for it.
StartsHere(mac_pass) == byte_cnt = DstLen - 1 /\ mac_pass /\ FifoRoom

InStarted == byte_cnt >= DstLen /\ mac_ok /\ frame_started

DataPush(mac_pass) ==
  IF StartsHere(mac_pass) THEN Push(SofWord(delay_pipe[1]))
  ELSE IF InStarted /\ FifoRoom THEN Push(DataWord(delay_pipe[1]))
       ELSE NoPush

CountByte == IF byte_cnt = CntMax THEN byte_cnt ELSE byte_cnt + 1

DataByte(er, mac_pass, tagged, tready) ==
  /\ state = "DATA"
  /\ wire_pos < MaxWire
  /\ byte_cnt' = CountByte
  /\ mac_ok' = IF byte_cnt = DstLen - 1 THEN mac_pass ELSE mac_ok
  /\ frame_started' = (frame_started \/ StartsHere(mac_pass))
  /\ rx_er_seen' = (rx_er_seen \/ er)
  /\ rx_overflow_seen' = \/ rx_overflow_seen
                         \/ InStarted /\ ~FifoRoom
                         \/ FifoOverflow(tready)
  /\ vlan_tag' = IF byte_cnt = VlanPos THEN tagged ELSE vlan_tag
  /\ delay_pipe' = [i \in 0 .. 5 |-> IF i = 5 THEN wire_pos
                                              ELSE delay_pipe[i + 1]]
  /\ push_r' = DataPush(mac_pass)
  /\ stat' = NoStat
  /\ FifoClock(tready)
  /\ wire_pos' = wire_pos + 1
  /\ UNCHANGED state

DataEnd(er, tready) ==
  /\ state = "DATA"
  /\ state' = "CRC_CHECK"
  /\ rx_er_seen' = (rx_er_seen \/ er)
  /\ rx_overflow_seen' = (rx_overflow_seen \/ FifoOverflow(tready))
  /\ push_r' = NoPush
  /\ stat' = NoStat
  /\ FifoClock(tready)
  /\ UNCHANGED <<byte_cnt, mac_ok, frame_started, vlan_tag, delay_pipe,
                 wire_pos>>

Drop(dv, tready) ==
  /\ state = "DROP"
  /\ state' = IF dv THEN "DROP" ELSE "IDLE"
  /\ rx_overflow_seen' = (rx_overflow_seen \/ FifoOverflow(tready))
  /\ push_r' = NoPush
  /\ stat' = NoStat
  /\ FifoClock(tready)
  /\ UNCHANGED <<byte_cnt, mac_ok, frame_started, rx_er_seen, vlan_tag,
                 delay_pipe, wire_pos>>

\* An input that only the cycles with cond look at.
Choice(cond) == IF cond THEN BOOLEAN ELSE {FALSE}

\* One clock edge with the sink's tready; everything else is the line's choice.
Edge(tready) ==
  \/ \E line \in Lines, er \in LineErrors :
       \/ Idle(line, er, tready)
       \/ Preamble(line, er, tready)
       \/ \E bad, jumbo \in BOOLEAN :
            CrcCheck(line, er, bad, jumbo, tready)
  \/ \E er \in LineErrors, mac_pass \in Choice(byte_cnt = DstLen - 1),
        tagged \in Choice(byte_cnt = VlanPos) :
       DataByte(er, mac_pass, tagged, tready)
  \/ \E er \in LineErrors : DataEnd(er, tready)
  \/ \E dv \in BOOLEAN : Drop(dv, tready)

Next == \E tready \in BOOLEAN : Edge(tready)

Spec == Init /\ [][Next]_vars

\* The clock runs and the sink is ready again and again.
LiveSpec == Spec /\ WF_vars(Edge(TRUE))

-----------------------------------------------------------------------------
\* Everything handed to the AXI-Stream and not yet taken, oldest first.
Shown  == IF dout_valid THEN <<dout>> ELSE << >>
Coming == IF push_r.en THEN <<push_r.word>> ELSE << >>
Stream == (Shown \o q) \o Coming

\* A reader that is inside a frame iff `mid' finds words s well bracketed, and is
\* inside a frame after them iff `open'.
Framed(mid, s, open) ==
  /\ s # << >> => s[1].sof = ~mid
  /\ \A i \in 1 .. Len(s) - 1 : s[i + 1].sof = s[i].last
  /\ open = IF s = << >> THEN mid ELSE ~s[Len(s)].last

\* The reserved headroom always suffices: u_fifo never refuses a push, so the
\* closing word of a started frame is never lost ("the reserved headroom
\* guarantees room", eth_mac_rx.v:299).
NeverOverflows == \A tready \in BOOLEAN : ~FifoOverflow(tready)

\* "keeps AXIS framing intact under backpressure": a frame's words run from its
\* SOF to its TLAST, the word after a TLAST is a SOF, and the last word handed
\* over closed a frame unless a started frame is still arriving.
FramingIntact == Framed(sink.mid, Stream, frame_started)

\* The two together: the FIFO takes every word it is given, and the words it is
\* given are whole frames (eth_mac_rx.v 154-162, 284-326).
FifoFraming == NeverOverflows /\ FramingIntact

\* A frame the sink sees close without terror is the frame that was on the
\* wire: no byte before its last is missing, doubled or out of place.
CleanAtSink ==
  (dout_valid /\ dout.last /\ ~dout.err) =>
     ~sink.gap /\ dout.data = sink.next

\* The closing word of a frame counted clean is the last byte before the FCS,
\* and its length is within the limit: a stopped byte_cnt never passes as clean.
CleanLengthExact ==
  (stat.kind = "done" /\ ~stat.err) =>
     /\ push_r.en
     /\ stat.len = push_r.word.data + 5
     /\ stat.len <= MaxStd + 4 \/ stat.len <= MaxJumbo

\* A frame handed over clean, and counted clean, is the frame that was on the
\* wire, however long the wire frame and the sink's stalls.
CleanMeansWhole == CleanAtSink /\ CleanLengthExact

\* "counts match deliveries" (eth_mac_rx.v:401): stat_done pulses with the
\* closing word of a frame in the push register, and with no other.
DoneMatchesDelivery ==
  (stat.kind = "done") <=> (push_r.en /\ push_r.word.last)

\* lib/rx_model.py: what rx_expected lists for the frame on the wire, from its
\* length and its faults alone.  It knows no runts and no overflow.
rx_expected(corrupt_fcs, jumbo_en) ==
  LET over_std == wire_pos > MaxStd + (IF vlan_tag THEN 4 ELSE 0)
      oversize == over_std /\ (~jumbo_en \/ wire_pos > MaxJumbo)
  IN [len |-> wire_pos, terror |-> corrupt_fcs \/ rx_er_seen \/ oversize]

\* RxScoreboard: one more frame on the stream, ended with the expected terror at
\* the last byte before the FCS, and one more record with the expected length.
RxScoreboard(bad, jumbo) ==
  LET exp == rx_expected(bad, jumbo) IN
  /\ CrcCheckPush(bad, jumbo) = Push(LastWord(exp.len - 5, exp.terror))
  /\ CrcCheckStat(bad, jumbo) = [kind |-> "done", len |-> exp.len, err |-> exp.terror]

\* Every frame the filter passes that met no full FIFO scores as the reference
\* says, unless it is a runt or longer than the counter.
ScoredAsReference ==
  (state = "CRC_CHECK" /\ mac_ok /\ frame_started /\ ~rx_overflow_seen
     /\ wire_pos \in MinFrame .. CntMax)
  => \A bad, jumbo \in BOOLEAN : RxScoreboard(bad, jumbo)

\* The sink can rely on what it gets and on what is counted, and so can the
\* suite that scores both: all of the above, under every stall and line error.
DeliveredAsCounted == CleanMeansWhole /\ DoneMatchesDelivery /\ ScoredAsReference

\* A frame whose first word reached the sink is eventually closed there.
EveryFrameCloses ==
  (dout_valid /\ dout.sof) ~> (dout_valid /\ dout.last)
=============================================================================
