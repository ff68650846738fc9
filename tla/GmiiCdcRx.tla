----------------------------- MODULE GmiiCdcRx ------------------------------
(***************************************************************************)
(* rtl/gmii_cdc.v, receive half: whole frames cross from the media clock   *)
(* to the system clock through u_rx_fifo.  The media side cannot wait; it  *)
(* refuses data when the FIFO fills but always writes a frame's EOF word.  *)
(* A toggle that travels beside the FIFO tells the system side how many    *)
(* whole frames it may read.                                               *)
(*                                                                         *)
(* A byte is its frame's number and its position in the frame.             *)
(***************************************************************************)
EXTENDS Naturals, Sequences, FiniteSets

CONSTANTS Depth,          \* RX_FIFO_DEPTH
          Block,          \* FIFO_RAM_STYLE = "BLOCK"
          AvailDelay,     \* bits of rx_avail_delay: 8
          PendMax,        \* 2 ^ RX_CNT_W - 1
          MaxFrames,      \* bound: frames the line sends
          MaxLen,         \* bound: bytes of a frame
          LineErrors,     \* bound: TRUE is in it if the line may show rx_er
          MinGap,         \* media edges between two frames on the line
          MaxRatio        \* media edges between two system edges

ASSUME CdcRxAssumption ==
  /\ Depth \in Nat /\ Depth > 2
  /\ Block \in BOOLEAN
  /\ AvailDelay \in Nat \ {0}
  /\ {PendMax, MaxFrames, MaxLen} \subseteq Nat
  /\ FALSE \in LineErrors /\ LineErrors \subseteq BOOLEAN
  /\ MinGap \in Nat \ {0} /\ MaxRatio \in Nat \ {0}

\* The toggle of one frame is sampled before the next frame's flips it, and the
\* pending count, one bit wider than the FIFO's addresses, holds all of its words.
ASSUME PaceAssumption == MaxRatio < MinGap /\ PendMax > Depth

VARIABLES
  \* media_rx_clk
  rx_wr,            \* rx_wr_en and rx_wr_data
  rx_dv_d1, rx_drop, rx_er_noce, rx_data_room, rx_frame_toggle,
  \* u_rx_fifo
  q, head, seen1, seen2, lag1, lag2,
  \* sys_clk
  toggle_s,         \* <<rx_toggle_s1, rx_toggle_s2, rx_toggle_s3>>
  rx_avail_delay, rx_frames_pending, rx_frame_done_pulse, rx_reading,
  rx_rd_en,
  rx_pend,          \* the one-byte hold: rx_pend_valid, _data, _er
  gmii_out,         \* gmii_rx_dv_out, gmii_rxd_out, gmii_rx_er_out
  \* history
  line,             \* the frame on the line: its number, bytes, error, gap
  sent,             \* what ended on the line: frame number -> length, error
  rcv,              \* the frame as the MAC receives it
  ratio             \* media edges since the last system edge

mediaRegs == <<rx_wr, rx_dv_d1, rx_drop, rx_er_noce, rx_data_room,
               rx_frame_toggle, line, sent>>
fifo == <<q, head, seen1, seen2, lag1, lag2>>
sysRegs == <<toggle_s, rx_avail_delay, rx_frames_pending,
             rx_frame_done_pulse, rx_reading, rx_rd_en, rx_pend, gmii_out,
             rcv>>
vars == <<mediaRegs, fifo, sysRegs, ratio>>

FrameNo == 1 .. MaxFrames

\* A FIFO word: an EOF marker or a byte, with its error bit.
Word == [eof : BOOLEAN, err : BOOLEAN, fid : 0 .. MaxFrames, idx : 0 .. MaxLen]

Byte(er, fid, idx) == [eof |-> FALSE, err |-> er, fid |-> fid, idx |-> idx]
Eof(er, fid)       == [eof |-> TRUE,  err |-> er, fid |-> fid, idx |-> 0]

Fifo == INSTANCE CdcFifo

NoWrite == [en |-> FALSE, word |-> Byte(FALSE, 0, 0)]
NoByte  == [valid |-> FALSE, er |-> FALSE, fid |-> 0, idx |-> 0]

Init ==
  /\ rx_wr = NoWrite
  /\ rx_dv_d1 = FALSE /\ rx_drop = FALSE /\ rx_er_noce = FALSE
  /\ rx_data_room = TRUE /\ rx_frame_toggle = FALSE
  /\ Fifo!Init
  /\ toggle_s = [i \in 1 .. 3 |-> FALSE]
  /\ rx_avail_delay = [i \in 1 .. AvailDelay |-> FALSE]
  /\ rx_frames_pending = 0
  /\ rx_frame_done_pulse = FALSE /\ rx_reading = FALSE /\ rx_rd_en = FALSE
  /\ rx_pend = NoByte /\ gmii_out = NoByte
  /\ line = [fid |-> 0, len |-> 0, er |-> FALSE, gap |-> MinGap]
  /\ sent = << >>
  /\ rcv = NoByte
  /\ ratio = 0

-----------------------------------------------------------------------------
(* Media side *)

\* Mutant: data may fill the FIFO to its last word.
DataRoomNoReserve == Fifo!WrCount < Depth

DataRoom == Fifo!WrCount < Depth - 2

WrAccept ==
  /\ rx_wr.en
  /\ IF rx_wr.word.eof THEN ~Fifo!WrFull ELSE rx_data_room /\ ~rx_drop

DataRefuse == rx_wr.en /\ ~rx_wr.word.eof /\ ~WrAccept

\* Mutant: the EOF word does not tell that bytes were refused.
FifoDinUnmarked == rx_wr.word

\* An EOF word carries the truncation flag.
FifoDin ==
  IF rx_wr.word.eof THEN Eof(rx_drop \/ rx_wr.word.err, rx_wr.word.fid)
                    ELSE rx_wr.word

\* The write registers load what the line shows: "byte" and "wait" are inside
\* the rx_dv envelope with and without gmii_rx_ce_in.
TakeLine(sym, er) ==
  LET fid == IF rx_dv_d1 THEN line.fid ELSE line.fid + 1
      len == IF rx_dv_d1 THEN line.len ELSE 0
      bad == (rx_dv_d1 /\ line.er) \/ er
  IN  \/ /\ sym = "byte"
         /\ rx_wr' = [en |-> TRUE, word |-> Byte(er, fid, len)]
         /\ line' = [fid |-> fid, len |-> len + 1, er |-> bad, gap |-> 0]
         /\ UNCHANGED <<rx_er_noce, sent>>
      \/ /\ sym = "wait"
         /\ rx_wr' = NoWrite
         /\ rx_er_noce' = (rx_er_noce \/ er)
         /\ line' = [fid |-> fid, len |-> len, er |-> bad, gap |-> 0]
         /\ UNCHANGED sent
      \/ /\ sym = "idle" /\ rx_dv_d1
         /\ rx_wr' = [en |-> TRUE, word |-> Eof(rx_er_noce, line.fid)]
         /\ rx_er_noce' = FALSE
         /\ sent' = Append(sent, [len |-> line.len, er |-> line.er])
         /\ line' = [line EXCEPT !.gap = 1]
      \/ /\ sym = "idle" /\ ~rx_dv_d1
         /\ rx_wr' = NoWrite
         /\ line' = [line EXCEPT !.gap = IF @ < MinGap THEN @ + 1 ELSE @]
         /\ UNCHANGED <<rx_er_noce, sent>>

\* What the line may show next.
LineAllows(sym, er) ==
  /\ sym = "idle" => ~er
  /\ sym # "idle" /\ ~rx_dv_d1 => line.gap = MinGap /\ line.fid < MaxFrames
  /\ sym = "byte" /\ rx_dv_d1 => line.len < MaxLen

MediaEdge(sym, er) ==
  /\ LineAllows(sym, er)
  /\ rx_data_room' = DataRoom
  /\ rx_dv_d1' = (sym # "idle")
  /\ rx_drop' = IF rx_wr.en /\ rx_wr.word.eof THEN FALSE
                                              ELSE rx_drop \/ DataRefuse
  /\ rx_frame_toggle' = IF WrAccept /\ rx_wr.word.eof THEN ~rx_frame_toggle
                                                      ELSE rx_frame_toggle
  /\ TakeLine(sym, er)

-----------------------------------------------------------------------------
(* System side *)

DoneInflight == IF rx_frame_done_pulse THEN 1 ELSE 0

FrameReady == rx_frames_pending > DoneInflight

NextReady == rx_frames_pending > DoneInflight + 1

\* Mutant: a frame that arrives as another is retired is not counted.
TrackFramesDownFirst(toggle) ==
  /\ toggle_s' = <<toggle, toggle_s[1], toggle_s[2]>>
  /\ rx_avail_delay' = [i \in 1 .. AvailDelay |->
                          IF i = 1 THEN toggle_s[2] # toggle_s[3]
                                   ELSE rx_avail_delay[i - 1]]
  /\ rx_frames_pending' =
       IF rx_frame_done_pulse
       THEN IF rx_frames_pending = 0 THEN 0 ELSE rx_frames_pending - 1
       ELSE IF rx_avail_delay[AvailDelay] THEN rx_frames_pending + 1
                                          ELSE rx_frames_pending

\* Frame availability tracking; the first flip-flop catches `toggle'.
TrackFrames(toggle) ==
  /\ toggle_s' = <<toggle, toggle_s[1], toggle_s[2]>>
  /\ rx_avail_delay' = [i \in 1 .. AvailDelay |->
                          IF i = 1 THEN toggle_s[2] # toggle_s[3]
                                   ELSE rx_avail_delay[i - 1]]
  /\ rx_frames_pending' =
       LET up   == rx_avail_delay[AvailDelay]
           down == rx_frame_done_pulse
       IN  IF up /\ ~down THEN (rx_frames_pending + 1) % (PendMax + 1)
           ELSE IF down /\ ~up /\ rx_frames_pending # 0
                THEN rx_frames_pending - 1
                ELSE rx_frames_pending

\* The held byte goes out, with rx_er if `er'.
Release(er) ==
  gmii_out' = IF rx_pend.valid THEN [rx_pend EXCEPT !.er = @ \/ er] ELSE NoByte

ReadEof ==
  /\ rx_reading /\ ~Fifo!RdEmpty /\ Fifo!RdData.eof
  /\ Release(Fifo!RdData.err)
  /\ rx_pend' = NoByte
  /\ rx_frame_done_pulse' = TRUE
  /\ rx_rd_en' = NextReady
  /\ rx_reading' = NextReady

ReadByte ==
  /\ rx_reading /\ ~Fifo!RdEmpty /\ ~Fifo!RdData.eof
  /\ Release(FALSE)
  /\ rx_pend' = [valid |-> TRUE, er |-> Fifo!RdData.err,
                 fid |-> Fifo!RdData.fid, idx |-> Fifo!RdData.idx]
  /\ rx_rd_en' = TRUE
  /\ rx_frame_done_pulse' = FALSE
  /\ UNCHANGED rx_reading

ReadNothing ==
  /\ rx_reading /\ Fifo!RdEmpty
  /\ rx_reading' = FrameReady
  /\ rx_rd_en' = FALSE /\ rx_frame_done_pulse' = FALSE
  /\ gmii_out' = NoByte
  /\ UNCHANGED rx_pend

StartRead ==
  /\ ~rx_reading
  /\ rx_reading' = (FrameReady /\ ~Fifo!RdEmpty)
  /\ rx_rd_en' = (FrameReady /\ ~Fifo!RdEmpty)
  /\ rx_frame_done_pulse' = FALSE
  /\ gmii_out' = NoByte
  /\ UNCHANGED rx_pend

\* The MAC looks at the GMII outputs: rcv is the last byte of the frame it is
\* receiving, `er' whether any of its bytes had rx_er.
MacSees ==
  rcv' = IF gmii_out.valid
         THEN [gmii_out EXCEPT !.er = @ \/ (rcv.valid /\ rcv.er)]
         ELSE [rcv EXCEPT !.valid = FALSE]

SysEdge(toggle) ==
  /\ TrackFrames(toggle)
  /\ ReadEof \/ ReadByte \/ ReadNothing \/ StartRead
  /\ MacSees

-----------------------------------------------------------------------------
Symbols == {"idle", "byte", "wait"}

MediaOnly(sym, er) ==
  /\ ratio < MaxRatio
  /\ ratio' = ratio + 1
  /\ MediaEdge(sym, er)
  /\ Fifo!Edge(TRUE, WrAccept, FifoDin, FALSE, FALSE)
  /\ UNCHANGED sysRegs

SysOnly ==
  /\ ratio' = 0
  /\ SysEdge(rx_frame_toggle)
  /\ Fifo!Edge(FALSE, FALSE, FifoDin, TRUE, rx_rd_en)
  /\ UNCHANGED mediaRegs

\* Both clocks at once: the system side catches the toggle before or after.
BothEdges(sym, er) ==
  /\ ratio' = 0
  /\ MediaEdge(sym, er)
  /\ SysEdge(rx_frame_toggle) \/ SysEdge(rx_frame_toggle')
  /\ Fifo!Edge(TRUE, WrAccept, FifoDin, TRUE, rx_rd_en)

Media == \E sym \in Symbols, er \in LineErrors : MediaOnly(sym, er)
Both  == \E sym \in Symbols, er \in LineErrors : BothEdges(sym, er)

Next == Media \/ SysOnly \/ Both

Spec == Init /\ [][Next]_vars

\* The system clock runs, in or out of phase with the line's; the line's may stop.
LiveSpec == Spec /\ WF_vars(SysOnly \/ Both)

-----------------------------------------------------------------------------
Written == head \o q

\* "slots are held back for the frame's EOF word, so it always fits"
\* (gmii_cdc.v:108): accepted data is never lost to a full FIFO, and the EOF of a
\* frame of which anything was written is never refused.
EofAlwaysFits ==
  /\ WrAccept => ~Fifo!WrFull
  /\ rx_wr.en /\ rx_wr.word.eof /\ ~WrAccept
       => Written = << >> \/ Written[Len(Written)].eof

\* Frames are neither merged nor split nor reordered: a byte continues its own
\* frame at the next position, or opens a later frame at position 0.
NeverMerged ==
  gmii_out.valid =>
    IF rcv.valid THEN gmii_out.fid = rcv.fid /\ gmii_out.idx = rcv.idx + 1
                 ELSE gmii_out.fid > rcv.fid /\ gmii_out.idx = 0

\* A frame the MAC receives whole and unflagged is the frame that was on the
\* line: it carries rx_er exactly if the line flagged it or bytes were refused.
FlaggedIffDamaged ==
  (rcv.valid /\ ~gmii_out.valid) =>
    rcv.er = (sent[rcv.fid].er \/ rcv.idx + 1 < sent[rcv.fid].len)

EofsHeld == Cardinality({i \in 1 .. Len(q) : q[i].eof})
            + Cardinality({i \in 1 .. Len(head) : head[i].eof})

\* Toggles between the media side and the pending count.
InTransit ==
  Cardinality({i \in 1 .. AvailDelay : rx_avail_delay[i]})
    + Cardinality({i \in 1 .. 2 : toggle_s[i] # toggle_s[i + 1]})
    + (IF rx_frame_toggle # toggle_s[1] THEN 1 ELSE 0)

\* The count of whole frames never runs ahead of the EOF words in the FIFO and
\* loses none of them: "it cannot alias".
PendingIsExact == rx_frames_pending + InTransit = EofsHeld + DoneInflight

\* A frame that was written is one frame for the reader: its end has room, its
\* bytes stay its own, and it is counted once (gmii_cdc.v 105-132, 218-248).
FramesKeptApart == EofAlwaysFits /\ NeverMerged /\ PendingIsExact

\* Every frame that ended on the line leaves the FIFO.
EveryFrameDrains == (EofsHeld > 0) ~> (EofsHeld = 0)
=============================================================================
