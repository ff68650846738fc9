------------------------------- MODULE MiiTxSaf -------------------------------
(***************************************************************************)
(* mii_tx_saf.v, the store-and-forward MII transmitter, against the        *)
(* reference the cocotb suite scores it by: lib/model.py predicts from the *)
(* AXIS stimulus which frames the framer puts on the wire, lib/            *)
(* mii_monitor.py takes them apart again.                                  *)
(*                                                                         *)
(* The write side stores {last, byte} and counts committed frames; write   *)
(* pointer and count cross to the media clock through synchronizers of two *)
(* and three stages, and a stage that samples while the value changes may  *)
(* keep the old one.  The framer starts a frame once its count is visible  *)
(* and then reads without looking at empty again.  A byte is its place in  *)
(* the stream and the CRC is the sequence of bytes it was stepped with.    *)
(* The framer takes one step per byte, with the preamble, the FCS and the  *)
(* gap as one step each.                                                   *)
(***************************************************************************)
EXTENDS Integers, Sequences, SequencesExt

CONSTANTS Depth,      \* FIFO_DEPTH
          MAX_FRAME, MIN_FRAME,
          MaxBytes,   \* bound on the bytes of the AXIS source
          MaxCtl,     \* bound on the control frames
          MaxToggles  \* bound on the changes of tx_start_ok

VARIABLES stream,                   \* tlast of each byte the source has sent
          mem, frame_bytes, dropping, frame_wr,     \* write side (sys clk)
          hot, hot_eof,             \* a write, of a last byte, since the last media edge
          rd_seen,                  \* the read pointer as the write side knows it
          wp_sync, fw_sync,         \* the synchronizers, newest stage first
          st, rd_ptr, frame_rd, src_ctl, cur, dcnt, crc,   \* framer (media clk)
          ctl,                      \* committed control frames
          start_ok, toggles,
          wire,                     \* what tx_en has framed so far in this frame
          payloads, errors,         \* MiiMonitor
          ctls                      \* control frames sent so far

writer  == <<stream, mem, frame_bytes, dropping, frame_wr, hot, hot_eof, rd_seen>>
framer  == <<st, rd_ptr, frame_rd, src_ctl, cur, dcnt, crc>>
monitor == <<wire, payloads, errors>>
vars == <<writer, wp_sync, fw_sync, framer, ctl, start_ok, toggles, monitor, ctls>>

Pad  == 0                  \* the byte 0x00
Junk == -1                 \* a byte read from beyond the visible write pointer
Ctl  == -2                 \* a byte of a control frame
Counts == 2 * Depth        \* values of a committed-frame counter

Init == /\ stream = <<>> /\ mem = <<>> /\ frame_bytes = 0 /\ dropping = FALSE /\ frame_wr = 0
        /\ hot = FALSE /\ hot_eof = FALSE /\ rd_seen = 0
        /\ wp_sync = <<0, 0>> /\ fw_sync = <<0, 0, 0>>
        /\ st = "IDLE" /\ rd_ptr = 0 /\ frame_rd = 0 /\ src_ctl = FALSE
        /\ cur = [byte |-> Pad, last |-> FALSE] /\ dcnt = 0 /\ crc = <<>>
        /\ ctl = 0 /\ start_ok = TRUE /\ toggles = 0
        /\ wire = <<>> /\ payloads = <<>> /\ errors = FALSE /\ ctls = 0

-----------------------------------------------------------------------------
(* Write side. *)
wr_full == Len(mem) - rd_seen = Depth

(* Mutant: no cap on a frame. *)
NoLimit == FALSE

ReachedLimit == frame_bytes = MAX_FRAME - 1

(* AxisMaster: it holds a byte until it is taken, with any bubbles between. *)
Accept(last) ==
  /\ Len(stream) < MaxBytes
  /\ Len(stream) = MaxBytes - 1 => last    \* the stream ends on a committed byte
  /\ ~dropping /\ ~wr_full
  /\ stream' = Append(stream, last)
  /\ LET eff_last == last \/ ReachedLimit IN
     /\ mem' = Append(mem, [byte |-> Len(stream) + 1, last |-> eff_last])
     /\ frame_bytes' = IF eff_last THEN 0 ELSE frame_bytes + 1
     /\ dropping' = (ReachedLimit /\ ~last)
     /\ frame_wr' = IF eff_last THEN (frame_wr + 1) % Counts ELSE frame_wr
     /\ hot' = TRUE /\ hot_eof' = eff_last
  /\ UNCHANGED <<rd_seen, wp_sync, fw_sync, framer, ctl, start_ok, toggles, monitor, ctls>>

(* The tail of a truncated frame is taken and not written. *)
DropTail(last) ==
  /\ Len(stream) < MaxBytes
  /\ Len(stream) = MaxBytes - 1 => last
  /\ dropping
  /\ stream' = Append(stream, last)
  /\ dropping' = ~last
  /\ UNCHANGED <<mem, frame_bytes, frame_wr, hot, hot_eof, rd_seen, wp_sync, fw_sync, framer,
                 ctl, start_ok, toggles, monitor, ctls>>

SyncRead == /\ rd_seen # rd_ptr /\ rd_seen' = rd_ptr
            /\ UNCHANGED <<stream, mem, frame_bytes, dropping, frame_wr, hot, hot_eof, wp_sync,
                           fw_sync, framer, ctl, start_ok, toggles, monitor, ctls>>

(* A whole control frame in its own FIFO. *)
CtlWrite == /\ ctl + ctls < MaxCtl /\ ctl' = ctl + 1
            /\ UNCHANGED <<writer, wp_sync, fw_sync, framer, start_ok, toggles, monitor, ctls>>

Toggle == /\ toggles < MaxToggles
          /\ toggles' = toggles + 1 /\ start_ok' = ~start_ok
          /\ UNCHANGED <<writer, wp_sync, fw_sync, framer, ctl, monitor, ctls>>

-----------------------------------------------------------------------------
(* Media clock. *)

(* Mutant: the count is synchronized by one stage. *)
SyncFramesShort(f) == <<f, f, f>>

SyncFrames(f) == <<f, fw_sync[1], fw_sync[2]>>

(* An edge of the synchronizers; each samples on its own. *)
SyncWrite ==
  /\ hot \/ wp_sync # <<Len(mem), Len(mem)>> \/ fw_sync # <<frame_wr, frame_wr, frame_wr>>
  /\ \E w \in {Len(mem)} \cup (IF hot THEN {Len(mem) - 1} ELSE {}),
        f \in {frame_wr} \cup (IF hot /\ hot_eof THEN {(frame_wr - 1) % Counts} ELSE {}) :
       /\ wp_sync' = <<w, wp_sync[1]>>
       /\ fw_sync' = SyncFrames(f)
  /\ hot' = FALSE /\ hot_eof' = FALSE
  /\ UNCHANGED <<stream, mem, frame_bytes, dropping, frame_wr, rd_seen, framer, ctl, start_ok,
                 toggles, monitor, ctls>>

rd_empty      == rd_ptr = wp_sync[2]
frame_pending == fw_sync[3] # frame_rd

MediaStep == UNCHANGED <<writer, wp_sync, fw_sync, start_ok, toggles>>

(* S_IDLE: a control frame first, a data frame only if the gate is open. *)
Start(is_ctl) == /\ st = "IDLE"
                 /\ IF is_ctl THEN ctl > 0
                              ELSE ctl = 0 /\ frame_pending /\ ~rd_empty /\ start_ok
                 /\ src_ctl' = is_ctl
                 /\ st' = "PRE"
                 /\ MediaStep /\ UNCHANGED <<rd_ptr, frame_rd, cur, dcnt, crc, ctl, monitor, ctls>>

(* The head of the FIFO of this frame, and its pop. *)
Load == IF src_ctl
        THEN cur' = [byte |-> Ctl, last |-> TRUE] /\ UNCHANGED rd_ptr
        ELSE IF rd_empty
             THEN /\ \E l \in BOOLEAN : cur' = [byte |-> Junk, last |-> l]
                  /\ UNCHANGED rd_ptr
             ELSE cur' = mem[rd_ptr + 1] /\ rd_ptr' = rd_ptr + 1

(* S_PRE and S_SFD. *)
Preamble == /\ st = "PRE" /\ st' = "DATA"
            /\ wire' = <<"preamble", "sfd">>
            /\ Load
            /\ dcnt' = 0 /\ crc' = <<>>
            /\ MediaStep /\ UNCHANGED <<frame_rd, src_ctl, ctl, payloads, errors, ctls>>

Data == /\ st = "DATA"
        /\ Len(wire) < MaxBytes + MIN_FRAME + 2
        /\ wire' = Append(wire, cur.byte)
        /\ crc' = Append(crc, cur.byte)
        /\ dcnt' = dcnt + 1
        /\ IF cur.last
           THEN /\ st' = IF dcnt + 1 < MIN_FRAME THEN "PAD" ELSE "FCS"
                /\ UNCHANGED <<cur, rd_ptr>>
           ELSE Load /\ UNCHANGED st
        /\ MediaStep /\ UNCHANGED <<frame_rd, src_ctl, ctl, payloads, errors, ctls>>

PadByte == /\ st = "PAD"
           /\ wire' = Append(wire, Pad)
           /\ crc' = Append(crc, Pad)
           /\ dcnt' = dcnt + 1
           /\ st' = IF dcnt + 1 >= MIN_FRAME THEN "FCS" ELSE "PAD"
           /\ MediaStep /\ UNCHANGED <<rd_ptr, frame_rd, src_ctl, cur, ctl, payloads, errors,
                                       ctls>>

Fcs == /\ st = "FCS" /\ st' = "IFG"
       /\ wire' = Append(wire, crc)
       /\ MediaStep /\ UNCHANGED <<rd_ptr, frame_rd, src_ctl, cur, dcnt, crc, ctl, payloads,
                                   errors, ctls>>

(* MiiMonitor._finish: header, payload and FCS of what was on the wire. *)
FramingOk(w) == /\ Len(w) >= 3
                /\ SubSeq(w, 1, 2) = <<"preamble", "sfd">>
                /\ Last(w) = SubSeq(w, 3, Len(w) - 1)

(* S_IFG: tx_en is low, the monitor closes the frame; then it is counted. *)
Ifg == /\ st = "IFG" /\ st' = "IDLE"
       /\ wire' = <<>>
       /\ errors' = (errors \/ ~FramingOk(wire))
       /\ IF src_ctl
          THEN /\ ctl' = ctl - 1 /\ ctls' = ctls + 1
               /\ UNCHANGED <<frame_rd, payloads>>
          ELSE /\ frame_rd' = (frame_rd + 1) % Counts
               /\ payloads' = Append(payloads, SubSeq(wire, 3, Len(wire) - 1))
               /\ UNCHANGED <<ctl, ctls>>
       /\ MediaStep /\ UNCHANGED <<rd_ptr, src_ctl, cur, dcnt, crc>>

Framer == Preamble \/ Data \/ PadByte \/ Fcs \/ Ifg

Source == \E last \in BOOLEAN : Accept(last) \/ DropTail(last)

Next == \/ Source \/ SyncRead \/ CtlWrite \/ Toggle \/ SyncWrite
        \/ Start(TRUE) \/ Start(FALSE) \/ Framer

(* Both clocks run, and the source goes on as long as it is taken. *)
Spec == Init /\ [][Next]_vars
             /\ WF_vars(Source) /\ WF_vars(SyncRead) /\ WF_vars(SyncWrite)
             /\ WF_vars(Start(TRUE)) /\ WF_vars(Start(FALSE)) /\ WF_vars(Framer)

-----------------------------------------------------------------------------
(* lib/eth.py: pad_payload *)
pad_payload(p) == IF Len(p) < MIN_FRAME
                  THEN p \o [i \in 1 .. MIN_FRAME - Len(p) |-> Pad] ELSE p

(* lib/model.py: one byte of the stream in saf_expected *)
saf_step(acc, i) ==
  LET last   == stream[i]
      cur_   == Append(acc.cur, i)
      forced == Len(cur_) = MAX_FRAME /\ ~last
  IN IF acc.dropping THEN [acc EXCEPT !.dropping = ~last]
     ELSE IF last \/ forced
          THEN [frames |-> Append(acc.frames, pad_payload(cur_)), cur |-> <<>>,
                dropping |-> forced]
          ELSE [acc EXCEPT !.cur = cur_]

saf_expected == FoldLeft(saf_step, [frames |-> <<>>, cur |-> <<>>, dropping |-> FALSE],
                         [i \in 1 .. Len(stream) |-> i]).frames

(* lib/model.py: Scoreboard.check, when the stimulus is over: as many       *)
(* frames as expected and each of them the one expected.                    *)
check(observed) ==
  /\ Len(observed) = Len(saf_expected)
  /\ \A i \in 1 .. Len(observed) : observed[i] = saf_expected[i]

(* The reference predicts the wire.  At every moment the data frames the    *)
(* monitor has taken off the wire are the first ones saf_expected lists for *)
(* the bytes sent so far, each with its preamble and an FCS over exactly    *)
(* its bytes: none is lost, merged, truncated or sent twice, and none       *)
(* starts before its last byte can be read on the media clock, although its *)
(* count and its bytes cross the clocks separately (mii_tx_saf.v 113-161,   *)
(* 270-313, 375-520; lib/model.py 22-68).                                   *)
WireIsReference == /\ ~errors
                   /\ IsPrefix(payloads, saf_expected)

(* The path never wedges: unless the gate stays closed, the source gets rid *)
(* of every byte, also of a run without tlast that is longer than the FIFO, *)
(* and every frame it committed leaves (mii_tx_saf.v 116).                  *)
SafDrains == <>[](~start_ok \/ (Len(stream) = MaxBytes /\ check(payloads)))
=============================================================================
