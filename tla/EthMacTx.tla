------------------------------ MODULE EthMacTx ------------------------------
(***************************************************************************)
(* rtl/eth_mac_tx.v: the cut-through transmit path.  It frames the bytes   *)
(* of an AXI-Stream source with preamble, SFD, padding and FCS, and keeps  *)
(* the inter-frame gap.  s_axis_tready is a register, so the module must   *)
(* account for a byte accepted in the cycle it decides to wait.            *)
(*                                                                         *)
(* One step is one clock edge of the module and of its source.  A byte is  *)
(* represented by its position in its frame, a CRC by the number of bytes  *)
(* folded into it.                                                         *)
(***************************************************************************)
EXTENDS EthMacTxParams, Sequences, FiniteSets

VARIABLES
  state, count, data_cnt, stall_cnt,
  first,          \* have_first and first_last, with the byte
  frame_ended, crc_accum, crc_saved,
  tready,         \* s_axis_tready
  gmii,           \* gmii_tx_en, gmii_tx_er and what gmii_txd carries
  src,            \* the source: tvalid, tlast, and the byte it offers
  wire, gap,      \* history: the frame on the line so far; idle cycles before it
  taken,          \* history: bytes of the frame on the line that were accepted
  er_seen,        \* history: the frame on the line has shown tx_er
  cut             \* history: the frame before it had shown tx_er

fsm  == <<state, count, data_cnt, stall_cnt, first, frame_ended, crc_accum,
          crc_saved, tready, gmii>>
vars == <<fsm, src, wire, gap, taken, er_seen, cut>>

-----------------------------------------------------------------------------
Symbol(kind, n) == [kind |-> kind, n |-> n]
Quiet           == Symbol("none", 0)
NoFirst         == [have |-> FALSE, last |-> FALSE, pos |-> 0]

Drive(sym, er) == gmii' = [en |-> TRUE, er |-> er, sym |-> sym]
Silent         == gmii' = [en |-> FALSE, er |-> FALSE, sym |-> Quiet]

Init ==
  /\ state = "IDLE"
  /\ count = 0 /\ data_cnt = 0 /\ stall_cnt = 0
  /\ first = NoFirst
  /\ frame_ended = FALSE
  /\ crc_accum = 0 /\ crc_saved = 0
  /\ tready = FALSE
  /\ gmii = [en |-> FALSE, er |-> FALSE, sym |-> Quiet]
  /\ src = [valid |-> FALSE, last |-> FALSE, pos |-> 0]
  /\ wire = << >> /\ gap = IfgBytes /\ taken = 0
  /\ er_seen = FALSE /\ cut = FALSE

-----------------------------------------------------------------------------
Handshake == src.valid /\ tready

\* Mutant: a byte accepted as tx_start_ok falls is forgotten.
IdleForgets(tx_start_ok) ==
  /\ state = "IDLE"
  /\ Silent
  /\ frame_ended' = FALSE /\ stall_cnt' = 0
  /\ LET starting == (first.have \/ Handshake) /\ tx_start_ok
     IN  /\ first' = IF Handshake /\ tx_start_ok
                     THEN [have |-> TRUE, last |-> src.last, pos |-> src.pos]
                     ELSE first
         /\ state' = IF starting THEN "PREAMBLE" ELSE "IDLE"
         /\ count' = IF starting THEN 0 ELSE count
         /\ crc_accum' = IF starting THEN 0 ELSE crc_accum
         /\ tready' = (~(first.have \/ Handshake) /\ tx_start_ok)
  /\ UNCHANGED <<data_cnt, crc_saved>>

\* tready is registered, so tx_start_ok can fall in the cycle the first byte is
\* accepted: the byte is kept and its frame waits.
Idle(tx_start_ok) ==
  /\ state = "IDLE"
  /\ Silent
  /\ frame_ended' = FALSE /\ stall_cnt' = 0
  /\ LET pending  == first.have \/ Handshake
         starting == pending /\ tx_start_ok
     IN  /\ first' = IF Handshake /\ ~first.have
                     THEN [have |-> TRUE, last |-> src.last, pos |-> src.pos]
                     ELSE first
         /\ state' = IF starting THEN "PREAMBLE" ELSE "IDLE"
         /\ count' = IF starting THEN 0 ELSE count
         /\ crc_accum' = IF starting THEN 0 ELSE crc_accum
         /\ tready' = (~pending /\ tx_start_ok)
  /\ UNCHANGED <<data_cnt, crc_saved>>

Preamble ==
  /\ state = "PREAMBLE"
  /\ Drive(Symbol("pre", 0), FALSE)
  /\ count' = count + 1
  /\ state' = IF count = PreambleLen - 1 THEN "SFD" ELSE "PREAMBLE"
  /\ tready' = FALSE /\ stall_cnt' = 0
  /\ UNCHANGED <<data_cnt, first, frame_ended, crc_accum, crc_saved>>

Sfd ==
  /\ state = "SFD" /\ state' = "DATA"
  /\ Drive(Symbol("sfd", 0), FALSE)
  /\ data_cnt' = 0 /\ stall_cnt' = 0
  /\ tready' = FALSE
  /\ UNCHANGED <<count, first, frame_ended, crc_accum, crc_saved>>

\* A data byte goes out: the last one ends the frame, one at the limit that is not
\* the last aborts it.
SendByte(pos, last) ==
  /\ data_cnt' = data_cnt + 1
  /\ crc_accum' = crc_accum + 1
  /\ stall_cnt' = 0
  /\ LET aborted == ~last /\ data_cnt >= MaxFrame - 1
     IN  /\ Drive(Symbol("data", pos), aborted)
         /\ frame_ended' = last
         /\ crc_saved' = IF last THEN crc_accum + 1 ELSE crc_saved
         /\ state' = IF aborted THEN "IFG" ELSE "DATA"
         /\ count' = IF aborted THEN 0 ELSE count
         /\ tready' = (~last /\ ~aborted)

\* After the last byte: padding, one byte of padding, or the FCS at once.
DataEnd ==
  /\ state = "DATA" /\ frame_ended
  /\ stall_cnt' = 0 /\ tready' = FALSE
  /\ \/ /\ data_cnt < MinFrame - 1
        /\ state' = "PAD"
        /\ Drive(Symbol("pad", 0), FALSE)
        /\ crc_accum' = crc_accum + 1
        /\ data_cnt' = data_cnt + 1
        /\ UNCHANGED <<count, crc_saved>>
     \/ /\ data_cnt = MinFrame - 1
        /\ state' = "CRC" /\ count' = 0
        /\ Drive(Symbol("pad", 0), FALSE)
        /\ crc_saved' = crc_accum + 1
        /\ data_cnt' = data_cnt + 1
        /\ UNCHANGED crc_accum
     \/ /\ data_cnt > MinFrame - 1
        /\ state' = "CRC" /\ count' = 1
        /\ Drive(Symbol("crc", crc_saved), FALSE)
        /\ UNCHANGED <<crc_accum, crc_saved, data_cnt>>
  /\ UNCHANGED <<first, frame_ended>>

\* The byte kept from S_IDLE, then whatever the source offers: tvalid is taken
\* without a look at tready.
DataByte ==
  /\ state = "DATA" /\ ~frame_ended
  /\ \/ first.have /\ SendByte(first.pos, first.last) /\ first' = NoFirst
     \/ ~first.have /\ src.valid /\ SendByte(src.pos, src.last) /\ UNCHANGED first

\* Mutant: the stall counter wraps before it reaches its limit.
UnderrunWaits ==
  /\ state = "DATA" /\ ~frame_ended /\ ~first.have /\ ~src.valid
  /\ Drive(Symbol("none", 0), TRUE)
  /\ tready' = FALSE
  /\ stall_cnt' = (stall_cnt + 1) % StallMax
  /\ UNCHANGED <<state, count, data_cnt, first, frame_ended, crc_accum, crc_saved>>

\* An underrun drives tx_er, and gives the frame up after StallMax more cycles.
Underrun ==
  /\ state = "DATA" /\ ~frame_ended /\ ~first.have /\ ~src.valid
  /\ Drive(Symbol("none", 0), TRUE)
  /\ tready' = FALSE
  /\ stall_cnt' = stall_cnt + 1
  /\ state' = IF stall_cnt >= StallMax THEN "IFG" ELSE "DATA"
  /\ count' = IF stall_cnt >= StallMax THEN 0 ELSE count
  /\ UNCHANGED <<data_cnt, first, frame_ended, crc_accum, crc_saved>>

Pad ==
  /\ state = "PAD"
  /\ Drive(Symbol("pad", 0), FALSE)
  /\ crc_accum' = crc_accum + 1
  /\ data_cnt' = data_cnt + 1
  /\ IF data_cnt >= MinFrame - 1
     THEN state' = "CRC" /\ count' = 0 /\ crc_saved' = crc_accum + 1
     ELSE UNCHANGED <<state, count, crc_saved>>
  /\ tready' = FALSE /\ stall_cnt' = 0
  /\ UNCHANGED <<first, frame_ended>>

Crc ==
  /\ state = "CRC"
  /\ Drive(Symbol("crc", crc_saved), FALSE)
  /\ state' = IF count = 3 THEN "IFG" ELSE "CRC"
  /\ count' = IF count = 3 THEN 0 ELSE count + 1
  /\ tready' = FALSE /\ stall_cnt' = 0
  /\ UNCHANGED <<data_cnt, first, frame_ended, crc_accum, crc_saved>>

\* Mutant: the gap is counted one cycle short.
IfgShort ==
  /\ state = "IFG"
  /\ Silent
  /\ count' = count + 1
  /\ state' = IF count + 1 >= IfgBytes - 3 THEN "IDLE" ELSE "IFG"
  /\ tready' = FALSE /\ stall_cnt' = 0
  /\ UNCHANGED <<data_cnt, first, frame_ended, crc_accum, crc_saved>>

\* TX_EN stays low for two more cycles in S_IDLE, which the count allows for.
Ifg ==
  /\ state = "IFG"
  /\ Silent
  /\ count' = count + 1
  /\ state' = IF count >= IfgBytes - 3 THEN "IDLE" ELSE "IFG"
  /\ tready' = FALSE /\ stall_cnt' = 0
  /\ UNCHANGED <<data_cnt, first, frame_ended, crc_accum, crc_saved>>

-----------------------------------------------------------------------------
\* The source keeps an offered byte until it is accepted.
Source(valid, last, bubble) ==
  LET pos == IF ~Handshake THEN src.pos
             ELSE IF src.last THEN 0 ELSE src.pos + 1
  IN  IF src.valid /\ ~tready
      THEN valid /\ ~bubble /\ last = src.last /\ UNCHANGED src
      ELSE /\ pos > 0 => valid = ~bubble
           /\ pos = 0 => ~bubble
           /\ last => valid
           /\ (valid /\ pos = MaxLen - 1) => last
           /\ src' = [valid |-> valid, last |-> last, pos |-> pos]

\* What is on the line joins the frame's history (the filler of an underrun shows
\* in er_seen); the gap counts idle cycles.
Observe ==
  /\ wire' = IF ~gmii'.en THEN << >>
             ELSE IF gmii'.sym = Quiet THEN wire ELSE Append(wire, gmii'.sym)
  /\ gap' = IF gmii'.en THEN 0 ELSE IF gap < IfgBytes THEN gap + 1 ELSE gap
  /\ taken' = IF wire # << >> /\ ~gmii'.en THEN 0
              ELSE IF Handshake THEN taken + 1 ELSE taken
  /\ er_seen' = (gmii'.en /\ (er_seen \/ gmii'.er))
  /\ cut' = IF wire # << >> /\ ~gmii'.en THEN er_seen ELSE cut

Step(tx_start_ok) ==
  \/ Idle(tx_start_ok) \/ Preamble \/ Sfd
  \/ DataEnd \/ DataByte \/ Underrun
  \/ Pad \/ Crc \/ Ifg

Edge(tx_start_ok) ==
  /\ Step(tx_start_ok)
  /\ \E valid, last \in BOOLEAN, bubble \in Bubbles : Source(valid, last, bubble)
  /\ Observe

Next == \E tx_start_ok \in BOOLEAN : Edge(tx_start_ok)

Spec == Init /\ [][Next]_vars

\* The clock runs.
LiveSpec == Spec /\ WF_vars(Next)
-----------------------------------------------------------------------------
States == {"IDLE", "PREAMBLE", "SFD", "DATA", "PAD", "CRC", "IFG"}

Maximum(a, b) == IF a > b THEN a ELSE b

\* What n bytes of a source frame from position k on, its last among them, become.
Framed(k, n) ==
  LET body == Maximum(n, MinFrame)
  IN  [i \in 1 .. PreambleLen |-> Symbol("pre", 0)]
        \o <<Symbol("sfd", 0)>>
        \o [i \in 1 .. n |-> Symbol("data", k + i - 1)]
        \o [i \in 1 .. body - n |-> Symbol("pad", 0)]
        \o [i \in 1 .. 4 |-> Symbol("crc", body)]

DataOnWire == {i \in 1 .. Len(wire) : wire[i].kind = "data"}

\* A frame that leaves the line without tx_er is one source frame, whole and in
\* order: its bytes once each, padding up to the minimum, and an FCS over all of
\* these, also when tx_start_ok falls as its first byte is accepted; and at every
\* moment before, what was taken since the last frame is what was sent, and at
\* most the byte in `first'.  Only after a frame that did show tx_er may it be
\* the rest of a source frame: S_IDLE takes what the source offers after an abort
\* for a new frame.
WireFrameExact ==
  ~er_seen =>
    /\ taken = Cardinality(DataOnWire) + (IF first.have THEN 1 ELSE 0)
    /\ (wire # << >> /\ state = "IFG") =>
         \E k \in 0 .. MaxLen - 1, n \in 1 .. MaxLen :
            wire = Framed(k, n) /\ taken = n /\ (k > 0 => cut)

\* "makes the gap exactly IFG_BYTES between back-to-back frames": never less.
GapKept == [][~gmii.en /\ gmii'.en => gap = IfgBytes]_vars

\* Whatever the source does, the transmitter comes back for the next frame.
FrameEnds == state = "DATA" ~> state = "IFG"
=============================================================================
