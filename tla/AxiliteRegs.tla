----------------------------- MODULE AxiliteRegs ----------------------------
(***************************************************************************)
(* rtl/axilite_regs.v: the AXI4-Lite slave with the MAC's registers.       *)
(* A register's value is the set of its bits that are 1, a strobe the set  *)
(* of byte lanes written.  Every operator describes one clock edge of the  *)
(* write channel (WriteStep) or of the read channel (ReadStep).            *)
(***************************************************************************)
EXTENDS Naturals

CONSTANT MCAST_HASH_FILTER

ASSUME RegsAssumption == MCAST_HASH_FILTER \in BOOLEAN

VARIABLES
  aw_ready_r, w_ready_r, aw_latched, w_latched,
  aw_addr, w_item,            \* latched address; latched data and strobes
  s_axi_bvalid,
  reg,                        \* the RW registers
  reg_irq_status, mdio_cmd_dropped,
  pulse,                      \* the self-clearing outputs that are 1
  s_axi_arready, s_axi_rvalid, s_axi_rdata

wchan == <<aw_ready_r, w_ready_r, aw_latched, w_latched, aw_addr, w_item,
           s_axi_bvalid, reg, reg_irq_status, mdio_cmd_dropped, pulse>>
rchan == <<s_axi_arready, s_axi_rvalid, s_axi_rdata>>

\* The stored bits of every RW register.
Mask ==
  [CTRL |-> 0 .. 9, MAC_LO |-> 0 .. 31, MAC_HI |-> 0 .. 15,
   IP_ADDR |-> 0 .. 31, MDIO_CMD |-> (0 .. 14) \ {11}, MDIO_WDATA |-> 0 .. 15,
   IRQ_EN |-> 0 .. 2, SCRATCH |-> 0 .. 31,
   MCAST_LO |-> IF MCAST_HASH_FILTER THEN 0 .. 31 ELSE {},
   MCAST_HI |-> IF MCAST_HASH_FILTER THEN 0 .. 31 ELSE {},
   PAUSE_CTRL |-> {1}, PAUSE_QUANTA |-> 0 .. 15]

RW == DOMAIN Mask

TxCounters == {"TX_FRAME", "TX_BYTE"}
RxCounters ==
  {"RX_FRAME", "RX_BYTE", "RX_ERR", "RX_ERR_ALIGN", "RX_ERR_OVERFLOW",
   "RX_ERR_OVERSIZE", "RX_BCAST", "RX_MCAST", "RX_SIZE_64", "RX_SIZE_65_127",
   "RX_SIZE_128_255", "RX_SIZE_256_511", "RX_SIZE_512_1023",
   "RX_SIZE_1024_1518", "RX_SIZE_JUMBO", "RX_DROP", "RX_ERR_CSUM"}
PauseCounters == {"PAUSE_RX_CNT", "PAUSE_TX_CNT"}
ReadOnly == {"VERSION", "STATUS", "MDIO_RDATA", "SAF_DBG", "CAPS", "unmapped"}

Addresses ==
  RW \cup TxCounters \cup RxCounters \cup PauseCounters \cup ReadOnly
     \cup {"IRQ_STATUS"}

Pulses == {"mdio_go", "stat_clr_tx", "stat_clr_rx", "stat_clr_pause",
           "cfg_pause_tx_send"}

NoItem == [data |-> {}, strb |-> {}]

\* Reset, with TXRX_EN_AT_RESET at its default; IP_ADDR is 192.168.137.200.
RegsInit ==
  /\ aw_ready_r = TRUE /\ w_ready_r = TRUE
  /\ aw_latched = FALSE /\ w_latched = FALSE
  /\ aw_addr = "VERSION" /\ w_item = NoItem
  /\ s_axi_bvalid = FALSE
  /\ reg = [[a \in RW |-> {}] EXCEPT !.CTRL = {0, 1, 5}, !.MAC_LO = {0},
          !.MAC_HI = {9}, !.IP_ADDR = {31, 30, 23, 21, 19, 15, 11, 8, 7, 6, 3}]
  /\ reg_irq_status = {} /\ mdio_cmd_dropped = FALSE /\ pulse = {}
  /\ s_axi_arready = FALSE /\ s_axi_rvalid = FALSE /\ s_axi_rdata = {}

\* Byte lane of a bit.
strb_merge(old_val, new_val, strb) ==
  {b \in old_val : b \div 8 \notin strb} \cup {b \in new_val : b \div 8 \in strb}

\* The write that executes at this edge, if any.
wr_fire    == aw_latched /\ w_latched /\ ~s_axi_bvalid
Writes(a)  == wr_fire /\ aw_addr = a
mdio_start == Writes("MDIO_CMD") /\ 1 \in w_item.strb /\ 11 \in w_item.data

\* Mutant: GO starts a transaction whether or not one is running.
GoUnchecked(mdio_busy) == mdio_start

Go(mdio_busy) == mdio_start /\ ~mdio_busy

WritePulses(mdio_busy) ==
  {p \in Pulses :
     CASE p = "mdio_go"           -> Go(mdio_busy)
       [] p = "stat_clr_tx"       -> wr_fire /\ aw_addr \in TxCounters
       [] p = "stat_clr_rx"       -> wr_fire /\ aw_addr \in RxCounters
       [] p = "stat_clr_pause"    -> wr_fire /\ aw_addr \in PauseCounters
       [] p = "cfg_pause_tx_send" -> /\ Writes("PAUSE_CTRL")
                                     /\ 0 \in w_item.strb /\ 0 \in w_item.data}

RegisterFile ==
  reg' = IF wr_fire /\ aw_addr \in RW
         THEN [reg EXCEPT ![aw_addr] =
                 strb_merge(@, w_item.data, w_item.strb) \cap Mask[aw_addr]]
         ELSE reg

\* The write of IRQ_STATUS is the last assignment of the always block: it is
\* computed from the register, without the events of its own cycle, and it
\* does not look at the strobes.
IrqStatus(events) ==
  reg_irq_status' = IF Writes("IRQ_STATUS") THEN reg_irq_status \ w_item.data
                    ELSE reg_irq_status \cup events

\* Mutant: a write executes as soon as its address is there, with the data
\* register as it happens to be.
HandshakesAddressOnly(aw, wd, bready) ==
  LET aw_take == aw.valid /\ aw_ready_r
      w_take  == wd.valid /\ w_ready_r
      b_done  == s_axi_bvalid /\ bready IN
  /\ aw_addr' = IF aw_take THEN aw.addr ELSE aw_addr
  /\ w_item'  = IF w_take THEN wd.item ELSE w_item
  /\ aw_latched' = (aw_take \/ (aw_latched /\ ~wr_fire))
  /\ w_latched'  = (aw_take \/ (w_latched /\ ~wr_fire))
  /\ s_axi_bvalid' = (wr_fire \/ (s_axi_bvalid /\ ~bready))
  /\ aw_ready_r' = (b_done \/ (aw_ready_r /\ ~aw_take))
  /\ w_ready_r'  = (b_done \/ (w_ready_r /\ ~w_take))

\* AW, W and B.  aw_ready_r and w_ready_r return with the B handshake.
Handshakes(aw, wd, bready) ==
  LET aw_take == aw.valid /\ aw_ready_r
      w_take  == wd.valid /\ w_ready_r
      b_done  == s_axi_bvalid /\ bready IN
  /\ aw_addr' = IF aw_take THEN aw.addr ELSE aw_addr
  /\ w_item'  = IF w_take THEN wd.item ELSE w_item
  /\ aw_latched' = (aw_take \/ (aw_latched /\ ~wr_fire))
  /\ w_latched'  = (w_take \/ (w_latched /\ ~wr_fire))
  /\ s_axi_bvalid' = (wr_fire \/ (s_axi_bvalid /\ ~bready))
  /\ aw_ready_r' = (b_done \/ (aw_ready_r /\ ~aw_take))
  /\ w_ready_r'  = (b_done \/ (w_ready_r /\ ~w_take))

WriteStep(aw, wd, bready, events, mdio_busy) ==
  /\ Handshakes(aw, wd, bready)
  /\ RegisterFile
  /\ IrqStatus(events)
  /\ pulse' = WritePulses(mdio_busy)
  /\ mdio_cmd_dropped' = IF mdio_start THEN mdio_busy ELSE mdio_cmd_dropped

\* status: the MAC's activity bits 0 and 1; external: what a counter or a
\* build constant reads as.
ReadValue(addr, status, mdio_busy, mdio_rdata, external) ==
  CASE addr \in RW         -> reg[addr]
    [] addr = "STATUS"     -> status \cup {b \in {2} : mdio_busy}
                                     \cup {b \in {3} : mdio_cmd_dropped}
    [] addr = "MDIO_RDATA" -> mdio_rdata
    [] addr = "IRQ_STATUS" -> reg_irq_status
    [] addr = "unmapped"   -> {}
    [] OTHER               -> external

ReadTakes(ar) == ar.valid /\ ~s_axi_rvalid /\ ~s_axi_arready

ReadStep(ar, rready, value) ==
  /\ s_axi_arready' = ReadTakes(ar)
  /\ s_axi_rvalid' = (~(s_axi_rvalid /\ rready) /\ (ReadTakes(ar) \/ s_axi_rvalid))
  /\ s_axi_rdata' = IF ReadTakes(ar) THEN value ELSE s_axi_rdata
=============================================================================
