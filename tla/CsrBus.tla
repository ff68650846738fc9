------------------------------- MODULE CsrBus -------------------------------
(***************************************************************************)
(* The register bus as the boards build it: two AXI4-Lite masters, the     *)
(* arbiter of rtl/axil_arb2.v (or none), the registers of                  *)
(* rtl/axilite_regs.v, the MDIO busy flag of rtl/eth_mac_sys.v and the     *)
(* MDIO master.  One step is one clock edge of everything.                 *)
(*                                                                         *)
(* Master 0 is a processor that reads PHY registers with the drivers' MDIO *)
(* sequence, one access at a time.  Master 1 is the JTAG bridge, which     *)
(* writes and reads any register at any time, a write and a read at once.  *)
(* A PHY register's content stands for its own number.                     *)
(***************************************************************************)
EXTENDS AxilArb2, AxiliteRegs, Sequences

CONSTANTS PhyRegs,        \* the PHY registers master 0 reads (sets of bits)
          BridgeWrites,   \* bound: the writes master 1 may issue
          BridgeReads,    \* bound: the addresses master 1 may read
          Events          \* bound: the IRQ events the MAC may raise

ASSUME CsrBusAssumption ==
  /\ \A r \in PhyRegs : r \subseteq 0 .. 4
  /\ BridgeWrites \subseteq [addr : Addresses, data : SUBSET (0 .. 31),
                              strb : SUBSET (0 .. 3)]
  /\ BridgeReads \subseteq Addresses
  /\ Events \subseteq {0, 1}

VARIABLES
  wr, rd,        \* every master's write and read
  call,          \* master 0's MDIO call: where it is, its command, its result
  mdio_busy_r,
  mdio,          \* the MDIO master: running, latched command, cmd_rdata, cmd_done
  performed,     \* history: writes executed and not yet answered
  sampled,       \* history: the address of the last read the slave took
  owed,          \* history: events raised and not yet acknowledged
  intruded,      \* history: master 1 wrote MDIO_CMD during master 0's call
  overtaken      \* history: answers to master 1 since master 0's request

regs == <<wchan, rchan>>
vars == <<arb, regs, wr, rd, call, mdio_busy_r, mdio, performed, sampled, owed,
          intruded, overtaken>>

-----------------------------------------------------------------------------
Item(addr, data, strb) == [addr |-> addr, data |-> data, strb |-> strb]

\* A channel of a request: none, later (not offered yet), valid, done (taken).
NoWrite == [aw |-> "none", w |-> "none", item |-> Item("VERSION", {}, {})]
NoRead  == [ar |-> "none", addr |-> "VERSION"]
NoCall  == [at |-> "idle", cmd |-> {}, value |-> {}]

Init ==
  /\ ArbInit /\ RegsInit
  /\ wr = [m \in Masters |-> NoWrite] /\ rd = [m \in Masters |-> NoRead]
  /\ call = NoCall
  /\ mdio_busy_r = FALSE
  /\ mdio = [run |-> FALSE, cmd |-> {}, rdata |-> {}, done |-> FALSE]
  /\ performed = << >> /\ sampled = "VERSION" /\ owed = {}
  /\ intruded = FALSE /\ overtaken = [w |-> 0, r |-> 0]

-----------------------------------------------------------------------------
(* The masters' channels. *)

BHandshake(m, bready) == s_axi_bvalid /\ bready /\ WGrant(m)
RHandshake(m, rready) == s_axi_rvalid /\ rready /\ RGrant(m)

Advance(channel, taken, late) ==
  CASE channel = "valid" /\ taken -> "done"
    [] channel = "later" /\ late  -> "valid"
    [] OTHER                      -> channel

\* A write's address and data are offered together or one after the other.
Opened(item) ==
  {[aw |-> "valid", w |-> "valid", item |-> item],
   [aw |-> "valid", w |-> "later", item |-> item],
   [aw |-> "later", w |-> "valid", item |-> item]}

\* What m's write, or its read, may be after the edge.  items, or addrs, is
\* what m may start.
NextWrites(m, bready, late, items) ==
  IF wr[m].aw = "none" \/ BHandshake(m, bready)
  THEN {NoWrite} \cup UNION {Opened(i) : i \in items}
  ELSE {[wr[m] EXCEPT !.aw = Advance(@, WGrant(m) /\ aw_ready_r, late),
                      !.w  = Advance(@, WGrant(m) /\ w_ready_r, late)]}

NextReads(m, rready, addrs) ==
  IF rd[m].ar = "none" \/ RHandshake(m, rready)
  THEN {NoRead} \cup {[ar |-> "valid", addr |-> a] : a \in addrs}
  ELSE {[rd[m] EXCEPT !.ar = Advance(@, RGrant(m) /\ s_axi_arready, FALSE)]}

-----------------------------------------------------------------------------
(* Master 0: emz_mdio_read.  Wait until the MDIO master is not busy, write *)
(* the command with GO, wait again, read the result.  A wait that finds    *)
(* the master busy polls again or gives up.                                *)

\* The access the call c wants next.
CallWrites(c) == IF c.at = "go" THEN {Item("MDIO_CMD", c.cmd \cup {11}, 0 .. 3)} ELSE {}

CallReads(c) == CASE c.at \in {"wait", "poll"} -> {"STATUS"}
                  [] c.at = "rdata"            -> {"MDIO_RDATA"}
                  [] OTHER                     -> {}

\* b, r: master 0's write, its read, was answered.
NextCalls(b, r) ==
  LET busy == 2 \in s_axi_rdata IN
  CASE call.at = "idle"      -> {call} \cup {[NoCall EXCEPT !.at = "wait", !.cmd = c] :
                                               c \in PhyRegs}
    [] call.at = "wait" /\ r -> IF busy THEN {call, NoCall}
                                ELSE {[call EXCEPT !.at = "go"]}
    [] call.at = "go" /\ b   -> {[call EXCEPT !.at = "poll"]}
    [] call.at = "poll" /\ r -> IF busy THEN {call, NoCall}
                                ELSE {[call EXCEPT !.at = "rdata"]}
    [] call.at = "rdata" /\ r -> {[call EXCEPT !.at = "got", !.value = s_axi_rdata]}
    [] call.at = "got"       -> {NoCall}
    [] OTHER                 -> {call}

-----------------------------------------------------------------------------
(* The MDIO side. *)

mdio_go == "mdio_go" \in pulse

\* Mutant: the flag follows the MDIO master instead of GO.
MdioBusyLate == mdio_busy_r' = (mdio.run /\ ~mdio.done)

MdioBusy == mdio_busy_r' = (mdio_go \/ (mdio_busy_r /\ ~mdio.done))

\* mdio_master.v, its bit-level frame abstracted to how long it takes.  A
\* write leaves cmd_rdata alone.
MdioMaster(finish) ==
  mdio' = IF ~mdio.run
          THEN [mdio EXCEPT !.run = mdio_go, !.done = FALSE,
                            !.cmd = IF mdio_go THEN reg.MDIO_CMD ELSE @]
          ELSE IF finish
          THEN [mdio EXCEPT !.run = FALSE, !.done = TRUE,
                            !.rdata = IF 10 \in mdio.cmd THEN @ ELSE mdio.cmd \cap (0 .. 4)]
          ELSE mdio

-----------------------------------------------------------------------------
\* The slave's inputs: the arbiter's muxes.
AwIn == [valid |-> WGrant(WMux) /\ wr[WMux].aw = "valid", addr |-> wr[WMux].item.addr]
WIn  == [valid |-> WGrant(WMux) /\ wr[WMux].w = "valid",
         item  |-> [data |-> wr[WMux].item.data, strb |-> wr[WMux].item.strb]]
ArIn == [valid |-> RGrant(RMux) /\ rd[RMux].ar = "valid", addr |-> rd[RMux].addr]

History(b, r, events) ==
  /\ performed' = IF wr_fire
                  THEN Append(performed, Item(aw_addr, w_item.data, w_item.strb))
                  ELSE IF b THEN << >> ELSE performed
  /\ sampled' = IF ReadTakes(ArIn) THEN ArIn.addr ELSE sampled
  /\ owed' = (owed \cup events) \
               (IF Writes("IRQ_STATUS") THEN w_item.data ELSE {})
  /\ intruded' = /\ call.at # "idle"
                 /\ intruded \/ (Writes("MDIO_CMD") /\ WMux = 1)
  /\ overtaken' =
       [w |-> IF wr[0].aw # "valid" THEN 0
              ELSE IF b /\ WMux = 1 /\ overtaken.w < 2 THEN overtaken.w + 1 ELSE overtaken.w,
        r |-> IF rd[0].ar # "valid" THEN 0
              ELSE IF r /\ RMux = 1 /\ overtaken.r < 2 THEN overtaken.r + 1 ELSE overtaken.r]

\* Counters and MAC activity read as 0 here.
Edge(bready, rready, late, finish, evt) ==
  LET b == \E m \in Masters : BHandshake(m, bready)
      r == \E m \in Masters : RHandshake(m, rready)
      events == evt \cup {e \in {2} : mdio.done} IN
  /\ ArbStep({m \in Masters : wr[m].aw = "valid"}, b,
             {m \in Masters : rd[m].ar = "valid"}, r)
  /\ WriteStep(AwIn, WIn, b, events, mdio_busy_r)
  /\ ReadStep(ArIn, r, ReadValue(ArIn.addr, {}, mdio_busy_r, mdio.rdata, {}))
  /\ \E c \in NextCalls(BHandshake(0, bready), RHandshake(0, rready)),
        w1 \in IF arbitrated THEN NextWrites(1, bready, late, BridgeWrites)
               ELSE {NoWrite},
        r1 \in IF arbitrated THEN NextReads(1, rready, BridgeReads)
               ELSE {NoRead} :
     \E w0 \in NextWrites(0, bready, late, CallWrites(c)),
        r0 \in NextReads(0, rready, CallReads(c)) :
       /\ call' = c
       /\ wr' = [m \in Masters |-> IF m = 0 THEN w0 ELSE w1]
       /\ rd' = [m \in Masters |-> IF m = 0 THEN r0 ELSE r1]
  /\ MdioBusy
  /\ MdioMaster(finish)
  /\ History(b, r, events)

\* An input is left open only where the edge looks at it.
Open(seen) == IF seen THEN BOOLEAN ELSE {TRUE}

Next ==
  \E bready \in Open(s_axi_bvalid), rready \in Open(s_axi_rvalid),
     late   \in Open(\E m \in Masters : "later" \in {wr[m].aw, wr[m].w}),
     finish \in Open(mdio.run), evt \in SUBSET Events :
       Edge(bready, rready, late, finish, evt)

Spec == Init /\ [][Next]_vars

-----------------------------------------------------------------------------
\* A response on B is for the write of the master that gets it: that write,
\* with its own address, data and strobes, has been executed, and exactly once;
\* no other write has been executed unanswered (axilite_regs.v: AW and W latched
\* independently; axil_arb2.v: the muxes behind a registered grant).
EachWriteOnce ==
  IF s_axi_bvalid
  THEN \E m \in Masters : WGrant(m) /\ performed = <<wr[m].item>>
  ELSE performed = << >>

\* A read answer is for the master that gets it: it is waiting, and the slave
\* sampled the address it asked for.
ReadAnswersItsReader ==
  s_axi_rvalid => \E m \in Masters : /\ RGrant(m) /\ rd[m].ar # "none"
                                     /\ rd[m].addr = sampled

\* Every access is executed once and answered to the master that made it.
EachAccessAnswered == EachWriteOnce /\ ReadAnswersItsReader

\* What an MDIO read returns is the answer to its own command, not an earlier
\* one, unless the other master wrote MDIO_CMD in the meantime: from the moment
\* the GO is acknowledged until the transaction has ended, no poll of STATUS finds
\* the MDIO master idle, and a transaction that was running when the call began is
\* waited for.
MdioReadsOwnResult == call.at = "got" /\ ~intruded => call.value = call.cmd

\* A GO the registers accepted always starts a transaction: mdio_go never
\* pulses while the MDIO master, which would ignore it, still runs.
GoNeverLost == mdio_go => ~mdio.run

\* Whatever the bridge does on the bus, the processor waits for at most the one
\* bridge access that was granted before its own request: every grant is released
\* with the response, and the priority is master 0's ("master 0 wins ties").
ProcessorWaitsOnce == overtaken.w <= 1 /\ overtaken.r <= 1

\* An IRQ event stays latched in IRQ_STATUS until software writes a 1 to its
\* bit ("write-1-to-clear", README.md).
EventsStayLatched == owed \subseteq reg_irq_status
=============================================================================
