---------------------------- MODULE CsrBusProofs ----------------------------
(***************************************************************************)
(* For every set of bridge accesses and PHY registers, with or without the *)
(* arbiter: a GO the registers accept always starts a transaction; every   *)
(* access is executed once and answered to its own master; the processor   *)
(* waits for at most one bridge access; an undisturbed MDIO read returns   *)
(* the answer to its own command.                                          *)
(*                                                                         *)
(* GoNeverLost: the busy flag covers the MDIO master's run only from the   *)
(* cycle after GO, so the property is not inductive: what closes that      *)
(* cycle is that the pulse comes with the write's response, and no second  *)
(* write executes under it.                                                *)
(***************************************************************************)
EXTENDS CsrBus, TLAPS

GoInv ==
  /\ mdio_go => s_axi_bvalid /\ ~mdio.run
  /\ mdio.run => mdio_busy_r /\ ~mdio.done

MdioShape ==
  /\ mdio = [run |-> mdio.run, cmd |-> mdio.cmd, rdata |-> mdio.rdata, done |-> mdio.done]
  /\ mdio.run \in BOOLEAN /\ mdio.done \in BOOLEAN

\* The MDIO master after an edge, field by field.
LEMMA MdioAfter ==
  ASSUME MdioShape, NEW finish \in BOOLEAN, MdioMaster(finish)
  PROVE  /\ MdioShape'
         /\ mdio'.run = (IF mdio.run THEN ~finish ELSE mdio_go)
         /\ mdio'.done = (IF mdio.run THEN finish \/ mdio.done ELSE FALSE)
         /\ mdio'.cmd = (IF ~mdio.run /\ mdio_go THEN reg.MDIO_CMD ELSE mdio.cmd)
         /\ mdio'.rdata = (IF mdio.run /\ finish /\ 10 \notin mdio.cmd
                           THEN mdio.cmd \cap (0 .. 4) ELSE mdio.rdata)
<1>1. CASE ~mdio.run
  <2>1. mdio' = [run |-> mdio_go, cmd |-> IF mdio_go THEN reg.MDIO_CMD ELSE mdio.cmd,
                 rdata |-> mdio.rdata, done |-> FALSE]
    BY <1>1 DEF MdioMaster, MdioShape
  <2> QED  BY <1>1, <2>1 DEF MdioShape, mdio_go
<1>2. CASE mdio.run /\ finish
  <2>1. mdio' = [run |-> FALSE, cmd |-> mdio.cmd,
                 rdata |-> IF 10 \in mdio.cmd THEN mdio.rdata ELSE mdio.cmd \cap (0 .. 4),
                 done |-> TRUE]
    BY <1>2 DEF MdioMaster, MdioShape
  <2> QED  BY <1>2, <2>1 DEF MdioShape
<1>3. CASE mdio.run /\ ~finish
  BY <1>3 DEF MdioMaster, MdioShape
<1> QED  BY <1>1, <1>2, <1>3 DEF MdioShape

\* A pulse of mdio_go follows an accepted GO: the write executed, so no response
\* was pending, and the busy flag was clear.
LEMMA GoAfter ==
  ASSUME NEW aw, NEW wd, NEW bready, NEW events,
         WriteStep(aw, wd, bready, events, mdio_busy_r), mdio_go'
  PROVE  s_axi_bvalid' /\ ~s_axi_bvalid /\ ~mdio_busy_r
<1>1. Go(mdio_busy_r)
  BY DEF WriteStep, WritePulses, mdio_go
<1> QED  BY <1>1 DEF Go, mdio_start, Writes, wr_fire, WriteStep, Handshakes

\* The next edge keeps the invariant of the GO pulse.
LEMMA GoInvStep ==
  ASSUME GoInv, MdioShape, Next
  PROVE  GoInv' /\ MdioShape'
<1>1. PICK bready, rready, late, finish \in BOOLEAN, evt \in SUBSET Events :
        Edge(bready, rready, late, finish, evt)
  BY DEF Next, Open
<1>2. MdioBusy /\ MdioMaster(finish)
  BY <1>1 DEF Edge
<1>3. PICK b, events : WriteStep(AwIn, WIn, b, events, mdio_busy_r)
  BY <1>1 DEF Edge
<1>4. /\ MdioShape'
      /\ mdio'.run = (IF mdio.run THEN ~finish ELSE mdio_go)
      /\ mdio'.done = (IF mdio.run THEN finish \/ mdio.done ELSE FALSE)
  BY <1>2, MdioAfter
<1>5. mdio_go' => s_axi_bvalid' /\ ~mdio'.run
  <2>1. SUFFICES ASSUME mdio_go' PROVE s_axi_bvalid' /\ ~mdio'.run
    OBVIOUS
  <2>2. s_axi_bvalid' /\ ~s_axi_bvalid /\ ~mdio_busy_r
    BY <2>1, <1>3, GoAfter
  <2>3. ~mdio_go /\ ~mdio.run
    BY <2>2 DEF GoInv
  <2> QED  BY <2>2, <2>3, <1>4
<1>6. mdio'.run => mdio_busy_r' /\ ~mdio'.done
  BY <1>2, <1>4 DEF MdioBusy, GoInv, MdioShape
<1> QED  BY <1>4, <1>5, <1>6 DEF GoInv

\* A GO the registers accepted is never lost (axilite_regs.v: MDIO_CMD;
\* eth_mac_sys.v: mdio_busy_r; mdio_master.v: S_IDLE), for every workload.
THEOREM GoAlwaysStarts == Spec => []GoNeverLost
<1>1. Init => GoInv /\ MdioShape
  BY DEF Init, RegsInit, GoInv, MdioShape, mdio_go
<1>2. GoInv /\ MdioShape /\ [Next]_vars => (GoInv /\ MdioShape)'
  <2>1. CASE Next
    BY <2>1, GoInvStep
  <2>2. CASE UNCHANGED vars
    BY <2>2 DEF vars, regs, wchan, GoInv, MdioShape, mdio_go
  <2> QED  BY <2>1, <2>2
<1>3. GoInv => GoNeverLost
  BY DEF GoInv, GoNeverLost
<1> QED  BY <1>1, <1>2, <1>3, PTL DEF Spec

-----------------------------------------------------------------------------
(***************************************************************************)
(* The write channel.  A write is done, on AW or on W, only while its      *)
(* master holds the grant; the slave's ready and latched flags then say    *)
(* exactly which of the two it has taken, and its latches hold that        *)
(* master's own address and data.                                          *)
(***************************************************************************)
Channel == {"none", "later", "valid", "done"}
Items   == [addr : Addresses, data : SUBSET (0 .. 31), strb : SUBSET (0 .. 3)]
Write   == [aw : Channel, w : Channel, item : Items]

WriteTypes ==
  /\ arbitrated \in BOOLEAN /\ w_busy \in BOOLEAN /\ w_sel \in {0, 1}
  /\ wr = [m \in Masters |-> wr[m]]
  /\ \A m \in Masters : wr[m] \in Write
  /\ aw_ready_r \in BOOLEAN /\ w_ready_r \in BOOLEAN
  /\ aw_latched \in BOOLEAN /\ w_latched \in BOOLEAN /\ s_axi_bvalid \in BOOLEAN

\* A master without the grant has nothing taken.
Waiting(m) ==
  /\ wr[m].aw # "done" /\ wr[m].w # "done"
  /\ (wr[m].aw = "none") = (wr[m].w = "none")

\* The master with the grant: what the slave has taken of its write.
Taken(m) ==
  /\ (wr[m].aw = "none") = (wr[m].w = "none")
  /\ arbitrated => wr[m].aw \in {"valid", "done"}
  /\ aw_ready_r = (wr[m].aw # "done") /\ w_ready_r = (wr[m].w # "done")
  /\ aw_latched = (wr[m].aw = "done" /\ ~s_axi_bvalid)
  /\ w_latched = (wr[m].w = "done" /\ ~s_axi_bvalid)
  /\ aw_latched => aw_addr = wr[m].item.addr
  /\ w_latched => w_item = [data |-> wr[m].item.data, strb |-> wr[m].item.strb]
  /\ s_axi_bvalid => /\ wr[m].aw = "done" /\ wr[m].w = "done"
                     /\ performed = <<wr[m].item>>

WriteIdle ==
  aw_ready_r /\ w_ready_r /\ ~aw_latched /\ ~w_latched /\ ~s_axi_bvalid

WriteInv ==
  /\ \A m \in Masters : IF WGrant(m) THEN Taken(m) ELSE Waiting(m)
  /\ (\A m \in Masters : ~WGrant(m)) => WriteIdle
  /\ ~s_axi_bvalid => performed = << >>

\* What a master's write may be after an edge: a fresh one, of which nothing is
\* taken, or the same one with its channels advanced.
LEMMA NextWriteShape ==
  ASSUME NEW m \in Masters, wr[m] \in Write, NEW bready, NEW late,
         NEW items \in SUBSET Items, NEW w \in NextWrites(m, bready, late, items)
  PROVE  /\ w \in Write
         /\ wr[m].aw = "none" \/ BHandshake(m, bready) =>
              /\ w.aw # "done" /\ w.w # "done"
              /\ (w.aw = "none") = (w.w = "none")
              /\ w.aw # "none" => w.item \in items
         /\ ~(wr[m].aw = "none" \/ BHandshake(m, bready)) =>
              /\ w.item = wr[m].item
              /\ w.aw = Advance(wr[m].aw, WGrant(m) /\ aw_ready_r, late)
              /\ w.w = Advance(wr[m].w, WGrant(m) /\ w_ready_r, late)
<1>1. CASE wr[m].aw = "none" \/ BHandshake(m, bready)
  <2>1. w = NoWrite \/ \E i \in items : w \in Opened(i)
    BY <1>1 DEF NextWrites
  <2>2. CASE w = NoWrite
    <3>1. Item("VERSION", {}, {}) \in Items
      BY DEF Item, Items, Addresses, ReadOnly
    <3> QED  BY <1>1, <2>2, <3>1 DEF NoWrite, Write, Channel
  <2>3. CASE \E i \in items : w \in Opened(i)
    BY <1>1, <2>3 DEF Opened, Write, Channel
  <2> QED  BY <2>1, <2>2, <2>3
<1>2. CASE ~(wr[m].aw = "none" \/ BHandshake(m, bready))
  <2>1. w = [wr[m] EXCEPT !.aw = Advance(@, WGrant(m) /\ aw_ready_r, late),
                          !.w  = Advance(@, WGrant(m) /\ w_ready_r, late)]
    BY <1>2 DEF NextWrites
  <2>2. \A c \in Channel : \A t, l : Advance(c, t, l) \in Channel
    BY DEF Advance, Channel
  <2>3. wr[m].aw \in Channel /\ wr[m].w \in Channel
    BY DEF Write
  <2> HIDE DEF Advance
  <2>4. /\ Advance(wr[m].aw, WGrant(m) /\ aw_ready_r, late) \in Channel
        /\ Advance(wr[m].w, WGrant(m) /\ w_ready_r, late) \in Channel
    BY <2>2, <2>3
  <2> QED  BY <1>2, <2>1, <2>4 DEF Write
<1> QED  BY <1>1, <1>2

\* A state of master 0's MDIO call.
CallTyped(c) ==
  /\ c = [at |-> c.at, cmd |-> c.cmd, value |-> c.value]
  /\ c.at \in {"idle", "wait", "go", "poll", "rdata", "got"}
  /\ c.cmd \subseteq 0 .. 4

\* Every state a call may move to is one, and keeps the call's command unless
\* the call begins or ends.
LEMMA NextCallTyped ==
  ASSUME CallTyped(call), NEW b, NEW r, NEW c \in NextCalls(b, r)
  PROVE  CallTyped(c)
<1>1. CallTyped(NoCall)
  BY DEF CallTyped, NoCall
<1>2. ASSUME NEW p \in PhyRegs
      PROVE  CallTyped([NoCall EXCEPT !.at = "wait", !.cmd = p])
  <2> DEFINE x == [NoCall EXCEPT !.at = "wait"]
  <2>1. x = [at |-> "wait", cmd |-> {}, value |-> {}]
    BY DEF NoCall
  <2>2. [NoCall EXCEPT !.at = "wait", !.cmd = p] = [x EXCEPT !.cmd = p]
    OBVIOUS
  <2> HIDE DEF x
  <2>3. [x EXCEPT !.cmd = p] = [at |-> "wait", cmd |-> p, value |-> {}]
    BY <2>1
  <2> QED  BY <2>2, <2>3, CsrBusAssumption DEF CallTyped
<1>3. ASSUME NEW a \in {"go", "poll", "rdata"}
      PROVE  CallTyped([call EXCEPT !.at = a])
  <2>1. [call EXCEPT !.at = a] = [at |-> a, cmd |-> call.cmd, value |-> call.value]
    BY DEF CallTyped
  <2> QED  BY <2>1 DEF CallTyped
<1>4. ASSUME NEW v
      PROVE  CallTyped([call EXCEPT !.at = "got", !.value = v])
  <2> DEFINE x == [call EXCEPT !.at = "got"]
  <2>1. x = [at |-> "got", cmd |-> call.cmd, value |-> call.value]
    BY DEF CallTyped
  <2>2. [call EXCEPT !.at = "got", !.value = v] = [x EXCEPT !.value = v]
    OBVIOUS
  <2> HIDE DEF x
  <2>3. [x EXCEPT !.value = v] = [at |-> "got", cmd |-> call.cmd, value |-> v]
    BY <2>1
  <2> QED  BY <2>2, <2>3 DEF CallTyped
<1>5. \/ c = call \/ c = NoCall
      \/ \E p \in PhyRegs : c = [NoCall EXCEPT !.at = "wait", !.cmd = p]
      \/ \E a \in {"go", "poll", "rdata"} : c = [call EXCEPT !.at = a]
      \/ \E v : c = [call EXCEPT !.at = "got", !.value = v]
  BY Zenon DEF NextCalls
<1> QED  BY <1>1, <1>2, <1>3, <1>4, <1>5

\* What a call may write is a register item.
LEMMA CallWritesItems ==
  ASSUME NEW c, CallTyped(c)
  PROVE  CallWrites(c) \in SUBSET Items
<1>1. Item("MDIO_CMD", c.cmd \cup {11}, 0 .. 3) \in Items
  <2>1. "MDIO_CMD" \in Addresses
    BY DEF Addresses, RW, Mask
  <2>2. c.cmd \cup {11} \in SUBSET (0 .. 31)
    BY DEF CallTyped
  <2> QED  BY <2>1, <2>2 DEF Item, Items
<1> QED  BY <1>1 DEF CallWrites

\* One edge seen from the write channel: the masters' writes, the grant, the
\* slave's flags and the record of executed writes.
WriteEdge(bready, late) ==
  LET b == \E m \in Masters : BHandshake(m, bready)
      g == Grant(w_busy, w_sel, {m \in Masters : wr[m].aw = "valid"}, b) IN
  /\ \A m \in Masters : \E items \in SUBSET Items :
       wr'[m] \in NextWrites(m, bready, late, items)
  /\ wr' = [m \in Masters |-> wr'[m]]
  /\ UNCHANGED arbitrated
  /\ w_busy' = g[1] /\ w_sel' = g[2]
  /\ Handshakes(AwIn, WIn, b)
  /\ performed' = IF wr_fire
                  THEN Append(performed, Item(aw_addr, w_item.data, w_item.strb))
                  ELSE IF b THEN << >> ELSE performed

\* What an edge of the whole does to the write direction.
LEMMA WriteEdgeOf ==
  ASSUME CallTyped(call),
         NEW bready \in BOOLEAN, NEW rready \in BOOLEAN, NEW late \in BOOLEAN,
         NEW finish \in BOOLEAN, NEW evt \in SUBSET Events,
         Edge(bready, rready, late, finish, evt)
  PROVE  WriteEdge(bready, late)
<1> DEFINE b == \E m \in Masters : BHandshake(m, bready)
           rr == \E m \in Masters : RHandshake(m, rready)
           awv == {m \in Masters : wr[m].aw = "valid"}
           arv == {m \in Masters : rd[m].ar = "valid"}
<1>2. PICK c, w0, w1 :
        /\ w0 \in NextWrites(0, bready, late, CallWrites(c))
        /\ c \in NextCalls(BHandshake(0, bready), RHandshake(0, rready))
        /\ w1 \in IF arbitrated THEN NextWrites(1, bready, late, BridgeWrites)
                  ELSE {NoWrite}
        /\ wr' = [m \in Masters |-> IF m = 0 THEN w0 ELSE w1]
  BY DEF Edge
<1>3. Masters \subseteq {0, 1} /\ (1 \in Masters => arbitrated) /\ 0 \in Masters
  BY DEF Masters
<1>4. CallWrites(c) \in SUBSET Items /\ BridgeWrites \in SUBSET Items
  BY <1>2, CsrBusAssumption, NextCallTyped, CallWritesItems DEF Items
<1>5. \A m \in Masters : \E items \in SUBSET Items :
        wr'[m] \in NextWrites(m, bready, late, items)
  BY <1>2, <1>3, <1>4
<1>6. wr' = [m \in Masters |-> wr'[m]]
  BY <1>2
<1>7. ArbStep(awv, b, arv, rr)
  BY DEF Edge
<1>8. /\ UNCHANGED arbitrated
      /\ w_busy' = Grant(w_busy, w_sel, awv, b)[1]
      /\ w_sel' = Grant(w_busy, w_sel, awv, b)[2]
  BY <1>7 DEF ArbStep
<1>9. Handshakes(AwIn, WIn, b)
  BY DEF Edge, WriteStep
<1>10. performed' = IF wr_fire
                    THEN Append(performed, Item(aw_addr, w_item.data, w_item.strb))
                    ELSE IF b THEN << >> ELSE performed
  BY DEF Edge, History
<1> QED  BY <1>5, <1>6, <1>8, <1>9, <1>10 DEF WriteEdge

\* A master without the grant keeps waiting through an edge; a valid AW stays.
LEMMA WaitingKept ==
  ASSUME NEW m \in Masters, wr[m] \in Write, Waiting(m), ~WGrant(m),
         NEW bready, NEW late, NEW items \in SUBSET Items,
         wr'[m] \in NextWrites(m, bready, late, items)
  PROVE  /\ wr'[m].aw # "done" /\ wr'[m].w # "done"
         /\ (wr'[m].aw = "none") = (wr'[m].w = "none")
         /\ wr[m].aw = "valid" => wr'[m].aw = "valid"
<1>1. ~BHandshake(m, bready)
  BY DEF BHandshake
<1>2. wr[m].aw \in Channel /\ wr[m].w \in Channel
  BY DEF Write
<1>3. CASE wr[m].aw = "none"
  BY <1>3, NextWriteShape
<1>4. CASE wr[m].aw # "none"
  <2>1. /\ wr'[m].aw = Advance(wr[m].aw, FALSE, late)
        /\ wr'[m].w = Advance(wr[m].w, FALSE, late)
    BY <1>1, <1>4, NextWriteShape DEF Advance
  <2> QED  BY <1>2, <1>4, <2>1 DEF Waiting, Advance, Channel
<1> QED  BY <1>3, <1>4

\* The master with the grant, through an edge that answers its write.
LEMMA TakenAnswered ==
  ASSUME WriteTypes, NEW m \in Masters, WGrant(m), WMux = m, Taken(m), s_axi_bvalid,
         NEW bready, bready = TRUE, NEW late, NEW items \in SUBSET Items,
         wr'[m] \in NextWrites(m, bready, late, items),
         Handshakes(AwIn, WIn, TRUE)
  PROVE  /\ wr'[m].aw # "done" /\ wr'[m].w # "done"
         /\ (wr'[m].aw = "none") = (wr'[m].w = "none")
         /\ WriteIdle'
<1>1. BHandshake(m, bready)
  BY DEF BHandshake
<1>2. wr[m] \in Write
  BY DEF WriteTypes
<1>3. /\ wr'[m].aw # "done" /\ wr'[m].w # "done"
      /\ (wr'[m].aw = "none") = (wr'[m].w = "none")
  BY ONLY <1>1, <1>2, NextWriteShape, m \in Masters, items \in SUBSET Items,
     wr'[m] \in NextWrites(m, bready, late, items)
<1>4. ~aw_ready_r /\ ~w_ready_r /\ ~aw_latched /\ ~w_latched /\ s_axi_bvalid
  BY DEF Taken
<1> QED  BY <1>3, <1>4 DEF Handshakes, WriteIdle, wr_fire

\* The master with the grant, through an edge that does not: the slave takes what
\* it offers, and executes the write once it has taken both halves.
LEMMA TakenKept ==
  ASSUME WriteTypes, NEW m \in Masters, WGrant(m), WMux = m, Taken(m),
         ~s_axi_bvalid => performed = << >>,
         NEW bready, ~(s_axi_bvalid /\ bready), NEW late, NEW items \in SUBSET Items,
         wr'[m] \in NextWrites(m, bready, late, items),
         Handshakes(AwIn, WIn, FALSE), UNCHANGED arbitrated,
         performed' = IF wr_fire
                      THEN Append(performed, Item(aw_addr, w_item.data, w_item.strb))
                      ELSE performed
  PROVE  Taken(m)' /\ (~s_axi_bvalid' => performed' = << >>)
<1>1. ~BHandshake(m, bready)
  BY DEF BHandshake
<1>2. /\ wr[m] \in Write /\ wr[m].aw \in Channel /\ wr[m].w \in Channel
      /\ wr[m].item = Item(wr[m].item.addr, wr[m].item.data, wr[m].item.strb)
  <2>1. wr[m] \in Write
    BY DEF WriteTypes
  <2>2. wr[m].aw \in Channel /\ wr[m].w \in Channel /\ wr[m].item \in Items
    BY <2>1 DEF Write
  <2>3. wr[m].item = Item(wr[m].item.addr, wr[m].item.data, wr[m].item.strb)
    BY <2>2 DEF Items, Item
  <2> QED  BY <2>1, <2>2, <2>3
<1>3. /\ aw_ready_r \in BOOLEAN /\ w_ready_r \in BOOLEAN
      /\ aw_latched \in BOOLEAN /\ w_latched \in BOOLEAN /\ s_axi_bvalid \in BOOLEAN
      /\ arbitrated \in BOOLEAN
  BY DEF WriteTypes
<1> DEFINE awt == wr[m].aw = "valid" /\ aw_ready_r
           wt  == wr[m].w = "valid" /\ w_ready_r
<1>4. /\ aw_addr' = IF awt THEN wr[m].item.addr ELSE aw_addr
      /\ w_item' = IF wt THEN [data |-> wr[m].item.data, strb |-> wr[m].item.strb]
                   ELSE w_item
      /\ aw_latched' = (awt \/ (aw_latched /\ ~wr_fire))
      /\ w_latched' = (wt \/ (w_latched /\ ~wr_fire))
      /\ s_axi_bvalid' = (wr_fire \/ s_axi_bvalid)
      /\ aw_ready_r' = (aw_ready_r /\ ~awt) /\ w_ready_r' = (w_ready_r /\ ~wt)
  <2>1. /\ AwIn = [valid |-> wr[m].aw = "valid", addr |-> wr[m].item.addr]
        /\ WIn = [valid |-> wr[m].w = "valid",
                  item |-> [data |-> wr[m].item.data, strb |-> wr[m].item.strb]]
    BY DEF AwIn, WIn
  <2> QED  BY <1>3, <2>1 DEF Handshakes
<1>5. CASE wr[m].aw = "none"
  <2>1. /\ wr'[m].aw # "done" /\ wr'[m].w # "done"
        /\ (wr'[m].aw = "none") = (wr'[m].w = "none")
    BY <1>2, <1>5, NextWriteShape
  <2> QED  BY <1>3, <1>4, <1>5, <2>1 DEF Taken, wr_fire
<1>6. CASE wr[m].aw # "none"
  <2>1. /\ wr'[m].item = wr[m].item
        /\ wr'[m].aw = Advance(wr[m].aw, aw_ready_r, late)
        /\ wr'[m].w = Advance(wr[m].w, w_ready_r, late)
    BY <1>1, <1>2, <1>6, NextWriteShape DEF Advance
  <2>2. /\ (wr'[m].aw = "done") = (awt \/ wr[m].aw = "done")
        /\ (wr'[m].w = "done") = (wt \/ wr[m].w = "done")
        /\ wr'[m].aw # "none" /\ wr'[m].w # "none"
        /\ arbitrated => wr'[m].aw \in {"valid", "done"}
    BY <1>2, <1>6, <2>1 DEF Taken, Advance, Channel
  <2>3. CASE wr_fire
    <3>1. /\ wr[m].aw = "done" /\ wr[m].w = "done" /\ ~s_axi_bvalid
          /\ aw_addr = wr[m].item.addr
          /\ w_item = [data |-> wr[m].item.data, strb |-> wr[m].item.strb]
      BY <1>3, <2>3 DEF Taken, wr_fire
    <3>2. performed' = <<wr[m].item>>
      BY <1>2, <2>3, <3>1
    <3> QED  BY <1>2, <1>3, <1>4, <2>1, <2>2, <2>3, <3>1, <3>2 DEF Taken, wr_fire
  <2>4. CASE ~wr_fire
    BY <1>2, <1>3, <1>4, <2>1, <2>2, <2>4 DEF Taken, wr_fire
  <2> QED  BY <2>3, <2>4
<1> QED  BY <1>5, <1>6

\* The grant: unique, and what an edge makes of it.
LEMMA GrantUnique ==
  ASSUME WriteTypes, NEW m \in Masters, WGrant(m)
  PROVE  WMux = m /\ \A k \in Masters \ {m} : ~WGrant(k)
BY DEF WriteTypes, WGrant, WMux, Masters

\* An edge of the write direction keeps its invariant.
LEMMA WriteInvStep ==
  ASSUME WriteTypes, WriteInv,
         NEW bready \in BOOLEAN, NEW late \in BOOLEAN, WriteEdge(bready, late)
  PROVE  (WriteTypes /\ WriteInv)'
<1>1. LET b == \E m \in Masters : BHandshake(m, bready)
          g == Grant(w_busy, w_sel, {m \in Masters : wr[m].aw = "valid"}, b) IN
      /\ \A m \in Masters : \E items \in SUBSET Items :
           wr'[m] \in NextWrites(m, bready, late, items)
      /\ wr' = [m \in Masters |-> wr'[m]]
      /\ UNCHANGED arbitrated
      /\ w_busy' = g[1] /\ w_sel' = g[2]
      /\ Handshakes(AwIn, WIn, b)
      /\ performed' = IF wr_fire
                      THEN Append(performed, Item(aw_addr, w_item.data, w_item.strb))
                      ELSE IF b THEN << >> ELSE performed
  BY DEF WriteEdge
<1> DEFINE b == \E m \in Masters : BHandshake(m, bready)
           awv == {m \in Masters : wr[m].aw = "valid"}
<1>2. /\ Masters' = Masters /\ Masters \subseteq {0, 1} /\ 0 \in Masters
      /\ \A m \in Masters : wr[m] \in Write
  BY <1>1 DEF Masters, WriteTypes
<1>3. WriteTypes'
  <2>1. \A m \in Masters : wr'[m] \in Write
    BY <1>1, <1>2, NextWriteShape
  <2>2. /\ aw_ready_r' \in BOOLEAN /\ w_ready_r' \in BOOLEAN
        /\ aw_latched' \in BOOLEAN /\ w_latched' \in BOOLEAN /\ s_axi_bvalid' \in BOOLEAN
    BY <1>1 DEF Handshakes
  <2>3. w_busy' \in BOOLEAN /\ w_sel' \in {0, 1} /\ arbitrated' \in BOOLEAN
    BY <1>1 DEF Grant, WriteTypes
  <2> QED  BY <1>1, <1>2, <2>1, <2>2, <2>3 DEF WriteTypes
<1>4. ASSUME NEW m \in Masters, ~WGrant(m)
      PROVE  Waiting(m)' /\ (wr[m].aw = "valid" => wr'[m].aw = "valid")
  BY <1>1, <1>2, <1>4, WaitingKept DEF WriteInv, Waiting
<1>5. CASE \E m \in Masters : WGrant(m)
  <2>1. PICK m \in Masters : WGrant(m)
    BY <1>5
  <2>2. WMux = m /\ (\A k \in Masters \ {m} : ~WGrant(k)) /\ Taken(m)
    BY <2>1, GrantUnique DEF WriteInv
  <2>3. PICK items \in SUBSET Items : wr'[m] \in NextWrites(m, bready, late, items)
    BY <1>1
  <2>4. CASE s_axi_bvalid /\ bready
    <3>1. b = TRUE
      BY <2>1, <2>4 DEF BHandshake
    <3>2. Handshakes(AwIn, WIn, TRUE)
      BY <1>1, <3>1
    <3>3. /\ wr'[m].aw # "done" /\ wr'[m].w # "done"
          /\ (wr'[m].aw = "none") = (wr'[m].w = "none")
          /\ WriteIdle'
      BY <2>1, <2>2, <2>3, <2>4, <3>2, TakenAnswered
    <3>4. performed' = << >> /\ ~s_axi_bvalid'
      BY <1>1, <2>4, <3>1, <3>3 DEF wr_fire, WriteIdle
    <3>5. CASE arbitrated
      <4>1. ~w_busy'
        BY <1>1, <2>1, <3>1, <3>5 DEF Grant, WGrant
      <4>2. \A k \in Masters : ~WGrant(k)'
        BY <1>1, <3>5, <4>1 DEF WGrant
      <4>3. \A k \in Masters : Waiting(k)'
        BY <1>4, <2>2, <3>3 DEF Waiting
      <4> QED  BY <1>2, <1>3, <3>3, <3>4, <4>2, <4>3 DEF WriteInv
    <3>6. CASE ~arbitrated
      <4>1. Masters = {m} /\ ~arbitrated'
        BY <1>1, <3>6 DEF Masters
      <4>2. Taken(m)'
        BY <1>3, <3>3, <3>4, <4>1 DEF Taken, WriteIdle, WriteTypes
      <4> QED  BY <1>2, <1>3, <3>3, <3>4, <4>1, <4>2 DEF WriteInv, WGrant
    <3> QED  BY <3>5, <3>6
  <2>5. CASE ~(s_axi_bvalid /\ bready)
    <3>1. b = FALSE
      BY <2>5 DEF BHandshake
    <3>2. /\ Handshakes(AwIn, WIn, FALSE)
          /\ performed' = IF wr_fire
                          THEN Append(performed, Item(aw_addr, w_item.data, w_item.strb))
                          ELSE performed
      BY <1>1, <3>1
    <3>3. Taken(m)' /\ (~s_axi_bvalid' => performed' = << >>)
      BY <1>1, <2>1, <2>2, <2>3, <2>5, <3>2, TakenKept DEF WriteInv
    <3>4. (w_busy' = w_busy /\ w_sel' = w_sel) \/ ~arbitrated
      BY <1>1, <2>1, <3>1 DEF Grant, WGrant
    <3>5. \A k \in Masters : WGrant(k)' = WGrant(k)
      BY <1>1, <3>4 DEF WGrant
    <3> QED  BY <1>2, <1>3, <1>4, <2>1, <2>2, <3>3, <3>5 DEF WriteInv
  <2> QED  BY <2>4, <2>5
<1>6. CASE \A m \in Masters : ~WGrant(m)
  <2>1. arbitrated /\ ~w_busy /\ WriteIdle /\ performed = << >>
    BY <1>2, <1>6 DEF WGrant, WriteInv, WriteIdle, WriteTypes, Masters
  <2>2. b = FALSE
    BY <2>1 DEF BHandshake, WriteIdle
  <2>3. ~AwIn.valid /\ ~WIn.valid
    BY <2>1 DEF AwIn, WIn, WGrant, WMux
  <2>4. WriteIdle' /\ performed' = << >>
    BY <1>1, <2>1, <2>2, <2>3 DEF Handshakes, WriteIdle, wr_fire
  <2>5. \A k \in Masters : WGrant(k)' => wr[k].aw = "valid"
    BY <1>1, <1>2, <2>1 DEF Grant, WGrant
  <2>6. ASSUME NEW k \in Masters, WGrant(k)'
        PROVE  Taken(k)'
    <3>1. Waiting(k)' /\ wr'[k].aw = "valid"
      BY <1>4, <1>6, <2>5, <2>6
    <3> QED  BY <1>3, <2>4, <3>1 DEF Taken, Waiting, WriteIdle, WriteTypes
  <2> QED  BY <1>2, <1>3, <1>4, <1>6, <2>4, <2>6 DEF WriteInv
<1> QED  BY <1>3, <1>5, <1>6

-----------------------------------------------------------------------------
(***************************************************************************)
(* The read channel.  The slave answers one read at a time and raises      *)
(* ARREADY in the cycle in which RVALID rises; its answer is for the       *)
(* address the granted master still holds.                                 *)
(***************************************************************************)
Read == [ar : {"none", "valid", "done"}, addr : Addresses]

ReadTypes ==
  /\ arbitrated \in BOOLEAN /\ r_busy \in BOOLEAN /\ r_sel \in {0, 1}
  /\ rd = [m \in Masters |-> rd[m]]
  /\ \A m \in Masters : rd[m] \in Read
  /\ s_axi_arready \in BOOLEAN /\ s_axi_rvalid \in BOOLEAN

\* The master with the grant: whether its address was sampled, and which one.
Sampled(m) ==
  /\ arbitrated => rd[m].ar # "none"
  /\ s_axi_arready = (s_axi_rvalid /\ rd[m].ar = "valid")
  /\ rd[m].ar = "done" => s_axi_rvalid
  /\ s_axi_rvalid => rd[m].ar # "none" /\ rd[m].addr = sampled

ReadInv ==
  /\ \A m \in Masters : IF RGrant(m) THEN Sampled(m) ELSE rd[m].ar # "done"
  /\ (\A m \in Masters : ~RGrant(m)) => ~s_axi_rvalid /\ ~s_axi_arready

\* What a master's read may be after an edge.
LEMMA NextReadShape ==
  ASSUME NEW m \in Masters, rd[m] \in Read, NEW rready,
         NEW addrs \in SUBSET Addresses, NEW x \in NextReads(m, rready, addrs)
  PROVE  /\ x \in Read
         /\ rd[m].ar = "none" \/ RHandshake(m, rready) =>
              /\ x.ar # "done"
              /\ x.ar # "none" => x.addr \in addrs
         /\ ~(rd[m].ar = "none" \/ RHandshake(m, rready)) =>
              /\ x.addr = rd[m].addr
              /\ x.ar = IF rd[m].ar = "valid" /\ RGrant(m) /\ s_axi_arready
                        THEN "done" ELSE rd[m].ar
<1>1. CASE rd[m].ar = "none" \/ RHandshake(m, rready)
  <2>1. x = NoRead \/ \E a \in addrs : x = [ar |-> "valid", addr |-> a]
    BY <1>1 DEF NextReads
  <2>2. NoRead \in Read /\ NoRead.ar = "none"
    BY DEF NoRead, Read, Addresses, ReadOnly
  <2>3. \A a \in addrs : [ar |-> "valid", addr |-> a] \in Read
    BY DEF Read
  <2> QED  BY <1>1, <2>1, <2>2, <2>3
<1>2. CASE ~(rd[m].ar = "none" \/ RHandshake(m, rready))
  <2> DEFINE c == IF rd[m].ar = "valid" /\ RGrant(m) /\ s_axi_arready
                  THEN "done" ELSE rd[m].ar
  <2>1. rd[m].ar \in {"valid", "done"}
    BY <1>2 DEF Read
  <2>2. Advance(rd[m].ar, RGrant(m) /\ s_axi_arready, FALSE) = c
    BY <2>1 DEF Advance
  <2>3. x = [rd[m] EXCEPT !.ar = c]
    BY <1>2, <2>2 DEF NextReads
  <2>4. c \in {"valid", "done"}
    BY <2>1
  <2> HIDE DEF c
  <2>5. x \in Read /\ x.ar = c /\ x.addr = rd[m].addr
    BY <2>3, <2>4 DEF Read
  <2> QED  BY <1>2, <2>5 DEF c
<1> QED  BY <1>1, <1>2

\* One edge seen from the read channel.
ReadEdge(rready) ==
  LET r == \E m \in Masters : RHandshake(m, rready)
      g == Grant(r_busy, r_sel, {m \in Masters : rd[m].ar = "valid"}, r) IN
  /\ \A m \in Masters : \E addrs \in SUBSET Addresses :
       rd'[m] \in NextReads(m, rready, addrs)
  /\ rd' = [m \in Masters |-> rd'[m]]
  /\ UNCHANGED arbitrated
  /\ r_busy' = g[1] /\ r_sel' = g[2]
  /\ s_axi_arready' = ReadTakes(ArIn)
  /\ s_axi_rvalid' = (~(s_axi_rvalid /\ r) /\ (ReadTakes(ArIn) \/ s_axi_rvalid))
  /\ sampled' = IF ReadTakes(ArIn) THEN ArIn.addr ELSE sampled

\* What an edge of the whole does to the read direction.
LEMMA ReadEdgeOf ==
  ASSUME NEW bready \in BOOLEAN, NEW rready \in BOOLEAN, NEW late \in BOOLEAN,
         NEW finish \in BOOLEAN, NEW evt \in SUBSET Events,
         Edge(bready, rready, late, finish, evt)
  PROVE  ReadEdge(rready)
<1> DEFINE b == \E m \in Masters : BHandshake(m, bready)
           r == \E m \in Masters : RHandshake(m, rready)
           awv == {m \in Masters : wr[m].aw = "valid"}
           arv == {m \in Masters : rd[m].ar = "valid"}
<1>2. PICK c, r0, r1 :
        /\ r0 \in NextReads(0, rready, CallReads(c))
        /\ r1 \in IF arbitrated THEN NextReads(1, rready, BridgeReads)
                  ELSE {NoRead}
        /\ rd' = [m \in Masters |-> IF m = 0 THEN r0 ELSE r1]
  BY DEF Edge
<1>3. Masters \subseteq {0, 1} /\ (1 \in Masters => arbitrated) /\ 0 \in Masters
  BY DEF Masters
<1>4. CallReads(c) \in SUBSET Addresses /\ BridgeReads \in SUBSET Addresses
  BY CsrBusAssumption DEF CallReads, Addresses, ReadOnly
<1>5. \A m \in Masters : \E addrs \in SUBSET Addresses :
        rd'[m] \in NextReads(m, rready, addrs)
  BY <1>2, <1>3, <1>4
<1>6. rd' = [m \in Masters |-> rd'[m]]
  BY <1>2
<1>7. ArbStep(awv, b, arv, r)
  BY DEF Edge
<1>8. /\ UNCHANGED arbitrated
      /\ r_busy' = Grant(r_busy, r_sel, arv, r)[1]
      /\ r_sel' = Grant(r_busy, r_sel, arv, r)[2]
  BY <1>7 DEF ArbStep
<1>9. /\ s_axi_arready' = ReadTakes(ArIn)
      /\ s_axi_rvalid' = (~(s_axi_rvalid /\ r) /\ (ReadTakes(ArIn) \/ s_axi_rvalid))
  BY DEF Edge, ReadStep
<1>10. sampled' = IF ReadTakes(ArIn) THEN ArIn.addr ELSE sampled
  BY DEF Edge, History
<1> QED  BY <1>5, <1>6, <1>8, <1>9, <1>10 DEF ReadEdge

\* An edge of the read direction keeps its invariant.
LEMMA ReadInvStep ==
  ASSUME ReadTypes, ReadInv, NEW rready \in BOOLEAN, ReadEdge(rready)
  PROVE  (ReadTypes /\ ReadInv)'
<1>1. LET r == \E m \in Masters : RHandshake(m, rready)
          g == Grant(r_busy, r_sel, {m \in Masters : rd[m].ar = "valid"}, r) IN
      /\ \A m \in Masters : \E addrs \in SUBSET Addresses :
           rd'[m] \in NextReads(m, rready, addrs)
      /\ rd' = [m \in Masters |-> rd'[m]]
      /\ UNCHANGED arbitrated
      /\ r_busy' = g[1] /\ r_sel' = g[2]
      /\ s_axi_arready' = ReadTakes(ArIn)
      /\ s_axi_rvalid' = (~(s_axi_rvalid /\ r) /\ (ReadTakes(ArIn) \/ s_axi_rvalid))
      /\ sampled' = IF ReadTakes(ArIn) THEN ArIn.addr ELSE sampled
  BY DEF ReadEdge
<1> DEFINE r == \E m \in Masters : RHandshake(m, rready)
           arv == {m \in Masters : rd[m].ar = "valid"}
<1>2. /\ Masters' = Masters /\ Masters \subseteq {0, 1} /\ 0 \in Masters
      /\ \A m \in Masters : rd[m] \in Read /\ rd[m].ar \in {"none", "valid", "done"}
      /\ s_axi_arready \in BOOLEAN /\ s_axi_rvalid \in BOOLEAN
  BY <1>1 DEF Masters, ReadTypes, Read
<1>3. ReadTypes'
  <2>1. \A m \in Masters : rd'[m] \in Read
    BY <1>1, <1>2, NextReadShape
  <2>2. s_axi_arready' \in BOOLEAN /\ s_axi_rvalid' \in BOOLEAN
    BY <1>1 DEF ReadTakes
  <2>3. r_busy' \in BOOLEAN /\ r_sel' \in {0, 1} /\ arbitrated' \in BOOLEAN
    BY <1>1 DEF Grant, ReadTypes
  <2> QED  BY <1>1, <1>2, <2>1, <2>2, <2>3 DEF ReadTypes
<1>4. ASSUME NEW m \in Masters
      PROVE  /\ rd[m].ar = "none" \/ RHandshake(m, rready) => rd'[m].ar # "done"
             /\ ~(rd[m].ar = "none" \/ RHandshake(m, rready)) =>
                  /\ rd'[m].addr = rd[m].addr
                  /\ rd'[m].ar = IF rd[m].ar = "valid" /\ RGrant(m) /\ s_axi_arready
                                 THEN "done" ELSE rd[m].ar
  BY <1>1, <1>2, <1>4, NextReadShape
<1>5. ASSUME NEW m \in Masters, ~RGrant(m)
      PROVE  rd'[m].ar # "done" /\ (rd[m].ar = "valid" => rd'[m].ar = "valid")
  <2>1. ~RHandshake(m, rready) /\ rd[m].ar # "done"
    BY <1>5 DEF RHandshake, ReadInv
  <2> QED  BY <1>2, <1>4, <1>5, <2>1
<1>6. CASE \E m \in Masters : RGrant(m)
  <2>1. PICK m \in Masters : RGrant(m)
    BY <1>6
  <2>2. RMux = m /\ \A k \in Masters \ {m} : ~RGrant(k)
    BY <2>1 DEF ReadTypes, RGrant, RMux, Masters
  <2>3. Sampled(m)
    BY <2>1 DEF ReadInv
  <2>4. ArIn = [valid |-> rd[m].ar = "valid", addr |-> rd[m].addr]
    BY <2>1, <2>2 DEF ArIn
  <2>5. ReadTakes(ArIn) = (rd[m].ar = "valid" /\ ~s_axi_rvalid)
    BY <1>2, <2>3, <2>4 DEF ReadTakes, Sampled
  <2>6. CASE s_axi_rvalid /\ rready
    <3>1. r = TRUE /\ RHandshake(m, rready)
      BY <2>1, <2>6 DEF RHandshake
    <3>2. ~s_axi_rvalid' /\ ~s_axi_arready' /\ rd'[m].ar # "done"
      BY <1>1, <1>4, <2>5, <2>6, <3>1
    <3>3. CASE arbitrated
      <4>1. ~r_busy'
        BY <1>1, <2>1, <3>1, <3>3 DEF Grant, RGrant
      <4>2. \A k \in Masters : ~RGrant(k)'
        BY <1>1, <3>3, <4>1 DEF RGrant
      <4>3. \A k \in Masters : rd'[k].ar # "done"
        BY <1>5, <2>2, <3>2
      <4> QED  BY <1>2, <1>3, <3>2, <4>2, <4>3 DEF ReadInv
    <3>4. CASE ~arbitrated
      <4>1. Masters = {m} /\ ~arbitrated'
        BY <1>1, <3>4 DEF Masters
      <4>2. Sampled(m)'
        BY <1>3, <3>2, <4>1 DEF Sampled, ReadTypes
      <4> QED  BY <1>2, <1>3, <3>2, <4>1, <4>2 DEF ReadInv, RGrant
    <3> QED  BY <3>3, <3>4
  <2>7. CASE ~(s_axi_rvalid /\ rready)
    <3>1. r = FALSE /\ ~RHandshake(m, rready)
      BY <2>7 DEF RHandshake
    <3>2. /\ s_axi_arready' = (rd[m].ar = "valid" /\ ~s_axi_rvalid)
          /\ s_axi_rvalid' = (rd[m].ar = "valid" \/ s_axi_rvalid)
          /\ sampled' = IF rd[m].ar = "valid" /\ ~s_axi_rvalid THEN rd[m].addr ELSE sampled
      BY <1>1, <1>2, <2>4, <2>5, <3>1
    <3>3. /\ rd[m].ar = "none" => rd'[m].ar # "done"
          /\ rd[m].ar # "none" =>
               /\ rd'[m].addr = rd[m].addr
               /\ rd'[m].ar = IF rd[m].ar = "valid" /\ s_axi_arready
                              THEN "done" ELSE rd[m].ar
      BY <1>4, <2>1, <3>1
    <3>4. Sampled(m)'
      BY <1>1, <1>2, <1>3, <2>3, <3>2, <3>3 DEF Sampled, ReadTypes
    <3>5. (r_busy' = r_busy /\ r_sel' = r_sel) \/ ~arbitrated
      BY <1>1, <2>1, <3>1 DEF Grant, RGrant
    <3>6. \A k \in Masters : RGrant(k)' = RGrant(k)
      BY <1>1, <3>5 DEF RGrant
    <3> QED  BY <1>2, <1>3, <1>5, <2>1, <2>2, <3>4, <3>6 DEF ReadInv
  <2> QED  BY <2>6, <2>7
<1>7. CASE \A m \in Masters : ~RGrant(m)
  <2>1. arbitrated /\ ~r_busy /\ ~s_axi_rvalid /\ ~s_axi_arready
    BY <1>2, <1>7 DEF RGrant, ReadInv, ReadTypes, Masters
  <2>2. ~ReadTakes(ArIn)
    BY <2>1 DEF ArIn, RGrant, RMux, ReadTakes
  <2>3. ~s_axi_rvalid' /\ ~s_axi_arready'
    BY <1>1, <2>1, <2>2
  <2>4. \A k \in Masters : RGrant(k)' => rd[k].ar = "valid"
    BY <1>1, <1>2, <2>1 DEF Grant, RGrant
  <2>5. ASSUME NEW k \in Masters, RGrant(k)'
        PROVE  Sampled(k)'
    <3>1. rd'[k].ar = "valid"
      BY <1>5, <1>7, <2>4, <2>5
    <3> QED  BY <1>3, <2>3, <3>1 DEF Sampled, ReadTypes
  <2> QED  BY <1>2, <1>3, <1>5, <1>7, <2>3, <2>5 DEF ReadInv
<1> QED  BY <1>3, <1>6, <1>7

-----------------------------------------------------------------------------
(***************************************************************************)
(* Both channels together.                                                 *)
(***************************************************************************)
BusInv == WriteTypes /\ WriteInv /\ ReadTypes /\ ReadInv /\ CallTyped(call)

\* The call of the processor keeps its shape.
LEMMA CallTypedStep ==
  ASSUME CallTyped(call), Next
  PROVE  CallTyped(call')
<1>1. PICK b, r : call' \in NextCalls(b, r)
  BY DEF Next, Edge
<1> QED  BY <1>1, NextCallTyped

\* The bus starts with nothing outstanding.
LEMMA BusInvInit == Init => BusInv
<1> SUFFICES ASSUME Init PROVE BusInv
  OBVIOUS
<1>1. /\ arbitrated \in BOOLEAN /\ ~w_busy /\ w_sel = 0 /\ ~r_busy /\ r_sel = 0
      /\ w_busy = FALSE /\ r_busy = FALSE
      /\ wr = [m \in Masters |-> NoWrite] /\ rd = [m \in Masters |-> NoRead]
      /\ performed = << >>
  BY DEF Init, ArbInit
<1>2. /\ aw_ready_r = TRUE /\ w_ready_r = TRUE /\ aw_latched = FALSE
      /\ w_latched = FALSE /\ s_axi_bvalid = FALSE
      /\ s_axi_arready = FALSE /\ s_axi_rvalid = FALSE
  BY DEF Init, RegsInit
<1>3. NoWrite \in Write /\ NoWrite.aw = "none" /\ NoWrite.w = "none"
  <2>1. Item("VERSION", {}, {}) \in Items
    BY DEF Item, Items, Addresses, ReadOnly
  <2> QED  BY <2>1 DEF NoWrite, Write, Channel
<1>4. NoRead \in Read /\ NoRead.ar = "none"
  BY DEF NoRead, Read, Addresses, ReadOnly
<1>5. WriteTypes /\ ReadTypes
  BY <1>1, <1>2, <1>3, <1>4 DEF WriteTypes, ReadTypes
<1>6. WriteInv
  <2>1. \A m \in Masters : IF WGrant(m) THEN Taken(m) ELSE Waiting(m)
    BY <1>1, <1>2, <1>3 DEF WGrant, Taken, Waiting
  <2> QED  BY <1>1, <1>2, <2>1 DEF WriteInv, WriteIdle
<1>7. ReadInv
  <2>1. \A m \in Masters : IF RGrant(m) THEN Sampled(m) ELSE rd[m].ar # "done"
    BY <1>1, <1>2, <1>4 DEF RGrant, Sampled
  <2> QED  BY <1>2, <2>1 DEF ReadInv
<1>8. CallTyped(call)
  BY DEF Init, NoCall, CallTyped
<1> QED  BY <1>5, <1>6, <1>7, <1>8 DEF BusInv

\* Both directions together.
LEMMA BusInvStep == BusInv /\ [Next]_vars => BusInv'
<1> SUFFICES ASSUME BusInv, [Next]_vars PROVE BusInv'
  OBVIOUS
<1>1. CASE Next
  <2>1. PICK bready \in BOOLEAN, rready \in BOOLEAN, late \in BOOLEAN,
             finish \in BOOLEAN, evt \in SUBSET Events :
          Edge(bready, rready, late, finish, evt)
    BY <1>1 DEF Next, Open
  <2>2. WriteEdge(bready, late) /\ ReadEdge(rready)
    BY <2>1, WriteEdgeOf, ReadEdgeOf DEF BusInv
  <2>3. (WriteTypes /\ WriteInv)' /\ (ReadTypes /\ ReadInv)'
    BY <2>2, WriteInvStep, ReadInvStep DEF BusInv
  <2> QED  BY <1>1, <2>3, CallTypedStep DEF BusInv, CallTyped
<1>2. CASE UNCHANGED vars
  <2>1. /\ UNCHANGED <<arbitrated, w_busy, w_sel, r_busy, r_sel>>
        /\ UNCHANGED <<aw_ready_r, w_ready_r, aw_latched, w_latched, aw_addr, w_item,
                       s_axi_bvalid, s_axi_arready, s_axi_rvalid>>
        /\ UNCHANGED <<wr, rd, call, performed, sampled>>
    BY <1>2 DEF vars, arb, regs, wchan, rchan
  <2>2. (WriteTypes /\ CallTyped(call))'
    BY <2>1 DEF BusInv, WriteTypes, CallTyped, Masters
  <2>3. WriteInv'
    BY <2>1 DEF BusInv, WriteInv, Masters, WGrant, Taken, Waiting, WriteIdle
  <2>4. (ReadTypes /\ ReadInv)'
    BY <2>1 DEF BusInv, ReadTypes, ReadInv, Masters, RGrant, Sampled
  <2> QED  BY <2>2, <2>3, <2>4 DEF BusInv
<1> QED  BY <1>1, <1>2

\* Every access is executed once and answered to the master that made it, with
\* and without the arbiter (axilite_regs.v: AW, W, B and AR, R; axil_arb2.v: the
\* registered grants), for every set of accesses.
THEOREM AccessesAnswered == Spec => []EachAccessAnswered
<1>1. BusInv => EachAccessAnswered
  <2> SUFFICES ASSUME BusInv PROVE EachAccessAnswered
    OBVIOUS
  <2>1. s_axi_bvalid => \E m \in Masters : WGrant(m) /\ performed = <<wr[m].item>>
    BY DEF BusInv, WriteInv, Taken, WriteIdle
  <2>2. ~s_axi_bvalid => performed = << >>
    BY DEF BusInv, WriteInv
  <2>3. ReadAnswersItsReader
    BY DEF BusInv, ReadInv, Sampled, ReadAnswersItsReader
  <2> QED  BY <2>1, <2>2, <2>3 DEF EachAccessAnswered, EachWriteOnce
<1> QED  BY <1>1, BusInvInit, BusInvStep, PTL DEF Spec

-----------------------------------------------------------------------------
(***************************************************************************)
(* Priority.  Once a bridge access was answered while the processor's      *)
(* request stood, the bridge no longer holds the grant and cannot get it   *)
(* before the processor.                                                   *)
(***************************************************************************)
OvertakenInv ==
  /\ overtaken.w \in {0, 1} /\ overtaken.r \in {0, 1}
  /\ arbitrated /\ overtaken.w = 1 /\ wr[0].aw = "valid" => ~WGrant(1)
  /\ arbitrated /\ overtaken.r = 1 /\ rd[0].ar = "valid" => ~RGrant(1)

\* One channel's grant after an edge: with master 0 asking and master 1 not
\* granted, master 1 is not granted next either; a master that does not ask is not
\* granted; an answer releases the grant.
LEMMA GrantAfter ==
  ASSUME arbitrated, NEW busy \in BOOLEAN, NEW sel \in {0, 1}, NEW request, NEW handshake \in BOOLEAN
  PROVE  LET g == Grant(busy, sel, request, handshake) IN
         /\ 0 \in request /\ ~(busy /\ sel = 1) => ~(g[1] /\ g[2] = 1)
         /\ 0 \notin request /\ ~(busy /\ sel = 0) => ~(g[1] /\ g[2] = 0)
         /\ busy /\ handshake => ~g[1]
<1>1. CASE ~busy /\ request # {}
  <2>1. Grant(busy, sel, request, handshake) = <<TRUE, IF 0 \in request THEN 0 ELSE 1>>
    BY <1>1 DEF Grant
  <2> QED  BY <1>1, <2>1
<1>2. CASE busy /\ handshake
  <2>1. Grant(busy, sel, request, handshake) = <<FALSE, sel>>
    BY <1>2 DEF Grant
  <2>2. Grant(busy, sel, request, handshake)[1] = FALSE
    BY <2>1
  <2> QED  BY <1>2, <2>2
<1>3. CASE ~(~busy /\ request # {}) /\ ~(busy /\ handshake)
  <2>1. Grant(busy, sel, request, handshake) = <<busy, sel>>
    BY <1>3 DEF Grant
  <2> QED  BY <1>3, <2>1
<1> QED  BY <1>1, <1>2, <1>3

\* An edge keeps the bound on the accesses that overtake the processor.
LEMMA OvertakenStep ==
  ASSUME BusInv, OvertakenInv, Next
  PROVE  OvertakenInv'
<1>1. PICK bready \in BOOLEAN, rready \in BOOLEAN, late \in BOOLEAN,
           finish \in BOOLEAN, evt \in SUBSET Events :
        Edge(bready, rready, late, finish, evt)
  BY DEF Next, Open
<1> DEFINE b == \E m \in Masters : BHandshake(m, bready)
           r == \E m \in Masters : RHandshake(m, rready)
           awv == {m \in Masters : wr[m].aw = "valid"}
           arv == {m \in Masters : rd[m].ar = "valid"}
           gw == Grant(w_busy, w_sel, awv, b)
           gr == Grant(r_busy, r_sel, arv, r)
<1>2. ArbStep(awv, b, arv, r)
  BY <1>1 DEF Edge
<1>3. /\ arbitrated' = arbitrated
      /\ w_busy' = gw[1] /\ w_sel' = gw[2] /\ r_busy' = gr[1] /\ r_sel' = gr[2]
  BY <1>2 DEF ArbStep
<1>4. overtaken' =
       [w |-> IF wr[0].aw # "valid" THEN 0
              ELSE IF b /\ WMux = 1 /\ overtaken.w < 2 THEN overtaken.w + 1 ELSE overtaken.w,
        r |-> IF rd[0].ar # "valid" THEN 0
              ELSE IF r /\ RMux = 1 /\ overtaken.r < 2 THEN overtaken.r + 1 ELSE overtaken.r]
  BY <1>1 DEF Edge, History
<1>5. /\ arbitrated \in BOOLEAN /\ 0 \in Masters
      /\ w_busy \in BOOLEAN /\ w_sel \in {0, 1} /\ r_busy \in BOOLEAN /\ r_sel \in {0, 1}
      /\ b \in BOOLEAN /\ r \in BOOLEAN
  BY DEF BusInv, WriteTypes, ReadTypes, Masters
<1> HIDE DEF b, r
<1>6. /\ overtaken'.w \in {0, 1}
      /\ arbitrated' /\ overtaken'.w = 1 => ~(w_busy' /\ w_sel' = 1)
  <2>1. CASE wr[0].aw # "valid" \/ ~arbitrated
    <3>1. ~arbitrated => WMux = 0
      BY DEF WMux
    <3> QED  BY <1>3, <1>4, <2>1, <3>1 DEF OvertakenInv
  <2>2. CASE wr[0].aw = "valid" /\ arbitrated
    <3>1. 0 \in awv
      BY <1>5, <2>2
    <3>2. /\ ~(w_busy /\ w_sel = 1) => ~(gw[1] /\ gw[2] = 1)
          /\ w_busy /\ b => ~gw[1]
      BY <1>5, <2>2, <3>1, GrantAfter
    <3>3. (WMux = 1) = (w_busy /\ w_sel = 1)
      BY <1>5, <2>2 DEF WMux, WGrant
    <3>4. overtaken.w = 1 => ~(w_busy /\ w_sel = 1)
      BY <2>2 DEF OvertakenInv, WGrant
    <3> QED  BY <1>3, <1>4, <1>5, <2>2, <3>2, <3>3, <3>4 DEF OvertakenInv
  <2> QED  BY <2>1, <2>2
<1>7. /\ overtaken'.r \in {0, 1}
      /\ arbitrated' /\ overtaken'.r = 1 => ~(r_busy' /\ r_sel' = 1)
  <2>1. CASE rd[0].ar # "valid" \/ ~arbitrated
    <3>1. ~arbitrated => RMux = 0
      BY DEF RMux
    <3> QED  BY <1>3, <1>4, <2>1, <3>1 DEF OvertakenInv
  <2>2. CASE rd[0].ar = "valid" /\ arbitrated
    <3>1. 0 \in arv
      BY <1>5, <2>2
    <3>2. /\ ~(r_busy /\ r_sel = 1) => ~(gr[1] /\ gr[2] = 1)
          /\ r_busy /\ r => ~gr[1]
      BY <1>5, <2>2, <3>1, GrantAfter
    <3>3. (RMux = 1) = (r_busy /\ r_sel = 1)
      BY <1>5, <2>2 DEF RMux, RGrant
    <3>4. overtaken.r = 1 => ~(r_busy /\ r_sel = 1)
      BY <2>2 DEF OvertakenInv, RGrant
    <3> QED  BY <1>3, <1>4, <1>5, <2>2, <3>2, <3>3, <3>4 DEF OvertakenInv
  <2> QED  BY <2>1, <2>2
<1> QED  BY <1>6, <1>7 DEF OvertakenInv, WGrant, RGrant

\* The processor waits for at most one bridge access, on each channel
\* (axil_arb2.v: the grant is released with the response and goes to master 0
\* first), whatever the bridge asks for.
THEOREM ProcessorFirst == Spec => []ProcessorWaitsOnce
<1>1. Init => OvertakenInv
  BY DEF Init, OvertakenInv
<1>2. BusInv /\ OvertakenInv /\ [Next]_vars => OvertakenInv'
  <2>1. ASSUME BusInv, OvertakenInv, UNCHANGED vars PROVE OvertakenInv'
    BY <2>1 DEF vars, arb, OvertakenInv, WGrant, RGrant
  <2> QED  BY <2>1, OvertakenStep
<1>3. OvertakenInv => ProcessorWaitsOnce
  BY DEF OvertakenInv, ProcessorWaitsOnce
<1> QED  BY <1>1, <1>2, <1>3, BusInvInit, BusInvStep, PTL DEF Spec

-----------------------------------------------------------------------------
(***************************************************************************)
(* The processor's MDIO call, while the bridge does not write MDIO_CMD.    *)
(* From the STATUS read that found the MDIO master idle the MDIO side is   *)
(* quiet; the write of GO makes it start, run and finish the call's own    *)
(* command; the STATUS read that ends the poll can only see it finished.   *)
(***************************************************************************)
Quiet    == ~mdio_busy_r /\ ~mdio_go /\ ~mdio.run
Starting == mdio_go /\ ~mdio.run /\ reg["MDIO_CMD"] = call.cmd
Running  == ~mdio_go /\ mdio.run /\ mdio_busy_r /\ mdio.cmd = call.cmd
Finished == ~mdio_go /\ ~mdio.run /\ mdio.rdata = call.cmd

\* Master 0's write, or read, is answered in this state.
Acked    == s_axi_bvalid /\ WGrant(0)
Answered == s_axi_rvalid /\ RGrant(0)

\* Master 0's accesses are those of its call.
CallAccess ==
  /\ wr[0].aw # "none" => /\ call.at = "go"
                          /\ wr[0].item = Item("MDIO_CMD", call.cmd \cup {11}, 0 .. 3)
  /\ rd[0].ar # "none" =>
       \/ call.at \in {"wait", "poll"} /\ rd[0].addr = "STATUS"
       \/ call.at = "rdata" /\ rd[0].addr = "MDIO_RDATA"

CallProgress ==
  /\ call.at = "wait" =>
       /\ mdio_go => arbitrated /\ ~RGrant(0)
       /\ Answered /\ 2 \notin s_axi_rdata => Quiet
  /\ call.at = "go" => IF Acked THEN Starting \/ Running \/ Finished ELSE Quiet
  /\ call.at = "poll" =>
       /\ Running \/ Finished
       /\ Answered /\ 2 \notin s_axi_rdata => Finished
  /\ call.at = "rdata" => Finished /\ (Answered => s_axi_rdata = call.cmd)
  /\ call.at = "got" => call.value = call.cmd

CallInv ==
  /\ GoInv /\ MdioShape
  /\ reg = [a \in RW |-> reg[a]] /\ mdio_busy_r \in BOOLEAN
  /\ CallAccess
  /\ ~intruded => CallProgress

\* A write that executes is the granted master's, with its own address and data.
LEMMA FireOwner ==
  ASSUME BusInv, wr_fire
  PROVE  /\ WMux \in Masters /\ WGrant(WMux)
         /\ wr[WMux].aw = "done" /\ aw_addr = wr[WMux].item.addr
         /\ w_item = [data |-> wr[WMux].item.data, strb |-> wr[WMux].item.strb]
<1>1. PICK m \in Masters : WGrant(m)
  BY DEF BusInv, WriteInv, WriteIdle, wr_fire
<1>2. WMux = m /\ Taken(m)
  BY <1>1, GrantUnique DEF BusInv, WriteInv
<1> QED  BY <1>1, <1>2 DEF Taken, wr_fire, BusInv, WriteTypes

\* Where a pulse of mdio_go comes from: the bridge's write of MDIO_CMD, or the
\* call's own.
LEMMA GoSource ==
  ASSUME BusInv, CallAccess, NEW aw, NEW wd, NEW b, NEW events,
         WriteStep(aw, wd, b, events, mdio_busy_r), mdio_go'
  PROVE  /\ wr_fire
         /\ \/ WMux = 1 /\ arbitrated /\ Writes("MDIO_CMD")
            \/ WMux = 0 /\ call.at = "go"
<1>1. Go(mdio_busy_r)
  BY DEF WriteStep, WritePulses, mdio_go
<1>2. wr_fire /\ Writes("MDIO_CMD")
  BY <1>1 DEF Go, mdio_start, Writes
<1>3. wr[WMux].aw = "done"
  BY <1>2, FireOwner
<1>4. WMux = 0 \/ (WMux = 1 /\ arbitrated)
  BY DEF WMux
<1> QED  BY <1>2, <1>3, <1>4 DEF CallAccess

\* The MDIO side through an edge at which no GO is accepted.
LEMMA MdioNoGo ==
  ASSUME GoInv, MdioShape, mdio_busy_r \in BOOLEAN, NEW finish \in BOOLEAN,
         MdioMaster(finish), MdioBusy, ~mdio_go', call.cmd \subseteq 0 .. 4,
         call'.cmd = call.cmd
  PROVE  /\ Quiet => Quiet'
         /\ Starting => Running'
         /\ Running => Running' \/ Finished'
         /\ Finished => Finished'
<1>1. /\ MdioShape'
      /\ mdio'.run = (IF mdio.run THEN ~finish ELSE mdio_go)
      /\ mdio'.done = (IF mdio.run THEN finish \/ mdio.done ELSE FALSE)
      /\ mdio'.cmd = (IF ~mdio.run /\ mdio_go THEN reg.MDIO_CMD ELSE mdio.cmd)
      /\ mdio'.rdata = (IF mdio.run /\ finish /\ 10 \notin mdio.cmd
                        THEN mdio.cmd \cap (0 .. 4) ELSE mdio.rdata)
  BY MdioAfter
<1>2. mdio_busy_r' = (mdio_go \/ (mdio_busy_r /\ ~mdio.done))
  BY DEF MdioBusy
<1>3. 10 \notin call.cmd /\ call.cmd \cap (0 .. 4) = call.cmd
  OBVIOUS
<1>4. mdio.run \in BOOLEAN /\ mdio.done \in BOOLEAN /\ (mdio.run => ~mdio.done)
  BY DEF MdioShape, GoInv
<1>5. Quiet => Quiet'
  BY <1>1, <1>2, <1>4 DEF Quiet
<1>6. Starting => Running'
  BY <1>1, <1>2, <1>4 DEF Starting, Running
<1>7. Running => Running' \/ Finished'
  BY <1>1, <1>2, <1>3, <1>4 DEF Running, Finished
<1>8. Finished => Finished'
  BY <1>1, <1>4 DEF Finished
<1> QED  BY <1>5, <1>6, <1>7, <1>8

\* An answer to master 0 that stands after an edge: sampled at this edge for the
\* address master 0 holds, or standing already.
LEMMA AnswerSource ==
  ASSUME BusInv, NEW rready \in BOOLEAN, ReadEdge(rready), Answered'
  PROVE  /\ RGrant(0) /\ rd[0].ar # "none" /\ ~RHandshake(0, rready)
         /\ IF ReadTakes(ArIn) THEN ArIn.addr = rd[0].addr ELSE Answered
<1> DEFINE r == \E m \in Masters : RHandshake(m, rready)
           arv == {m \in Masters : rd[m].ar = "valid"}
<1>1. /\ UNCHANGED arbitrated
      /\ r_busy' = Grant(r_busy, r_sel, arv, r)[1]
      /\ r_sel' = Grant(r_busy, r_sel, arv, r)[2]
      /\ s_axi_rvalid' = (~(s_axi_rvalid /\ r) /\ (ReadTakes(ArIn) \/ s_axi_rvalid))
  BY DEF ReadEdge
<1>2. s_axi_rvalid' /\ RGrant(0)' /\ 0 \in Masters
  BY DEF Answered, Masters
<1>3. PICK m \in Masters : RGrant(m)
  <2>1. ReadTakes(ArIn) \/ s_axi_rvalid
    BY <1>1, <1>2
  <2>2. ReadTakes(ArIn) => RGrant(RMux) /\ RMux \in Masters
    BY DEF ReadTakes, ArIn, RMux, Masters
  <2>3. s_axi_rvalid => \E k \in Masters : RGrant(k)
    BY DEF BusInv, ReadInv
  <2> QED  BY <2>1, <2>2, <2>3
<1>4. r = FALSE
  BY <1>1, <1>2 DEF RHandshake
<1>5. m = 0
  <2>1. CASE arbitrated
    <3>1. r_busy /\ r_sel = m /\ r_busy \in BOOLEAN
      BY <1>3, <2>1 DEF RGrant, BusInv, ReadTypes
    <3>2. Grant(r_busy, r_sel, arv, r)[2] = r_sel
      BY <1>4, <3>1 DEF Grant
    <3>3. r_sel' = m
      BY <1>1, <3>1, <3>2
    <3> QED  BY <1>1, <1>2, <2>1, <3>3 DEF RGrant
  <2>2. CASE ~arbitrated
    BY <2>2 DEF Masters
  <2> QED  BY <2>1, <2>2
<1>6. RGrant(0) /\ Sampled(0) /\ RMux = 0
  BY <1>2, <1>3, <1>5 DEF BusInv, ReadInv, RMux, RGrant
<1>7. ~RHandshake(0, rready)
  BY <1>2, <1>4
<1>8. CASE ReadTakes(ArIn)
  BY <1>6, <1>7, <1>8 DEF ReadTakes, ArIn
<1>9. CASE ~ReadTakes(ArIn)
  BY <1>1, <1>2, <1>6, <1>7, <1>9 DEF Answered, Sampled
<1> QED  BY <1>8, <1>9

\* An acknowledgement of master 0's write that stands after an edge which did not
\* take it: standing already, or of a write of master 0 executed at this edge.
LEMMA AckSource ==
  ASSUME BusInv, NEW bready \in BOOLEAN, NEW late \in BOOLEAN, WriteEdge(bready, late),
         ~BHandshake(0, bready)
  PROVE  Acked' = (Acked \/ (wr_fire /\ WMux = 0))
<1> DEFINE b == \E m \in Masters : BHandshake(m, bready)
           awv == {m \in Masters : wr[m].aw = "valid"}
<1>1. /\ UNCHANGED arbitrated
      /\ w_busy' = Grant(w_busy, w_sel, awv, b)[1]
      /\ w_sel' = Grant(w_busy, w_sel, awv, b)[2]
      /\ s_axi_bvalid' = (wr_fire \/ (s_axi_bvalid /\ ~b))
  BY DEF WriteEdge, Handshakes
<1>2. /\ arbitrated \in BOOLEAN /\ w_busy \in BOOLEAN /\ w_sel \in {0, 1}
      /\ s_axi_bvalid \in BOOLEAN /\ 0 \in Masters
  BY DEF BusInv, WriteTypes, Masters
<1>3. ASSUME b = FALSE, NEW m \in Masters, WGrant(m)
      PROVE  WGrant(0)' = (m = 0)
  <2>1. CASE arbitrated
    <3>1. w_busy = TRUE /\ w_sel = m
      BY <1>2, <1>3, <2>1 DEF WGrant
    <3>2. Grant(w_busy, w_sel, awv, b)[1] = TRUE /\ Grant(w_busy, w_sel, awv, b)[2] = m
      BY <1>3, <3>1 DEF Grant
    <3> QED  BY <1>1, <2>1, <3>2 DEF WGrant
  <2>2. CASE ~arbitrated
    BY <1>1, <1>3, <2>2 DEF WGrant, Masters
  <2> QED  BY <2>1, <2>2
<1>4. ASSUME Acked
      PROVE  Acked'
  <2>1. b = FALSE /\ s_axi_bvalid /\ WGrant(0)
    BY <1>4 DEF Acked, BHandshake
  <2> QED  BY <1>1, <1>2, <1>3, <2>1 DEF Acked
<1>5. ASSUME wr_fire, WMux = 0
      PROVE  Acked'
  <2>1. b = FALSE
    BY <1>5 DEF wr_fire, BHandshake
  <2>2. WGrant(0)
    BY <1>5, FireOwner
  <2> QED  BY <1>1, <1>2, <1>3, <1>5, <2>1, <2>2 DEF Acked
<1>6. ASSUME Acked', ~Acked
      PROVE  wr_fire /\ WMux = 0
  <2>1. s_axi_bvalid' /\ WGrant(0)'
    BY <1>6 DEF Acked
  <2>2. b = FALSE
    BY <1>1, <2>1 DEF wr_fire, BHandshake
  <2>3. PICK m \in Masters : WGrant(m)
    BY <1>1, <2>1 DEF BusInv, WriteInv, WriteIdle, wr_fire
  <2>4. m = 0
    BY <1>3, <2>1, <2>2, <2>3
  <2> QED  BY <1>1, <1>6, <2>1, <2>3, <2>4, GrantUnique DEF Acked, BusInv
<1> QED  BY <1>4, <1>5, <1>6 DEF Acked, WGrant, wr_fire

\* The write of GO by master 0 leaves the call's command in MDIO_CMD, and starts
\* the MDIO master if it is quiet.
LEMMA GoWritten ==
  ASSUME BusInv, CallInv, Quiet, wr_fire, WMux = 0,
         NEW aw, NEW wd, NEW b, NEW events, NEW finish \in BOOLEAN,
         WriteStep(aw, wd, b, events, mdio_busy_r), MdioMaster(finish),
         call'.cmd = call.cmd
  PROVE  Starting'
<1>1. /\ wr[0].aw = "done" /\ aw_addr = wr[0].item.addr
      /\ w_item = [data |-> wr[0].item.data, strb |-> wr[0].item.strb]
  BY FireOwner
<1>2. aw_addr = "MDIO_CMD" /\ w_item.data = call.cmd \cup {11} /\ w_item.strb = 0 .. 3
  BY <1>1 DEF CallInv, CallAccess, Item
<1>3. mdio_go'
  BY <1>2 DEF WriteStep, WritePulses, mdio_go, Go, mdio_start, Writes, Quiet, Pulses
<1>4. ~mdio'.run
  BY MdioAfter DEF Quiet, CallInv
<1>5. "MDIO_CMD" \in RW /\ Mask["MDIO_CMD"] = (0 .. 14) \ {11}
  BY DEF RW, Mask
<1>6. reg' = [reg EXCEPT !["MDIO_CMD"] =
                strb_merge(@, call.cmd \cup {11}, 0 .. 3) \cap Mask["MDIO_CMD"]]
  BY <1>2, <1>5 DEF WriteStep, RegisterFile
<1>7. reg'["MDIO_CMD"] =
        strb_merge(reg["MDIO_CMD"], call.cmd \cup {11}, 0 .. 3) \cap ((0 .. 14) \ {11})
  <2>1. "MDIO_CMD" \in DOMAIN reg
    BY <1>5 DEF CallInv
  <2> QED  BY <1>5, <1>6, <2>1
<1>8. ASSUME NEW old
      PROVE  strb_merge(old, call.cmd \cup {11}, 0 .. 3) \cap ((0 .. 14) \ {11}) = call.cmd
  <2>1. call.cmd \subseteq 0 .. 4
    BY DEF BusInv, CallTyped
  <2>2. \A x \in 0 .. 14 : x \div 8 \in 0 .. 3
    OBVIOUS
  <2> QED  BY <2>1, <2>2 DEF strb_merge
<1> QED  BY <1>3, <1>4, <1>7, <1>8 DEF Starting

\* How a call moves at an edge: b and r are the answers to its write and its read.
LEMMA CallMoves ==
  ASSUME CallTyped(call), NEW b \in BOOLEAN, NEW r \in BOOLEAN, NEW c \in NextCalls(b, r)
  PROVE  /\ call.at = "idle" => c = call \/ c.at = "wait"
         /\ call.at = "wait" /\ r =>
              c = call \/ c.at = "idle" \/ (2 \notin s_axi_rdata /\ c.at = "go" /\ c.cmd = call.cmd)
         /\ call.at = "go" /\ b => c.at = "poll" /\ c.cmd = call.cmd
         /\ call.at = "poll" /\ r =>
              c = call \/ c.at = "idle" \/ (2 \notin s_axi_rdata /\ c.at = "rdata" /\ c.cmd = call.cmd)
         /\ call.at = "rdata" /\ r => c.at = "got" /\ c.cmd = call.cmd /\ c.value = s_axi_rdata
         /\ call.at = "got" => c.at = "idle"
         /\ call.at \in {"wait", "poll", "rdata"} /\ ~r => c = call
         /\ call.at = "go" /\ ~b => c = call
<1>1. call = [at |-> call.at, cmd |-> call.cmd, value |-> call.value]
  BY DEF CallTyped
<1>2. NoCall.at = "idle"
  BY DEF NoCall
<1>3. \A a : [call EXCEPT !.at = a] = [at |-> a, cmd |-> call.cmd, value |-> call.value]
  BY <1>1
<1>4. \A v : [call EXCEPT !.at = "got", !.value = v]
               = [at |-> "got", cmd |-> call.cmd, value |-> v]
  <2> TAKE v
  <2> DEFINE x == [call EXCEPT !.at = "got"]
  <2>1. x = [at |-> "got", cmd |-> call.cmd, value |-> call.value]
    BY <1>3
  <2>2. [call EXCEPT !.at = "got", !.value = v] = [x EXCEPT !.value = v]
    OBVIOUS
  <2> HIDE DEF x
  <2> QED  BY <2>1, <2>2
<1>5. CASE call.at = "idle"
  <2>1. c = call \/ \E p \in PhyRegs : c = [NoCall EXCEPT !.at = "wait", !.cmd = p]
    BY <1>5 DEF NextCalls
  <2>2. ASSUME NEW p PROVE [NoCall EXCEPT !.at = "wait", !.cmd = p].at = "wait"
    <3> DEFINE x == [NoCall EXCEPT !.at = "wait"]
    <3>1. x = [at |-> "wait", cmd |-> {}, value |-> {}]
      BY DEF NoCall
    <3>2. [NoCall EXCEPT !.at = "wait", !.cmd = p] = [x EXCEPT !.cmd = p]
      OBVIOUS
    <3> HIDE DEF x
    <3> QED  BY <3>1, <3>2
  <2> QED  BY <1>5, <2>1, <2>2
<1>6. CASE call.at = "wait"
  <2>1. IF r THEN c = call \/ c = NoCall \/ (2 \notin s_axi_rdata /\ c = [call EXCEPT !.at = "go"])
        ELSE c = call
    BY <1>6 DEF NextCalls
  <2> QED  BY <1>2, <1>3, <1>6, <2>1
<1>7. CASE call.at = "go"
  <2>1. c = IF b THEN [call EXCEPT !.at = "poll"] ELSE call
    BY <1>7 DEF NextCalls
  <2> QED  BY <1>3, <1>7, <2>1
<1>8. CASE call.at = "poll"
  <2>1. IF r THEN c = call \/ c = NoCall \/ (2 \notin s_axi_rdata /\ c = [call EXCEPT !.at = "rdata"])
        ELSE c = call
    BY <1>8 DEF NextCalls
  <2> QED  BY <1>2, <1>3, <1>8, <2>1
<1>9. CASE call.at = "rdata"
  <2>1. c = IF r THEN [call EXCEPT !.at = "got", !.value = s_axi_rdata] ELSE call
    BY <1>9 DEF NextCalls
  <2> QED  BY <1>4, <1>9, <2>1
<1>10. CASE call.at = "got"
  BY <1>2, <1>10 DEF NextCalls
<1> QED  BY <1>5, <1>6, <1>7, <1>8, <1>9, <1>10 DEF CallTyped

\* CallAccess through an edge: an access that is not answered keeps the call
\* where it is, a new one is the call's next.
LEMMA CallAccessStep ==
  ASSUME BusInv, CallAccess, NEW bready \in BOOLEAN, NEW rready \in BOOLEAN, NEW late,
         call' \in NextCalls(BHandshake(0, bready), RHandshake(0, rready)),
         wr'[0] \in NextWrites(0, bready, late, CallWrites(call')),
         rd'[0] \in NextReads(0, rready, CallReads(call'))
  PROVE  CallAccess'
<1> DEFINE b == BHandshake(0, bready)
           r == RHandshake(0, rready)
<1>1. b \in BOOLEAN /\ r \in BOOLEAN /\ 0 \in Masters
  BY DEF BHandshake, RHandshake, Masters
<1> HIDE DEF b, r
<1>2. /\ call.at = "go" /\ ~b => call' = call
      /\ call.at \in {"wait", "poll", "rdata"} /\ ~r => call' = call
  BY <1>1, CallMoves DEF BusInv, b, r
<1>3. CallTyped(call') /\ CallWrites(call') \in SUBSET Items
  BY NextCallTyped, CallWritesItems DEF BusInv
<1>4. wr[0] \in Write /\ rd[0] \in Read
  BY <1>1 DEF BusInv, WriteTypes, ReadTypes
<1>5. wr'[0].aw # "none" =>
        /\ call'.at = "go"
        /\ wr'[0].item = Item("MDIO_CMD", call'.cmd \cup {11}, 0 .. 3)
  <2>1. CASE wr[0].aw = "none" \/ b
    <3>1. wr'[0].aw # "none" => wr'[0].item \in CallWrites(call')
      BY <1>1, <1>3, <1>4, <2>1, NextWriteShape DEF b
    <3> QED  BY <3>1 DEF CallWrites
  <2>2. CASE ~(wr[0].aw = "none" \/ b)
    <3>1. wr'[0].item = wr[0].item
      BY <1>1, <1>3, <1>4, <2>2, NextWriteShape DEF b
    <3> QED  BY <1>2, <2>2, <3>1 DEF CallAccess
  <2> QED  BY <2>1, <2>2
<1>6. CallReads(call') \in SUBSET Addresses
  BY DEF CallReads, Addresses, ReadOnly
<1>7. rd'[0].ar # "none" =>
        \/ call'.at \in {"wait", "poll"} /\ rd'[0].addr = "STATUS"
        \/ call'.at = "rdata" /\ rd'[0].addr = "MDIO_RDATA"
  <2>1. CASE rd[0].ar = "none" \/ r
    <3>1. rd'[0].ar # "none" => rd'[0].addr \in CallReads(call')
      BY <1>1, <1>4, <1>6, <2>1, NextReadShape DEF r
    <3> QED  BY <3>1 DEF CallReads
  <2>2. CASE ~(rd[0].ar = "none" \/ r)
    <3>1. rd'[0].addr = rd[0].addr
      BY <1>1, <1>4, <1>6, <2>2, NextReadShape DEF r
    <3> QED  BY <1>2, <2>2, <3>1 DEF CallAccess
  <2> QED  BY <2>1, <2>2
<1> QED  BY <1>5, <1>7 DEF CallAccess

\* An edge keeps what emz_mdio_read's call knows of the command it gave.
LEMMA CallInvStep ==
  ASSUME BusInv, BusInv', CallInv, Next
  PROVE  CallInv'
<1>1. PICK bready \in BOOLEAN, rready \in BOOLEAN, late \in BOOLEAN,
           finish \in BOOLEAN, evt \in SUBSET Events :
        Edge(bready, rready, late, finish, evt)
  BY DEF Next, Open
<1>2. WriteEdge(bready, late) /\ ReadEdge(rready)
  BY <1>1, WriteEdgeOf, ReadEdgeOf DEF BusInv
<1>3. PICK bb, events : WriteStep(AwIn, WIn, bb, events, mdio_busy_r)
  BY <1>1 DEF Edge
<1>4. /\ MdioBusy /\ MdioMaster(finish)
      /\ s_axi_rdata' = IF ReadTakes(ArIn)
                        THEN ReadValue(ArIn.addr, {}, mdio_busy_r, mdio.rdata, {})
                        ELSE s_axi_rdata
      /\ intruded' = (call.at # "idle" /\ (intruded \/ (Writes("MDIO_CMD") /\ WMux = 1)))
  BY <1>1 DEF Edge, ReadStep, History
<1>5. /\ call' \in NextCalls(BHandshake(0, bready), RHandshake(0, rready))
      /\ wr'[0] \in NextWrites(0, bready, late, CallWrites(call'))
      /\ rd'[0] \in NextReads(0, rready, CallReads(call'))
  <2>1. PICK c, w0, w1, r0, r1 :
          /\ c \in NextCalls(BHandshake(0, bready), RHandshake(0, rready))
          /\ w0 \in NextWrites(0, bready, late, CallWrites(c))
          /\ r0 \in NextReads(0, rready, CallReads(c))
          /\ call' = c
          /\ wr' = [m \in Masters |-> IF m = 0 THEN w0 ELSE w1]
          /\ rd' = [m \in Masters |-> IF m = 0 THEN r0 ELSE r1]
    BY <1>1 DEF Edge
  <2> QED  BY <2>1 DEF Masters
<1>6. (GoInv /\ MdioShape)'
  BY GoInvStep DEF CallInv
<1>7. (reg = [a \in RW |-> reg[a]])' /\ mdio_busy_r' \in BOOLEAN
  <2>1. reg' = [a \in RW |-> reg'[a]]
    BY <1>3 DEF WriteStep, RegisterFile, CallInv
  <2>2. RW' = RW
    BY DEF RW, Mask
  <2> QED  BY <1>4, <2>1, <2>2 DEF MdioBusy
<1>8. CallAccess'
  BY <1>5, CallAccessStep DEF CallInv
<1>9. ~intruded' => CallProgress'
  <2> SUFFICES ASSUME ~intruded' PROVE CallProgress'
    OBVIOUS
  <2> DEFINE b == BHandshake(0, bready)
             r == RHandshake(0, rready)
  <2>1. b \in BOOLEAN /\ r \in BOOLEAN /\ 0 \in Masters
    BY DEF BHandshake, RHandshake, Masters
  <2> HIDE DEF b, r
  \* Pulses of mdio_go.
  <2>2. mdio_go' => /\ wr_fire
                    /\ call.at # "idle" => WMux = 0 /\ call.at = "go"
                    /\ call.at = "idle" => arbitrated
    <3> SUFFICES ASSUME mdio_go' PROVE /\ wr_fire
                                       /\ call.at # "idle" => WMux = 0 /\ call.at = "go"
                                       /\ call.at = "idle" => arbitrated
      OBVIOUS
    <3>1. /\ wr_fire
          /\ \/ WMux = 1 /\ arbitrated /\ Writes("MDIO_CMD")
             \/ WMux = 0 /\ call.at = "go"
      BY <1>3, GoSource DEF CallInv
    <3> QED  BY <1>4, <3>1
  \* Answers to master 0.
  <2>3. Answered' => /\ RGrant(0) /\ rd[0].ar # "none" /\ ~r
                     /\ IF ReadTakes(ArIn) THEN ArIn.addr = rd[0].addr ELSE Answered
    BY <1>2, AnswerSource DEF r
  <2>4. ReadTakes(ArIn) /\ ArIn.addr = "STATUS" =>
          (2 \in s_axi_rdata') = mdio_busy_r
    <3>1. "STATUS" \notin RW
      BY DEF RW, Mask
    <3> QED  BY <1>4, <3>1 DEF ReadValue, CallInv
  <2>5. ReadTakes(ArIn) /\ ArIn.addr = "MDIO_RDATA" => s_axi_rdata' = mdio.rdata
    <3>1. "MDIO_RDATA" \notin RW
      BY DEF RW, Mask
    <3> QED  BY <1>4, <3>1 DEF ReadValue
  <2>6. r => Answered
    BY DEF r, RHandshake, Answered
  <2>7. b => Acked
    BY DEF b, BHandshake, Acked
  <2>8. ~b => Acked' = (Acked \/ (wr_fire /\ WMux = 0))
    BY <1>2, AckSource DEF b
  <2>9. Acked => ~wr_fire
    BY DEF Acked, wr_fire
  \* Moves of the call, and the MDIO side when no GO is accepted.
  <2>10. CallTyped(call) /\ CallTyped(call') /\ call.cmd \subseteq 0 .. 4
    BY DEF BusInv, CallTyped
  <2>11. /\ call.at = "idle" => call' = call \/ call'.at = "wait"
         /\ call.at = "wait" /\ r =>
              \/ call' = call \/ call'.at = "idle"
              \/ 2 \notin s_axi_rdata /\ call'.at = "go" /\ call'.cmd = call.cmd
         /\ call.at = "go" /\ b => call'.at = "poll" /\ call'.cmd = call.cmd
         /\ call.at = "poll" /\ r =>
              \/ call' = call \/ call'.at = "idle"
              \/ 2 \notin s_axi_rdata /\ call'.at = "rdata" /\ call'.cmd = call.cmd
         /\ call.at = "rdata" /\ r =>
              call'.at = "got" /\ call'.cmd = call.cmd /\ call'.value = s_axi_rdata
         /\ call.at = "got" => call'.at = "idle"
         /\ call.at \in {"wait", "poll", "rdata"} /\ ~r => call' = call
         /\ call.at = "go" /\ ~b => call' = call
    BY <1>5, <2>1, <2>10, CallMoves DEF b, r
  <2>12. ~mdio_go' /\ call'.cmd = call.cmd =>
           /\ Quiet => Quiet'
           /\ Starting => Running'
           /\ Running => Running' \/ Finished'
           /\ Finished => Finished'
    BY <1>4, <2>10, MdioNoGo DEF CallInv
  <2>13. call.at # "idle" => CallProgress
    BY <1>4 DEF CallInv
  <2>14. CASE call.at = "idle"
    <3>1. rd[0].ar = "none"
      BY <2>14 DEF CallInv, CallAccess
    <3>2. ~Answered'
      BY <2>3, <3>1
    <3>3. arbitrated => ~RGrant(0)'
      <4> SUFFICES ASSUME arbitrated PROVE ~RGrant(0)'
        OBVIOUS
      <4>1. ~RGrant(0)
        BY <2>1, <3>1 DEF BusInv, ReadInv, Sampled
      <4> DEFINE arv == {m \in Masters : rd[m].ar = "valid"}
                 h == \E m \in Masters : RHandshake(m, rready)
      <4>2. 0 \notin arv /\ h \in BOOLEAN /\ r_busy \in BOOLEAN /\ r_sel \in {0, 1}
        BY <3>1 DEF BusInv, ReadTypes
      <4>3. /\ r_busy' = Grant(r_busy, r_sel, arv, h)[1]
            /\ r_sel' = Grant(r_busy, r_sel, arv, h)[2] /\ UNCHANGED arbitrated
        BY <1>2 DEF ReadEdge
      <4>4. ~(r_busy /\ r_sel = 0)
        BY <4>1 DEF RGrant
      <4> HIDE DEF arv, h
      <4>5. ~(r_busy' /\ r_sel' = 0)
        BY <4>2, <4>3, <4>4, GrantAfter
      <4> QED  BY <4>3, <4>5 DEF RGrant
    <3>4. mdio_go' => arbitrated' /\ ~RGrant(0)'
      BY <1>2, <2>2, <2>14, <3>3 DEF ReadEdge
    <3> QED  BY <2>11, <2>14, <3>2, <3>4 DEF CallProgress
  <2>15. CASE call.at = "wait"
    <3>1. ~mdio_go'
      BY <2>2, <2>15
    <3>2. CASE ~r
      <4>1. call' = call
        BY <2>11, <2>15, <3>2
      <4>2. Answered' /\ 2 \notin s_axi_rdata' => Quiet
        <5> SUFFICES ASSUME Answered', 2 \notin s_axi_rdata' PROVE Quiet
          OBVIOUS
        <5>1. RGrant(0) /\ rd[0].addr = "STATUS"
          BY <2>3, <2>15 DEF CallInv, CallAccess
        <5>2. CASE ReadTakes(ArIn)
          <6>1. ~mdio_busy_r
            BY <2>3, <2>4, <5>1, <5>2 DEF CallInv
          <6>2. ~mdio_go
            BY <2>13, <2>15, <5>1 DEF CallProgress
          <6> QED  BY <6>1, <6>2 DEF Quiet, CallInv, GoInv
        <5>3. CASE ~ReadTakes(ArIn)
          BY <1>4, <2>3, <2>13, <2>15, <5>3 DEF CallProgress
        <5> QED  BY <5>2, <5>3
      <4> QED  BY <2>12, <2>15, <3>1, <4>1, <4>2 DEF CallProgress
    <3>3. CASE r
      <4>1. ~Answered'
        BY <2>3, <3>3
      <4>2. CASE call' = call \/ call'.at = "idle"
        BY <2>15, <3>1, <4>1, <4>2 DEF CallProgress
      <4>3. CASE 2 \notin s_axi_rdata /\ call'.at = "go" /\ call'.cmd = call.cmd
        <5>1. Quiet'
          BY <2>6, <2>12, <2>13, <2>15, <3>1, <3>3, <4>3 DEF CallProgress
        <5>2. ~b
          <6>1. wr[0].aw = "none"
            BY <2>15 DEF CallInv, CallAccess
          <6> QED  BY <2>1, <2>7, <6>1 DEF BusInv, WriteInv, Taken, Acked
        <5>3. ~Acked'
          <6>1. wr[0].aw = "none"
            BY <2>15 DEF CallInv, CallAccess
          <6>2. ~Acked
            BY <2>1, <6>1 DEF BusInv, WriteInv, Taken, Acked
          <6>3. ~(wr_fire /\ WMux = 0)
            BY <6>1, FireOwner
          <6> QED  BY <2>8, <5>2, <6>2, <6>3
        <5> QED  BY <4>3, <5>1, <5>3 DEF CallProgress
      <4> QED  BY <2>11, <2>15, <3>3, <4>2, <4>3
    <3> QED  BY <2>1, <3>2, <3>3
  <2>16. CASE call.at = "go"
    <3>1. CASE b
      <4>1. Starting \/ Running \/ Finished
        BY <2>7, <2>13, <2>16, <3>1 DEF CallProgress
      <4>2. ~mdio_go'
        BY <2>2, <2>7, <2>9, <3>1
      <4>3. call'.at = "poll" /\ (Running' \/ Finished')
        BY <2>11, <2>12, <2>16, <3>1, <4>1, <4>2
      <4>4. ~Answered'
        BY <2>3, <2>16 DEF CallInv, CallAccess
      <4> QED  BY <4>3, <4>4 DEF CallProgress
    <3>2. CASE ~b /\ Acked
      <4>1. call' = call /\ Acked' /\ ~mdio_go'
        BY <2>2, <2>8, <2>9, <2>11, <2>16, <3>2
      <4>2. Starting \/ Running \/ Finished
        BY <2>13, <2>16, <3>2 DEF CallProgress
      <4>3. Running' \/ Finished'
        BY <2>12, <4>1, <4>2
      <4> QED  BY <2>16, <4>1, <4>3 DEF CallProgress
    <3>3. CASE ~b /\ ~Acked /\ wr_fire /\ WMux = 0
      <4>1. call' = call /\ Acked' /\ Quiet
        BY <2>8, <2>11, <2>13, <2>16, <3>3 DEF CallProgress
      <4>2. Starting'
        BY <1>3, <1>4, <3>3, <4>1, GoWritten
      <4> QED  BY <2>16, <4>1, <4>2 DEF CallProgress
    <3>4. CASE ~b /\ ~Acked /\ ~(wr_fire /\ WMux = 0)
      <4>1. call' = call /\ ~Acked' /\ Quiet /\ ~mdio_go'
        BY <2>2, <2>8, <2>11, <2>13, <2>16, <3>4 DEF CallProgress
      <4>2. Quiet'
        BY <2>12, <4>1
      <4> QED  BY <2>16, <4>1, <4>2 DEF CallProgress
    <3> QED  BY <2>1, <3>1, <3>2, <3>3, <3>4
  <2>17. CASE call.at = "poll"
    <3>1. ~mdio_go' /\ (Running \/ Finished)
      BY <2>2, <2>13, <2>17 DEF CallProgress
    <3>2. CASE ~r
      <4>1. call' = call /\ (Running' \/ Finished')
        BY <2>11, <2>12, <2>17, <3>1, <3>2
      <4>2. Answered' /\ 2 \notin s_axi_rdata' => Finished
        <5> SUFFICES ASSUME Answered', 2 \notin s_axi_rdata' PROVE Finished
          OBVIOUS
        <5>1. rd[0].addr = "STATUS"
          BY <2>3, <2>17 DEF CallInv, CallAccess
        <5>2. CASE ReadTakes(ArIn)
          BY <2>3, <2>4, <3>1, <5>1, <5>2 DEF Running
        <5>3. CASE ~ReadTakes(ArIn)
          BY <1>4, <2>3, <2>13, <2>17, <5>3 DEF CallProgress
        <5> QED  BY <5>2, <5>3
      <4> QED  BY <2>12, <2>17, <3>1, <4>1, <4>2 DEF CallProgress
    <3>3. CASE r
      <4>1. ~Answered'
        BY <2>3, <3>3
      <4>2. CASE call' = call \/ call'.at = "idle"
        BY <2>12, <2>17, <3>1, <4>1, <4>2 DEF CallProgress
      <4>3. CASE 2 \notin s_axi_rdata /\ call'.at = "rdata" /\ call'.cmd = call.cmd
        BY <2>6, <2>12, <2>13, <2>17, <3>1, <3>3, <4>1, <4>3 DEF CallProgress
      <4> QED  BY <2>11, <2>17, <3>3, <4>2, <4>3
    <3> QED  BY <2>1, <3>2, <3>3
  <2>18. CASE call.at = "rdata"
    <3>1. ~mdio_go' /\ Finished
      BY <2>2, <2>13, <2>18 DEF CallProgress
    <3>2. CASE ~r
      <4>1. call' = call /\ Finished'
        BY <2>11, <2>12, <2>18, <3>1, <3>2
      <4>2. Answered' => s_axi_rdata' = call.cmd
        <5> SUFFICES ASSUME Answered' PROVE s_axi_rdata' = call.cmd
          OBVIOUS
        <5>1. rd[0].addr = "MDIO_RDATA"
          BY <2>3, <2>18 DEF CallInv, CallAccess
        <5>2. CASE ReadTakes(ArIn)
          BY <2>3, <2>5, <3>1, <5>1, <5>2 DEF Finished
        <5>3. CASE ~ReadTakes(ArIn)
          BY <1>4, <2>3, <2>13, <2>18, <5>3 DEF CallProgress
        <5> QED  BY <5>2, <5>3
      <4> QED  BY <2>18, <4>1, <4>2 DEF CallProgress
    <3>3. CASE r
      BY <2>6, <2>11, <2>13, <2>18, <3>3 DEF CallProgress
    <3> QED  BY <2>1, <3>2, <3>3
  <2>19. CASE call.at = "got"
    BY <2>11, <2>19 DEF CallProgress
  <2> QED  BY <2>10, <2>14, <2>15, <2>16, <2>17, <2>18, <2>19 DEF CallTyped
<1> QED  BY <1>6, <1>7, <1>8, <1>9 DEF CallInv

\* An MDIO read that the bridge did not disturb returns the answer to its own
\* command (driver/linux/emaczero.c: emz_mdio_read over axilite_regs.v,
\* eth_mac_sys.v: mdio_busy_r and mdio_master.v), whatever else the bridge does and
\* however long the MDIO frame takes.
THEOREM MdioReadIsOwn == Spec => []MdioReadsOwnResult
<1>1. Init => CallInv
  <2> SUFFICES ASSUME Init PROVE CallInv
    OBVIOUS
  <2>1. GoInv /\ MdioShape /\ mdio_busy_r \in BOOLEAN
    BY DEF Init, RegsInit, GoInv, MdioShape, mdio_go
  <2>2. reg = [a \in RW |-> reg[a]]
    BY DEF Init, RegsInit
  <2>3. call.at = "idle" /\ wr[0].aw = "none" /\ rd[0].ar = "none"
    BY DEF Init, NoCall, NoWrite, NoRead, Masters
  <2> QED  BY <2>1, <2>2, <2>3 DEF CallInv, CallAccess, CallProgress
<1>2. BusInv /\ BusInv' /\ CallInv /\ [Next]_vars => CallInv'
  <2>1. ASSUME CallInv, UNCHANGED vars PROVE CallInv'
    BY <2>1 DEF vars, arb, regs, wchan, rchan, CallInv, GoInv, MdioShape, mdio_go,
                CallAccess, CallProgress, Quiet, Starting, Running, Finished, Acked,
                Answered, WGrant, RGrant, RW, Mask
  <2> QED  BY <2>1, CallInvStep
<1>3. CallInv => MdioReadsOwnResult
  BY DEF CallInv, CallProgress, MdioReadsOwnResult
<1> QED  BY <1>1, <1>2, <1>3, BusInvInit, BusInvStep, PTL DEF Spec
=============================================================================
