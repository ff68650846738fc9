---------------------------- MODULE EmzTxProofs -----------------------------
(***************************************************************************)
(* What holds of the driver's gate, watchdog and rebuild (EmzTx) for every *)
(* ring size, wake threshold, index range and failure, with proofs; and    *)
(* that its transmit ring stays consistent: slots, indices, BQL, the DMA   *)
(* channel and the queue agree.                                            *)
(***************************************************************************)
EXTENDS EmzTx, SequenceTheorems, TLAPS

\* The places of the rtnl holder between netif_tx_disable and the end of
\* emz_datapath_up, and those after the gate was opened again.
Rebuilding == {"drain", "wait", "stop", "clear", "alloc", "post", "flush",
               "enable", "wake", "fail"}
Opened     == {"alloc", "post", "flush", "enable", "wake"}

\* As much of the types as the argument needs.
Shapes ==
  /\ ctl \in [at : CtlPlaces, again : BOOLEAN]
  /\ cb = [at |-> cb.at, idx |-> cb.idx, failed |-> cb.failed]
  /\ napi = [at |-> napi.at, tail |-> napi.tail, head |-> napi.head]

\* Whoever takes the datapath down or up holds rtnl until the end; only an
\* interface that is to run again gets past emz_dma_stop.
Phase ==
  /\ datapath_up => ctl.at = "idle" /\ running
  /\ ctl.at \in Opened \cup {"clear"} => running
  /\ ctl.again => running
  /\ ctl.at \in Opened \cup {"clear", "fail", "idle"} => ~ctl.again

\* GateIsServed, also between the opening of the gate and the end of the rebuild.
GateServed ==
  (reset_pending /\ (datapath_up \/ ctl.at \in Opened)) =>
     work_queued \/ xmit = "work" \/ cb.at = "work"

\* With the datapath down and the quiescing steps done, no frame and no poll is
\* in the driver, except the first poll of the next datapath, which finds an
\* empty ring.
Down == ~datapath_up /\ ctl.at \notin {"watchdog", "napi", "disable"}

Quiet ==
  /\ Down => queue_stopped /\ xmit = "idle" /\ ~batch
  /\ (ctl.at = "disable" \/ (Down /\ ctl.at # "wake")) =>
        napi_state = "off" /\ napi.at = "idle"
  /\ ctl.at \in Opened => tx_head = tx_tail
  /\ ctl.at = "wake" =>
        /\ napi.at \in {"idle", "loop", "rx", "complete"}
        /\ napi.at = "loop" => napi.tail = tx_tail /\ napi.head = tx_tail

IndInv == Shapes /\ Phase /\ GateServed /\ WatchdogKept /\ Quiet

\* emz_start_xmit
LEMMA XmitKeeps == IndInv /\ (XmitEnter \/ Xmit) => IndInv'
<1> USE DEF IndInv, Shapes, Phase, GateServed, WatchdogKept, Quiet, Down, Opened,
      CtlPlaces, queue_stopped, ring, gate, iface, chan, XmitUnchanged, napi_schedule, issue_pending
<1> SUFFICES ASSUME IndInv, XmitEnter \/ Xmit PROVE IndInv'
  OBVIOUS
<1>1. CASE XmitEnter
  BY <1>1 DEF XmitEnter
<1>2. CASE XmitBusy
  BY <1>2 DEF XmitBusy
<1>3. CASE XmitPublish
  BY <1>3 DEF XmitPublish
<1>4. CASE XmitFailed
  BY <1>4 DEF XmitFailed
<1>5. CASE XmitFull
  BY <1>5 DEF XmitFull
<1>6. ASSUME NEW dropped \in CanFail, XmitGate(dropped) PROVE IndInv'
  BY <1>6 DEF XmitGate
<1>7. ASSUME NEW refused \in CanFail, XmitSubmit(refused) PROVE IndInv'
  BY <1>7 DEF XmitSubmit
<1>8. ASSUME NEW more \in BOOLEAN, XmitFlush(more) PROVE IndInv'
  BY <1>8 DEF XmitFlush
<1> QED BY <1>1, <1>2, <1>3, <1>4, <1>5, <1>6, <1>7, <1>8 DEF Xmit

\* emz_poll
LEMMA NapiKeeps == IndInv /\ (Napi) => IndInv'
<1> USE DEF IndInv, Shapes, Phase, GateServed, WatchdogKept, Quiet, Down, Opened,
      CtlPlaces, queue_stopped, ring, gate, iface, chan, NapiUnchanged, NapiAt, emz_request_reset
<1> SUFFICES ASSUME IndInv, Napi PROVE IndInv'
  OBVIOUS
<1>1. CASE NapiStart
  BY <1>1 DEF NapiStart
<1>2. CASE NapiLoop
  BY <1>2 DEF NapiLoop
<1>3. CASE NapiBql
  BY <1>3 DEF NapiBql
<1>4. CASE NapiRelease
  BY <1>4 DEF NapiRelease
<1>5. CASE NapiWake
  BY <1>5 DEF NapiWake
<1>6. ASSUME NEW failed \in CanFail, NapiRx(failed) PROVE IndInv'
  BY <1>6 DEF NapiRx
<1>7. ASSUME NEW left \in BOOLEAN, NapiComplete(left) PROVE IndInv'
  BY <1>7 DEF NapiComplete
<1> QED BY <1>1, <1>2, <1>3, <1>4, <1>5, <1>6, <1>7 DEF Napi

\* The channel and its callbacks.
LEMMA DmaKeeps == IndInv /\ (DmaHalt \/ emz_tx_dma_done \/ emz_rx_dma_failed
      \/ \E starts \in BOOLEAN : DmaComplete(starts)) => IndInv'
<1> USE DEF IndInv, Shapes, Phase, GateServed, WatchdogKept, Quiet, Down, Opened,
      CtlPlaces, queue_stopped, ring, gate, iface, chan, DmaUnchanged, napi_schedule, emz_request_reset, CbIdle
<1> SUFFICES ASSUME IndInv, DmaHalt \/ emz_tx_dma_done \/ emz_rx_dma_failed
      \/ \E starts \in BOOLEAN : DmaComplete(starts) PROVE IndInv'
  OBVIOUS
<1>1. CASE DmaHalt
  BY <1>1 DEF DmaHalt
<1>2. CASE emz_tx_dma_done
  BY <1>2 DEF emz_tx_dma_done
<1>3. CASE emz_rx_dma_failed
  BY <1>3 DEF emz_rx_dma_failed
<1>4. ASSUME NEW starts \in BOOLEAN, DmaComplete(starts) PROVE IndInv'
  BY <1>4 DEF DmaComplete
<1> QED BY <1>1, <1>2, <1>3, <1>4

CtlStart == emz_reset_work \/ emz_open \/ emz_stop \/ emz_csum_config

\* The rtnl holder.
LEMMA CtlKeeps == IndInv /\ (CtlStart \/ CtlStep) => IndInv'
<1> USE DEF IndInv, Shapes, Phase, GateServed, WatchdogKept, Quiet, Down, Opened,
      CtlPlaces, queue_stopped, ring, gate, iface, chan, CtlUnchanged, Goto, WdOff, issue_pending
<1> SUFFICES ASSUME IndInv, CtlStart \/ CtlStep PROVE IndInv'
  OBVIOUS
<1>1. CASE emz_reset_work
  <2>1. CASE running /\ datapath_up /\ reset_pending
    <3>1. /\ datapath_up' = FALSE /\ ctl' = [at |-> "watchdog", again |-> TRUE]
          /\ UNCHANGED <<running, queue, xmit, batch, napi, cb, wd, tx_head, tx_tail>>
      BY <1>1, <2>1 DEF emz_reset_work
    <3> QED BY <2>1, <3>1
  <2>2. CASE ~(running /\ datapath_up /\ reset_pending)
    <3>1. /\ UNCHANGED <<datapath_up, ctl, running, queue, xmit, batch, napi, cb, wd>>
          /\ UNCHANGED <<reset_pending, napi_state, tx_head, tx_tail>>
          /\ ctl.at = "idle"
      BY <1>1, <2>2 DEF emz_reset_work
    <3>2. Shapes' /\ Phase' /\ WatchdogKept' /\ Quiet'
      BY <3>1
    <3>3. GateServed'
      BY <2>2, <3>1
    <3> QED BY <3>2, <3>3
  <2> QED BY <2>1, <2>2
<1>2. CASE emz_open
  BY <1>2 DEF emz_open
<1>3. CASE emz_stop
  BY <1>3 DEF emz_stop
<1>4. CASE emz_csum_config
  BY <1>4 DEF emz_csum_config
<1>5. CASE CtlQuiesce
  BY <1>5 DEF CtlQuiesce
<1>6. CASE emz_dma_stop
  BY <1>6 DEF emz_dma_stop
<1>7. CASE CtlClear
  BY <1>7 DEF CtlClear
<1>8. CASE CtlEnable
  <2>1. CASE /\ ctl.at = "enable" /\ Goto("wake")
             /\ napi_state' = "sched"
             /\ UNCHANGED <<datapath_up, queue, wd>>
    <3>1. UNCHANGED <<xmit, batch, napi, cb, running, tx_head, tx_tail, gate>>
      BY <1>8 DEF CtlEnable
    <3>2. ~datapath_up /\ ~datapath_up'
      BY <2>1
    <3> QED BY <2>1, <3>1, <3>2
  <2>2. CASE /\ ctl.at = "wake" /\ Goto("idle")
             /\ datapath_up' = TRUE
             /\ queue' = "running"
             /\ wd' = [armed |-> TRUE, tail |-> 0, stuck |-> 0]
    <3>1. UNCHANGED <<xmit, batch, napi, cb, running, tx_head, tx_tail, gate>>
      BY <1>8 DEF CtlEnable
    <3> QED BY <2>2, <3>1
  <2> QED BY <1>8, <2>1, <2>2 DEF CtlEnable
<1>9. CASE CtlFail
  BY <1>9 DEF CtlFail
<1>10. ASSUME NEW gives_up \in BOOLEAN, emz_tx_drain(gives_up) PROVE IndInv'
  BY <1>10 DEF emz_tx_drain
<1>11. ASSUME NEW failed \in CanFail, CtlPrepare(failed) PROVE IndInv'
  BY <1>11 DEF CtlPrepare
<1> QED BY <1>1, <1>2, <1>3, <1>4, <1>5, <1>6, <1>7, <1>8, <1>9, <1>10,
  <1>11 DEF CtlStart, CtlStep

\* The two timers.
LEMMA WdKeeps == IndInv /\ (emz_tx_timeout
      \/ \E carrier \in Carriers, rx_stalled \in CanFail :
           emz_watchdog(carrier, rx_stalled)) => IndInv'
<1> USE DEF IndInv, Shapes, Phase, GateServed, WatchdogKept, Quiet, Down, Opened,
      CtlPlaces, queue_stopped, ring, gate, iface, chan, WdUnchanged, emz_request_reset, WdOff
<1> SUFFICES ASSUME IndInv, emz_tx_timeout
      \/ \E carrier \in Carriers, rx_stalled \in CanFail :
           emz_watchdog(carrier, rx_stalled) PROVE IndInv'
  OBVIOUS
<1>1. CASE emz_tx_timeout
  BY <1>1 DEF emz_tx_timeout
<1>2. ASSUME NEW carrier \in Carriers, NEW rx_stalled \in CanFail,
             emz_watchdog(carrier, rx_stalled) PROVE IndInv'
  BY <1>2 DEF emz_watchdog
<1> QED BY <1>1, <1>2

\* The closed interface after probe satisfies the invariant.
LEMMA InitInd == Init => IndInv
  BY DEF Init, IndInv, Shapes, Phase, GateServed, WatchdogKept, Quiet, Down,
     Opened, CtlPlaces, queue_stopped, NapiAt, CbIdle, WdOff

\* Every step of the driver keeps it.
LEMMA NextInd == IndInv /\ [Next]_vars => IndInv'
<1> SUFFICES ASSUME IndInv, [Next]_vars PROVE IndInv'
  OBVIOUS
<1>1. CASE UNCHANGED vars
  BY <1>1 DEF vars, ring, gate, iface, chan, IndInv, Shapes, Phase, GateServed,
     WatchdogKept, Quiet, Down, queue_stopped
<1> QED
  BY <1>1, XmitKeeps, NapiKeeps, DmaKeeps, CtlKeeps, WdKeeps DEF Next, CtlStart

\* So it holds throughout.
LEMMA Inductive == Spec => []IndInv
  BY InitInd, NextInd, PTL DEF Spec

\* A closed gate on a running datapath always has a rebuild coming: no failure, of
\* the channel or of a submit, in whatever order it meets a rebuild that is under
\* way, leaves emz_start_xmit dropping frames with no reset work queued.
THEOREM GateNeverForgotten == Spec => []GateIsServed
<1>1. IndInv => GateIsServed
  BY DEF IndInv, GateServed, GateIsServed
<1> QED BY <1>1, Inductive, PTL

\* Whenever the datapath is up, emz_watchdog is armed or has asked for a rebuild:
\* there is no time at which a channel that halts in silence is not noticed.
THEOREM WatchdogNeverLost == Spec => []WatchdogKept
<1>1. IndInv => WatchdogKept
  BY DEF IndInv
<1> QED BY <1>1, Inductive, PTL

\* Both together: whatever fails, and whatever it races with, the driver still has
\* a rebuild queued or a watchdog that will ask for one.
THEOREM RecoveryNeverLost == Spec => []RecoveryKept
<1>1. GateIsServed /\ WatchdogKept => RecoveryKept
  BY DEF RecoveryKept
<1> QED BY <1>1, GateNeverForgotten, WatchdogNeverLost, PTL

\* From netif_tx_disable to the end of emz_datapath_up no frame is inside
\* emz_start_xmit, no poll runs before napi_enable, and nothing wakes the queue:
\* the rings are freed and cleared under nobody's feet.
THEOREM RebuildIsQuiet == Spec => []QuietDuringRebuild
<1>1. IndInv => QuietDuringRebuild
  <2> SUFFICES ASSUME IndInv, ctl.at \in Rebuilding
               PROVE  /\ queue_stopped /\ xmit = "idle"
                      /\ ctl.at # "wake" => napi.at = "idle"
    BY DEF QuietDuringRebuild, Rebuilding
  <2>1. Down
    BY DEF IndInv, Phase, Down, Rebuilding
  <2> QED BY <2>1 DEF IndInv, Quiet
<1> QED BY <1>1, Inductive, PTL

\* A needed rebuild is never forgotten and never disturbed, for every ring size,
\* stall threshold and workload.
THEOREM RebuildIsSound == Spec => []RebuildSound
<1>1. RecoveryKept /\ QuietDuringRebuild => RebuildSound
  BY DEF RebuildSound
<1> QED BY <1>1, RecoveryNeverLost, RebuildIsQuiet, PTL

-----------------------------------------------------------------------------
(* A slot that failed closes the gate before anyone can reuse it. *)

IsSlot(r) == r = [done |-> r.done, failed |-> r.failed]
IsRing(s) == s = [i \in Slots |-> s[i]] /\ \A i \in Slots : IsSlot(s[i])

FailedClosesGate ==
  /\ tx_head \in Indices
  /\ IsRing(slot)
  /\ cb = [at |-> cb.at, idx |-> cb.idx, failed |-> cb.failed]
  /\ \A i \in Slots : slot[i].failed => reset_pending

\* The free-running indices wrap inside their range and select a slot.
LEMMA IndexArithmetic ==
  ASSUME NEW i \in Indices
  PROVE  Next1(i) \in Indices /\ i % Ring \in Slots
  BY EmzTxAssumption DEF Indices, Slots, Next1

\* Setting done of a slot leaves the other fields and slots alone.
LEMMA SlotDone ==
  ASSUME NEW s, IsRing(s), NEW x, NEW b
  PROVE  /\ IsRing([s EXCEPT ![x].done = b])
         /\ \A i \in Slots : [s EXCEPT ![x].done = b][i].failed = s[i].failed
<1>1. ASSUME NEW i \in Slots PROVE [s EXCEPT ![x].done = b][i].failed = s[i].failed
  BY DEF IsRing, IsSlot
<1>2. IsRing([s EXCEPT ![x].done = b])
  BY DEF IsRing, IsSlot
<1> QED BY <1>1, <1>2

\* The same for failed.
LEMMA SlotFailed ==
  ASSUME NEW s, IsRing(s), NEW x, NEW b
  PROVE  /\ IsRing([s EXCEPT ![x].failed = b])
         /\ \A i \in Slots : [s EXCEPT ![x].failed = b][i].failed
                               = IF i = x THEN b ELSE s[i].failed
<1>1. ASSUME NEW i \in Slots
      PROVE  [s EXCEPT ![x].failed = b][i].failed = IF i = x THEN b ELSE s[i].failed
  BY DEF IsRing, IsSlot
<1>2. IsRing([s EXCEPT ![x].failed = b])
  BY DEF IsRing, IsSlot
<1> QED BY <1>1, <1>2

\* A failed slot and the gate: every step keeps them together.
LEMMA FailedInd == FailedClosesGate /\ [Next]_vars => FailedClosesGate'
<1> USE DEF FailedClosesGate, ring, gate, chan, iface
<1> SUFFICES ASSUME FailedClosesGate, [Next]_vars PROVE FailedClosesGate'
  OBVIOUS
<1>1. CASE UNCHANGED vars
  BY <1>1 DEF vars
<1>2. CASE XmitEnter \/ XmitBusy \/ XmitFull
  BY <1>2 DEF XmitEnter, XmitBusy, XmitFull, XmitUnchanged, issue_pending
<1>3. CASE XmitPublish
  BY <1>3, IndexArithmetic DEF XmitPublish, XmitUnchanged
<1>4. CASE XmitFailed
  <2>1. UNCHANGED <<tx_head, cb, reset_pending>>
    BY <1>4 DEF XmitFailed, XmitUnchanged
  <2>2. slot' = slot \/ slot' = [slot EXCEPT ![XmitSlot].done = TRUE]
    BY <1>4 DEF XmitFailed
  <2>3. IsRing(slot')
    <3>1. CASE slot' = slot
      BY <3>1, Zenon
    <3>2. CASE slot' = [slot EXCEPT ![XmitSlot].done = TRUE]
      BY <3>2, SlotDone
    <3> QED BY <2>2, <3>1, <3>2
  <2>4. ASSUME NEW i \in Slots PROVE slot'[i].failed = slot[i].failed
    <3>1. CASE slot' = slot
      BY <3>1
    <3>2. CASE slot' = [slot EXCEPT ![XmitSlot].done = TRUE]
      BY <3>2, SlotDone
    <3> QED BY <2>2, <3>1, <3>2
  <2> QED BY <2>1, <2>3, <2>4
<1>5. ASSUME NEW dropped \in CanFail, XmitGate(dropped) PROVE FailedClosesGate'
  BY <1>5, IndexArithmetic DEF XmitGate, XmitUnchanged, IsRing, IsSlot
<1>6. ASSUME NEW refused \in CanFail, XmitSubmit(refused) PROVE FailedClosesGate'
  <2>1. CASE refused
    <3>1. /\ UNCHANGED <<tx_head, cb>> /\ reset_pending' = TRUE
          /\ slot' = [slot EXCEPT ![XmitSlot].failed = TRUE]
      BY <1>6, <2>1 DEF XmitSubmit, XmitUnchanged
    <3>2. IsRing(slot')
      BY <3>1, SlotFailed
    <3> QED BY <3>1, <3>2
  <2>2. CASE ~refused
    BY <1>6, <2>2 DEF XmitSubmit, XmitUnchanged
  <2> QED BY <2>1, <2>2
<1>7. ASSUME NEW more \in BOOLEAN, XmitFlush(more) PROVE FailedClosesGate'
  BY <1>7 DEF XmitFlush, XmitUnchanged, issue_pending
<1>8. CASE Napi
  BY <1>8 DEF Napi, NapiStart, NapiLoop, NapiBql, NapiRelease, NapiWake, NapiRx,
     NapiComplete, NapiUnchanged, emz_request_reset
<1>9. CASE emz_tx_dma_done
  <2>1. tx_head' = tx_head
    BY <1>9 DEF emz_tx_dma_done, DmaUnchanged
  <2>2. cb' = [at |-> cb'.at, idx |-> cb'.idx, failed |-> cb'.failed]
    BY <1>9 DEF emz_tx_dma_done, CbIdle
  <2>3. CASE cb.at = "status"
    <3>1. slot' = [slot EXCEPT ![cb.idx].failed = cb.failed]
      BY <1>9, <2>3 DEF emz_tx_dma_done
    <3>4. IsRing(slot')
      BY <3>1, SlotFailed
    <3>2. CASE cb.failed
      <4>1. reset_pending' = TRUE
        BY <1>9, <2>3, <3>2 DEF emz_tx_dma_done
      <4> QED BY <2>1, <2>2, <3>4, <4>1
    <3>3. CASE ~cb.failed
      <4>1. reset_pending' = reset_pending
        BY <1>9, <2>3, <3>3 DEF emz_tx_dma_done
      <4>2. ASSUME NEW i \in Slots, slot'[i].failed PROVE slot[i].failed
        BY <3>1, <3>3, <4>2, SlotFailed
      <4> QED BY <2>1, <2>2, <3>4, <4>1, <4>2
    <3> QED BY <3>2, <3>3
  <2>4. CASE cb.at # "status"
    <3>1. reset_pending' = reset_pending
      BY <1>9, <2>4 DEF emz_tx_dma_done
    <3>2. slot' = slot \/ slot' = [slot EXCEPT ![cb.idx].done = TRUE]
      BY <1>9, <2>4 DEF emz_tx_dma_done
    <3>3. IsRing(slot')
      <4>1. CASE slot' = slot
        BY <4>1, Zenon
      <4>2. CASE slot' = [slot EXCEPT ![cb.idx].done = TRUE]
        BY <4>2, SlotDone
      <4> QED BY <3>2, <4>1, <4>2
    <3>4. ASSUME NEW i \in Slots PROVE slot'[i].failed = slot[i].failed
      <4>1. CASE slot' = slot
        BY <4>1
      <4>2. CASE slot' = [slot EXCEPT ![cb.idx].done = TRUE]
        BY <4>2, SlotDone
      <4> QED BY <3>2, <4>1, <4>2
    <3> QED BY <2>1, <2>2, <3>1, <3>3, <3>4
  <2> QED BY <2>3, <2>4
<1>10. CASE DmaHalt \/ emz_rx_dma_failed
  <2>1. UNCHANGED <<tx_head, slot, cb>>
    BY <1>10 DEF DmaHalt, emz_rx_dma_failed, DmaUnchanged
  <2>2. reset_pending' = reset_pending \/ reset_pending' = TRUE
    BY <1>10 DEF DmaHalt, emz_rx_dma_failed, emz_request_reset
  <2> QED BY <2>1, <2>2
<1>16. ASSUME NEW starts \in BOOLEAN, DmaComplete(starts) PROVE FailedClosesGate'
  <2>1. UNCHANGED <<tx_head, slot, reset_pending>>
    BY <1>16 DEF DmaComplete, DmaUnchanged
  <2>2. cb' = [at |-> "status", idx |-> Head(active), failed |-> halted]
    BY <1>16 DEF DmaComplete
  <2>3. cb' = [at |-> cb'.at, idx |-> cb'.idx, failed |-> cb'.failed]
    BY <2>2, Zenon
  <2> QED BY <2>1, <2>3
<1>11. CASE CtlClear
  BY <1>11, EmzTxAssumption DEF CtlClear, CtlUnchanged, Indices, IsRing, IsSlot
<1>12. CASE CtlStart
  BY <1>12 DEF CtlStart, emz_reset_work, emz_open, emz_stop, emz_csum_config,
     CtlUnchanged
<1>13. CASE CtlStep /\ ~CtlClear
  BY <1>13 DEF CtlStep, CtlQuiesce, emz_dma_stop, CtlEnable, CtlFail, emz_tx_drain,
     CtlPrepare, CtlUnchanged, issue_pending
<1>14. CASE \E carrier \in Carriers, rx_stalled \in CanFail :
              emz_watchdog(carrier, rx_stalled)
  BY <1>14 DEF emz_watchdog, WdUnchanged, emz_request_reset
<1>15. CASE emz_tx_timeout
  BY <1>15 DEF emz_tx_timeout, WdUnchanged, emz_request_reset
<1> QED
  BY <1>1, <1>2, <1>3, <1>4, <1>5, <1>6, <1>7, <1>8, <1>9, <1>10, <1>11, <1>12,
     <1>13, <1>14, <1>15, <1>16 DEF Next, Xmit, CtlStart

\* emz_start_xmit never fills a slot whose last frame failed before the rings are
\* rebuilt: a submit to a channel with an error would reset the whole DMA core.
THEOREM FailedSlotStaysOut == Spec => FailedSlotNotReused
<1>1. Init => FailedClosesGate
  BY EmzTxAssumption DEF Init, FailedClosesGate, Indices, CbIdle, IsRing,
     IsSlot
<1>2. FailedClosesGate /\ [Next]_vars =>
        [(xmit = "gate" /\ xmit' = "publish") => ~slot[tx_head % Ring].failed]_vars
  <2> SUFFICES ASSUME FailedClosesGate, Next, xmit = "gate", xmit' = "publish"
               PROVE  ~slot[tx_head % Ring].failed
    OBVIOUS
  <2>1. ~reset_pending
    BY DEF Next, XmitEnter, Xmit, XmitBusy, XmitPublish, XmitFailed, XmitFull,
       XmitGate, XmitSubmit, XmitFlush, Napi, NapiStart, NapiLoop, NapiBql,
       NapiRelease, NapiWake, NapiRx, NapiComplete, NapiUnchanged, DmaHalt,
       emz_tx_dma_done, emz_rx_dma_failed, DmaComplete, DmaUnchanged,
       emz_reset_work, emz_open, emz_stop, emz_csum_config, CtlStep, CtlQuiesce,
       emz_dma_stop, CtlClear, CtlEnable, CtlFail, emz_tx_drain, CtlPrepare,
       CtlUnchanged, emz_watchdog, emz_tx_timeout, WdUnchanged
  <2> QED BY <2>1, IndexArithmetic DEF FailedClosesGate
<1> QED BY <1>1, <1>2, FailedInd, PTL DEF Spec, FailedSlotNotReused

-----------------------------------------------------------------------------
(* Remainders.  The free-running indices count modulo Wrap and select their *)
(* slot modulo Ring, and neither number is known.                           *)

\* Division with remainder, for a divisor that is not a numeral.
LEMMA DivMod ==
  ASSUME NEW n \in Nat \ {0}, NEW x \in Int
  PROVE  \E q \in Int : \E r \in 0 .. n - 1 : x = n * q + r /\ x % n = r
<1>1. x = n * (x \div n) + (x % n) /\ x % n \in 0 .. n - 1 /\ x \div n \in Int
  OBVIOUS
<1> QED  BY <1>1

\* The remainder is the only one.
LEMMA ModIs ==
  ASSUME NEW n \in Nat \ {0}, NEW x \in Int, NEW q \in Int, NEW r \in 0 .. n - 1,
         x = n * q + r
  PROVE  x % n = r
<1>1. ASSUME NEW p \in Int, NEW s \in 0 .. n - 1, n * q + r = n * p + s
      PROVE  r = s
  BY <1>1
<1> QED  BY <1>1, DivMod

\* One step up in a ring of n.
LEMMA ModNext ==
  ASSUME NEW n \in Nat \ {0}, NEW x \in Int
  PROVE  (x + 1) % n = IF x % n = n - 1 THEN 0 ELSE (x % n) + 1
<1>1. PICK q \in Int, r \in 0 .. n - 1 : x = n * q + r /\ x % n = r
  BY DivMod
<1>2. n * (q + 1) = n * q + n /\ q + 1 \in Int /\ x + 1 \in Int
  BY <1>1
<1>3. CASE r # n - 1
  <2>1. x + 1 = n * q + (r + 1) /\ r + 1 \in 0 .. n - 1
    BY <1>1, <1>3
  <2> QED  BY <1>1, <1>2, <1>3, <2>1, ModIs
<1>4. CASE r = n - 1
  <2>1. x + 1 = n * (q + 1) + 0 /\ 0 \in 0 .. n - 1
    BY <1>1, <1>2, <1>4
  <2>2. (x + 1) % n = 0
    BY <1>2, <2>1, ModIs
  <2> QED  BY <1>1, <1>4, <2>2
<1> QED  BY <1>3, <1>4

\* Remainders of differences.
LEMMA ModMinus ==
  ASSUME NEW n \in Nat \ {0}, NEW x \in Int, NEW y \in Int
  PROVE  /\ (x % n) >= (y % n) => (x - y) % n = (x % n) - (y % n)
         /\ ~((x % n) >= (y % n)) => (x - y) % n = (x % n) - (y % n) + n
<1> DEFINE r == x % n
           s == y % n
<1>1. PICK q \in Int : x = n * q + r /\ r \in 0 .. n - 1
  BY DivMod
<1>2. PICK p \in Int : y = n * p + s /\ s \in 0 .. n - 1
  BY DivMod
<1> HIDE DEF r, s
<1>3. /\ n * (q - p) = n * q - n * p /\ n * (q - p - 1) = n * q - n * p - n
      /\ q - p \in Int /\ q - p - 1 \in Int /\ x - y \in Int
  OBVIOUS
<1>4. ASSUME r >= s PROVE (x - y) % n = r - s
  <2>1. x - y = n * (q - p) + (r - s) /\ r - s \in 0 .. n - 1
    BY <1>1, <1>2, <1>3, <1>4
  <2> QED  BY ONLY n \in Nat \ {0}, <1>3, <2>1, ModIs
<1>5. ASSUME ~(r >= s) PROVE (x - y) % n = r - s + n
  <2>1. x - y = n * (q - p - 1) + (r - s + n) /\ r - s + n \in 0 .. n - 1
    BY <1>1, <1>2, <1>3, <1>5
  <2> QED  BY ONLY n \in Nat \ {0}, <1>3, <2>1, ModIs
<1> QED  BY ONLY <1>4, <1>5, Zenon DEF r, s

\* A range w that is a multiple of n does not show in remainders by n.
LEMMA ModOfMultiple ==
  ASSUME NEW n \in Nat \ {0}, NEW w \in Nat \ {0}, w % n = 0, NEW x \in Int
  PROVE  (x % w) % n = x % n
<1>1. PICK q \in Int, r \in 0 .. w - 1 : x = w * q + r /\ x % w = r
  BY DivMod
<1>2. PICK p \in Int : w = n * p
  <2>1. PICK p \in Int, s \in 0 .. n - 1 : w = n * p + s /\ w % n = s
    BY DivMod
  <2> QED  BY <2>1
<1>3. PICK a \in Int, b \in 0 .. n - 1 : r = n * a + b /\ r % n = b
  <2>1. r \in Int /\ n \in Nat \ {0}
    OBVIOUS
  <2> QED  BY ONLY <2>1, DivMod
<1>4. x = n * (p * q + a) + b /\ p * q + a \in Int
  <2>1. w * q = n * (p * q) /\ p * q \in Int
    <3>1. ASSUME NEW i \in Int, NEW j \in Int, NEW k \in Int
          PROVE  (i * j) * k = i * (j * k) /\ j * k \in Int
      BY SMT
    <3>2. n \in Int
      OBVIOUS
    <3>3. (n * p) * q = n * (p * q) /\ p * q \in Int
      BY ONLY <3>1, <3>2, p \in Int, q \in Int, Zenon
    <3> QED  BY ONLY <1>2, <3>3, Zenon
  <2>2. n * (p * q + a) = n * (p * q) + n * a
    BY <2>1
  <2> QED  BY <1>1, <1>3, <2>1, <2>2
<1>5. x % n = b
  BY <1>4, ModIs
<1> QED  BY <1>1, <1>3, <1>5

-----------------------------------------------------------------------------
(* The inductive invariant. *)

\* How far slot s lies ahead of slot t, and of the slot that completes next.
Ahead(s, t) == IF s >= t THEN s - t ELSE s - t + Ring
Pos(i) == Ahead(i, tx_tail % Ring)

Used == Minus(tx_head, tx_tail)

\* The channel belongs to a datapath from emz_datapath_up to emz_dma_stop.
Live == datapath_up \/ ctl.at \in {"watchdog", "napi", "disable", "drain", "wait", "stop"}

\* Who has to set done of a slot: the running callback, the channel, and
\* emz_start_xmit between its publishing and its submit or its giving up.  In
\* this order they are in ring order.
CbSlot  == IF cb.at \in {"status", "work", "done"} THEN <<cb.idx>> ELSE << >>
GivenUp == IF xmit \in {"submit", "work", "done"} THEN <<XmitSlot>> ELSE << >>
Owned   == (CbSlot \o (active \o submitted)) \o GivenUp

\* With d slots in flight from slot t on: those not done are the slots in o, each
\* once and in ring order.
Owns(o, t, d, s) ==
  /\ \A j, k \in 1 .. Len(o) : j <= k => Ahead(o[k], t) - Ahead(o[j], t) >= k - j
  /\ \A k \in 1 .. Len(o) : Ahead(o[k], t) < d /\ ~s[o[k]].done
  /\ \A i \in Slots : Ahead(i, t) < d /\ ~s[i].done
                         => \E k \in 1 .. Len(o) : o[k] = i

OwnedInv == Live => Owns(Owned, tx_tail % Ring, Used, slot)

\* A channel that was stopped holds nothing, and no callback runs.
StoppedInv == ~Live => active = << >> /\ submitted = << >> /\ cb.at = "idle"

\* The ring never overfills; a frame being written has its slot.
RoomInv ==
  /\ Used <= Ring
  /\ xmit \in {"gate", "publish"} => Used < Ring
  /\ xmit = "publish" => ~slot[tx_head % Ring].done

\* What a poll has walked over is done, and it stays inside the ring.
WalkInv ==
  napi.at \in {"loop", "bql", "release"} =>
    /\ Minus(napi.tail, tx_tail) <= Minus(napi.head, tx_tail)
    /\ Minus(napi.head, tx_tail) <= Used
    /\ \A i \in Slots : Pos(i) < Minus(napi.tail, tx_tail) => slot[i].done

BqlInv ==
  IF Live THEN bql = Minus(tx_head, IF napi.at = "release" THEN napi.tail ELSE tx_tail)
                       + (IF xmit = "publish" THEN 1 ELSE 0)
  ELSE bql = 0

\* Every frame published is sent, failed, or still to be one of the two.
Owing ==
  Len(active) + Len(submitted)
    + (IF cb.at = "status" /\ cb.failed THEN 1 ELSE 0)
    + (IF xmit = "submit" THEN 1 ELSE 0)

CountInv ==
  (Live \/ ctl.at \in Opened) => (tx_failed + handed + Owing - tx_head) % Wrap = 0

\* TypeOK without the two bounds that the rest of the invariant gives.
RingWords  == [Slots -> [done : BOOLEAN, failed : BOOLEAN]]
Queues     == {"running", "full", "busy", "disabled"}
NapiStates == {"off", "idle", "sched", "missed"}
XmitPlaces == {"idle", "busy", "gate", "publish", "submit", "work", "done",
               "napi", "full", "stop", "issue", "recheck", "start", "flush"}
NapiRecs   == [at : {"idle", "loop", "bql", "release", "check", "wake", "rx",
                     "complete"}, tail : Indices, head : Indices]
CbRecs     == [at : {"idle", "status", "work", "done", "napi"}, idx : Slots,
               failed : BOOLEAN]
CtlRecs    == [at : CtlPlaces, again : BOOLEAN]
WdRecs     == [armed : BOOLEAN, tail : Indices, stuck : 0 .. StallTicks - 1]
Channels   == Seq(Slots)

Types ==
  /\ tx_head \in Indices /\ tx_tail \in Indices /\ tx_failed \in Indices
  /\ handed \in Indices
  /\ slot \in RingWords
  /\ queue \in Queues
  /\ reset_pending \in BOOLEAN /\ work_queued \in BOOLEAN
  /\ datapath_up \in BOOLEAN /\ running \in BOOLEAN
  /\ napi_state \in NapiStates
  /\ submitted \in Channels /\ active \in Channels
  /\ halted \in BOOLEAN /\ batch \in BOOLEAN
  /\ xmit \in XmitPlaces
  /\ napi \in NapiRecs /\ cb \in CbRecs /\ ctl \in CtlRecs /\ wd \in WdRecs

RingParts == OwnedInv /\ StoppedInv /\ RoomInv /\ WalkInv /\ BqlInv /\ CountInv
RingInv   == Types /\ RingParts

-----------------------------------------------------------------------------
(* The indices. *)

\* What the assumption on the constants says of the ring.
LEMMA Sizes ==
  /\ Ring \in Nat \ {0} /\ Wrap \in Nat \ {0} /\ Wrap >= 2 * Ring /\ Wrap % Ring = 0
  /\ Wake \in Nat /\ 1 <= Wake /\ Wake <= Ring
BY EmzTxAssumption

\* The lemmas above for the two moduli of the ring.
LEMMA RingArithmetic ==
  ASSUME NEW x \in Int, NEW y \in Int
  PROVE  /\ (x % Wrap) % Ring = x % Ring
         /\ (x - y) % Ring = Ahead(x % Ring, y % Ring)
         /\ (x + 1) % Ring = IF x % Ring = Ring - 1 THEN 0 ELSE (x % Ring) + 1
         /\ x % Ring \in Slots
<1>1. x \in Int /\ y \in Int
  OBVIOUS
<1>2. (x % Wrap) % Ring = x % Ring
  BY ONLY <1>1, Sizes, ModOfMultiple
<1>3. Ring \in Nat \ {0}
  BY Sizes
<1>4. (x + 1) % Ring = IF x % Ring = Ring - 1 THEN 0 ELSE (x % Ring) + 1
  BY ONLY <1>1, Sizes, ModNext
<1>5. x % Ring \in Slots
  BY ONLY <1>1, Sizes DEF Slots
<1>6. (x - y) % Ring = Ahead(x % Ring, y % Ring)
  BY ONLY <1>1, <1>3, ModMinus, Zenon DEF Ahead
<1> QED  BY ONLY <1>2, <1>4, <1>5, <1>6

\* The next index, and how far one index is behind another.
LEMMA IndexIs ==
  ASSUME NEW i \in Indices, NEW j \in Indices
  PROVE  /\ Next1(i) = IF i = Wrap - 1 THEN 0 ELSE i + 1
         /\ Minus(i, j) = IF i >= j THEN i - j ELSE i - j + Wrap
         /\ Next1(i) \in Indices /\ Minus(i, j) \in Indices
<1>1. i \in 0 .. Wrap - 1 /\ j \in 0 .. Wrap - 1 /\ Wrap \in Nat \ {0}
  BY Sizes DEF Indices
<1>2. Next1(i) = IF i = Wrap - 1 THEN 0 ELSE i + 1
  <2>1. CASE i = Wrap - 1
    <3>1. Wrap % Wrap = 0
      BY <1>1
    <3> QED  BY <1>1, <2>1, <3>1 DEF Next1
  <2>2. CASE i # Wrap - 1
    <3>1. i + 1 \in 0 .. Wrap - 1
      BY <1>1, <2>2
    <3>2. (i + 1) % Wrap = i + 1
      BY <1>1, <3>1
    <3> QED  BY <2>2, <3>2 DEF Next1
  <2> QED  BY <2>1, <2>2
<1>3. Minus(i, j) = IF i >= j THEN i - j ELSE i - j + Wrap
  <2>1. i % Wrap = i /\ j % Wrap = j
    BY <1>1
  <2>2. i \in Int /\ j \in Int
    BY <1>1
  <2>3. /\ (i % Wrap) >= (j % Wrap) => (i - j) % Wrap = (i % Wrap) - (j % Wrap)
        /\ ~((i % Wrap) >= (j % Wrap)) => (i - j) % Wrap = (i % Wrap) - (j % Wrap) + Wrap
    BY ONLY <1>1, <2>2, ModMinus, Zenon
  <2> QED  BY <2>1, <2>3 DEF Minus
<1> QED  BY <1>1, <1>2, <1>3 DEF Indices

\* An index and the next one select neighbouring slots.
LEMMA SlotNext ==
  ASSUME NEW i \in Indices
  PROVE  /\ i % Ring \in Slots
         /\ Next1(i) % Ring = IF i % Ring = Ring - 1 THEN 0 ELSE (i % Ring) + 1
<1>1. i \in Int
  BY Sizes DEF Indices
<1>2. Next1(i) % Ring = (i + 1) % Ring
  BY ONLY <1>1, i + 1 \in Int, RingArithmetic DEF Next1
<1>3. i % Ring \in Slots
  BY IndexArithmetic
<1> QED  BY ONLY <1>1, <1>2, <1>3, RingArithmetic

\* emz_start_xmit knows its slot from the index it published.
LEMMA PublishedSlot ==
  ASSUME NEW h \in Indices
  PROVE  (Next1(h) - 1) % Ring = h % Ring
<1>1. h \in 0 .. Wrap - 1 /\ Wrap \in Nat \ {0} /\ Ring \in Nat \ {0}
  BY Sizes DEF Indices
<1>2. CASE h = Wrap - 1
  <2>1. Next1(h) = 0
    BY <1>2, IndexIs
  <2>2. (-1) % Ring = Ring - 1
    BY <1>1, ModIs
  <2>3. 0 % Ring = 0
    BY <1>1
  <2>4. 0 = IF h % Ring = Ring - 1 THEN 0 ELSE (h % Ring) + 1
    BY <2>1, <2>3, SlotNext
  <2>5. h % Ring \in 0 .. Ring - 1
    BY SlotNext DEF Slots
  <2>6. h % Ring = Ring - 1
    BY <1>1, <2>4, <2>5
  <2> QED  BY <2>1, <2>2, <2>6
<1>3. CASE h # Wrap - 1
  <2>1. Next1(h) = h + 1
    BY <1>3, IndexIs
  <2>2. Next1(h) - 1 = h
    BY <1>1, <2>1
  <2> QED  BY <2>2
<1> QED  BY <1>2, <1>3

\* Less than a ring apart, two indices are as far apart as their slots.
LEMMA SlotsApart ==
  ASSUME NEW i \in Indices, NEW j \in Indices, Minus(i, j) < Ring
  PROVE  Ahead(i % Ring, j % Ring) = Minus(i, j)
<1>1. i \in Int /\ j \in Int /\ Minus(i, j) \in Nat /\ Ring \in Nat \ {0}
  BY Sizes, IndexIs DEF Indices
<1>2. Minus(i, j) % Ring = (i - j) % Ring
  <2>1. i - j \in Int
    BY <1>1
  <2> QED  BY ONLY <2>1, RingArithmetic DEF Minus
<1>3. Minus(i, j) % Ring = Minus(i, j)
  BY <1>1
<1>4. (i - j) % Ring = Ahead(i % Ring, j % Ring)
  BY ONLY <1>1, RingArithmetic
<1> QED  BY <1>2, <1>3, <1>4

\* A slot's distance is a place in the ring, and tells slots apart.
LEMMA AheadIs ==
  ASSUME NEW s \in Slots, NEW t \in Slots
  PROVE  /\ Ahead(s, t) \in Slots
         /\ \A r \in Slots : Ahead(r, t) = Ahead(s, t) => r = s
BY Sizes DEF Slots, Ahead

\* InFlight, without remainders.
LEMMA InFlightIs ==
  ASSUME tx_tail \in Indices, NEW i \in Slots
  PROVE  i \in InFlight <=> Pos(i) < Used
<1>1. tx_tail % Ring \in Slots
  BY SlotNext
<1> DEFINE t == tx_tail % Ring
<1>2. t \in 0 .. Ring - 1 /\ i \in 0 .. Ring - 1 /\ Ring \in Nat \ {0}
  BY <1>1, Sizes DEF Slots
<1> HIDE DEF t
<1>a. i \in Int /\ t \in Int /\ i - t \in Int
  BY <1>2
<1>3. Minus(i, t) % Ring = (i - t) % Ring
  BY ONLY <1>a, RingArithmetic DEF Minus
<1>4. i % Ring = i /\ t % Ring = t
  BY <1>2
<1>5. (i - t) % Ring = Ahead(i, t)
  BY ONLY <1>a, <1>4, RingArithmetic
<1> QED  BY <1>3, <1>5 DEF InFlight, Pos, Used, t

\* From one index to another at most a ring further on.
LEMMA IndexMoves ==
  ASSUME NEW h \in Indices, NEW t \in Indices, NEW u \in Indices,
         Minus(u, t) <= Minus(h, t), Minus(h, t) <= Ring
  PROVE  /\ Minus(h, u) = Minus(h, t) - Minus(u, t)
         /\ Minus(h, t) < Ring => Minus(Next1(h), t) = Minus(h, t) + 1
         /\ Minus(u, t) < Minus(h, t) => Minus(Next1(u), t) = Minus(u, t) + 1
         /\ Minus(t, t) = 0
         /\ Minus(u, t) = 0 => u = t
         /\ Minus(u, t) = Minus(h, t) => u = h
<1>1. /\ h \in 0 .. Wrap - 1 /\ t \in 0 .. Wrap - 1 /\ u \in 0 .. Wrap - 1
      /\ Wrap \in Nat /\ Ring \in Nat \ {0} /\ Wrap >= 2 * Ring
  BY Sizes DEF Indices
<1>2. /\ Minus(u, t) = IF u >= t THEN u - t ELSE u - t + Wrap
      /\ Minus(h, t) = IF h >= t THEN h - t ELSE h - t + Wrap
      /\ Minus(h, u) = IF h >= u THEN h - u ELSE h - u + Wrap
      /\ Minus(t, t) = IF t >= t THEN t - t ELSE t - t + Wrap
  BY IndexIs
<1>3. /\ Next1(h) = IF h = Wrap - 1 THEN 0 ELSE h + 1
      /\ Next1(u) = IF u = Wrap - 1 THEN 0 ELSE u + 1
      /\ Next1(h) \in Indices /\ Next1(u) \in Indices
  BY IndexIs
<1>4. /\ Minus(Next1(h), t) = IF Next1(h) >= t THEN Next1(h) - t ELSE Next1(h) - t + Wrap
      /\ Minus(Next1(u), t) = IF Next1(u) >= t THEN Next1(u) - t ELSE Next1(u) - t + Wrap
  BY <1>3, IndexIs
<1>5. Minus(h, u) = Minus(h, t) - Minus(u, t)
  BY <1>1, <1>2
<1>6. Minus(h, t) < Ring => Minus(Next1(h), t) = Minus(h, t) + 1
  BY <1>1, <1>2, <1>3, <1>4
<1>7. Minus(u, t) < Minus(h, t) => Minus(Next1(u), t) = Minus(u, t) + 1
  BY <1>1, <1>2, <1>3, <1>4
<1> QED  BY <1>1, <1>2, <1>5, <1>6, <1>7

\* A whole ring apart, two indices select the same slot.
LEMMA RingApart ==
  ASSUME NEW i \in Indices, NEW j \in Indices, Minus(i, j) = Ring
  PROVE  i % Ring = j % Ring
<1>1. i \in Int /\ j \in Int /\ Minus(i, j) \in Nat /\ Ring \in Nat \ {0}
  BY Sizes, IndexIs DEF Indices
<1>2. Minus(i, j) % Ring = (i - j) % Ring
  <2>1. i - j \in Int
    BY <1>1
  <2> QED  BY ONLY <2>1, RingArithmetic DEF Minus
<1>3. Minus(i, j) % Ring = 0
  BY <1>1
<1>4. Ahead(i % Ring, j % Ring) = 0 /\ i % Ring \in Slots /\ j % Ring \in Slots
  BY ONLY <1>1, <1>2, <1>3, RingArithmetic
<1> QED  BY <1>1, <1>4 DEF Ahead, Slots

\* The slots' distances after the tail has moved to u.
LEMMA TailMoves ==
  ASSUME NEW t \in Indices, NEW u \in Indices, Minus(u, t) <= Ring, NEW i \in Slots
  PROVE  /\ Ahead(i, t % Ring) >= Minus(u, t)
              => Ahead(i, u % Ring) = Ahead(i, t % Ring) - Minus(u, t)
         /\ Ahead(i, t % Ring) < Minus(u, t)
              => Ahead(i, u % Ring) = Ahead(i, t % Ring) - Minus(u, t) + Ring
<1>1. t % Ring \in Slots /\ u % Ring \in Slots
  BY SlotNext
<1> DEFINE a == t % Ring
           b == u % Ring
           e == Minus(u, t)
<1>2. e \in Nat /\ Ring \in Nat \ {0} /\ e <= Ring
  BY Sizes, IndexIs DEF Indices
<1>3. e < Ring => Ahead(b, a) = e
  BY SlotsApart
<1>4. e = Ring => a = b
  BY RingApart
<1> HIDE DEF a, b, e
<1>5. a \in 0 .. Ring - 1 /\ b \in 0 .. Ring - 1 /\ i \in 0 .. Ring - 1
  BY <1>1 DEF a, b, Slots
<1>6. /\ Ahead(i, a) >= e => Ahead(i, b) = Ahead(i, a) - e
      /\ Ahead(i, a) < e => Ahead(i, b) = Ahead(i, a) - e + Ring
  BY <1>2, <1>3, <1>4, <1>5 DEF Ahead
<1> QED  BY <1>6 DEF a, b, e

-----------------------------------------------------------------------------
(* The owned slots. *)

\* No more are owned than are in flight.
LEMMA OwnsLen ==
  ASSUME NEW o \in Seq(Slots), NEW t \in Slots, NEW d \in Nat, NEW s, Owns(o, t, d, s)
  PROVE  Len(o) <= d
<1>1. CASE Len(o) = 0
  BY <1>1
<1>2. CASE Len(o) # 0
  <2> DEFINE n == Len(o)
  <2>1. n \in Nat /\ 1 \in 1 .. n /\ n \in 1 .. n /\ o[1] \in Slots /\ o[n] \in Slots
    BY <1>2
  <2>2. Ahead(o[1], t) \in Slots /\ Ahead(o[n], t) \in Slots
    BY <2>1, AheadIs
  <2> HIDE DEF n
  <2>3. Ahead(o[n], t) - Ahead(o[1], t) >= n - 1 /\ Ahead(o[n], t) < d
    BY <2>1 DEF Owns, n
  <2> QED  BY <2>1, <2>2, <2>3, Sizes DEF Slots, n
<1> QED  BY <1>1, <1>2

\* Only done flags of slots in flight matter.
LEMMA OwnsSame ==
  ASSUME NEW o \in Seq(Slots), NEW t \in Slots, NEW d \in Nat, NEW s, Owns(o, t, d, s),
         NEW s2, \A i \in Slots : Ahead(i, t) < d => s2[i].done = s[i].done
  PROVE  Owns(o, t, d, s2)
<1>1. \A k \in 1 .. Len(o) : o[k] \in Slots
  OBVIOUS
<1> QED  BY <1>1 DEF Owns

\* The next slot is published, not done.
LEMMA OwnsAppend ==
  ASSUME NEW o \in Seq(Slots), NEW t \in Slots, NEW d \in Nat, NEW s, Owns(o, t, d, s),
         NEW x \in Slots, Ahead(x, t) = d, ~s[x].done
  PROVE  Owns(Append(o, x), t, d + 1, s)
<1> DEFINE n == Len(o)
           p == Append(o, x)
<1>1. /\ n \in Nat /\ p \in Seq(Slots) /\ Len(p) = n + 1 /\ p[n + 1] = x
      /\ \A k \in 1 .. n : p[k] = o[k] /\ o[k] \in Slots
  BY AppendProperties
<1>2. \A i \in Slots : Ahead(i, t) \in Int /\ (Ahead(i, t) = d => i = x)
  <2> SUFFICES ASSUME NEW i \in Slots
               PROVE  Ahead(i, t) \in Int /\ (Ahead(i, t) = d => i = x)
    OBVIOUS
  <2>1. Ahead(i, t) \in Slots /\ (Ahead(i, t) = Ahead(x, t) => i = x)
    BY AheadIs
  <2> QED  BY <2>1, Sizes DEF Slots
<1> HIDE DEF n, p
<1>3. /\ \A j, k \in 1 .. n : j <= k => Ahead(o[k], t) - Ahead(o[j], t) >= k - j
      /\ \A k \in 1 .. n : Ahead(o[k], t) < d /\ ~s[o[k]].done
      /\ \A i \in Slots : Ahead(i, t) < d /\ ~s[i].done => \E k \in 1 .. n : o[k] = i
  BY DEF Owns, n
<1>4. ASSUME NEW j \in 1 .. n + 1, NEW k \in 1 .. n + 1, j <= k
      PROVE  Ahead(p[k], t) - Ahead(p[j], t) >= k - j
  <2>1. CASE k \in 1 .. n
    <3>1. j \in 1 .. n /\ p[j] = o[j] /\ p[k] = o[k]
      BY <1>1, <1>4, <2>1
    <3> QED  BY <1>3, <1>4, <2>1, <3>1
  <2>2. CASE k = n + 1 /\ j \in 1 .. n
    <3>1. n \in 1 .. n /\ p[j] = o[j] /\ p[k] = x /\ o[j] \in Slots /\ o[n] \in Slots
      BY <1>1, <2>2
    <3>2. Ahead(o[n], t) - Ahead(o[j], t) >= n - j /\ Ahead(o[n], t) < d
      BY <1>3, <2>2, <3>1
    <3> QED  BY <1>1, <1>2, <2>2, <3>1, <3>2
  <2>3. CASE k = n + 1 /\ j = n + 1
    BY <1>1, <1>2, <2>3
  <2> QED  BY <1>1, <2>1, <2>2, <2>3
<1>5. ASSUME NEW k \in 1 .. n + 1
      PROVE  Ahead(p[k], t) < d + 1 /\ ~s[p[k]].done
  <2>1. CASE k \in 1 .. n
    <3>1. /\ p[k] = o[k] /\ Ahead(o[k], t) \in Int
          /\ Ahead(o[k], t) < d /\ ~s[o[k]].done
      BY <1>1, <1>2, <1>3, <2>1
    <3> QED  BY <3>1
  <2>2. CASE k = n + 1
    BY <1>1, <2>2
  <2> QED  BY <1>1, <2>1, <2>2
<1>6. ASSUME NEW i \in Slots, Ahead(i, t) < d + 1, ~s[i].done
      PROVE  \E k \in 1 .. n + 1 : p[k] = i
  <2>1. CASE i = x
    BY <1>1, <2>1
  <2>2. CASE i # x
    <3>1. Ahead(i, t) < d
      BY <1>2, <1>6, <2>2
    <3>2. PICK k \in 1 .. n : o[k] = i
      BY <1>3, <1>6, <3>1
    <3> QED  BY <1>1, <3>2
  <2> QED  BY <2>1, <2>2
<1> QED  BY <1>1, <1>4, <1>5, <1>6 DEF Owns, p

\* The callback sets done of the oldest.
LEMMA OwnsFirst ==
  ASSUME NEW o \in Seq(Slots), NEW t \in Slots, NEW d \in Nat, NEW s, Owns(o, t, d, s),
         o # << >>, NEW s2, s2[o[1]].done,
         \A i \in Slots : i # o[1] => s2[i].done = s[i].done
  PROVE  Owns(Tail(o), t, d, s2)
<1> DEFINE n == Len(o)
           p == Tail(o)
<1>1. /\ n \in Nat \ {0} /\ p \in Seq(Slots) /\ Len(p) = n - 1
      /\ \A k \in 1 .. n - 1 : p[k] = o[k + 1] /\ k + 1 \in 1 .. n
      /\ \A k \in 1 .. n : o[k] \in Slots
  OBVIOUS
<1>2. \A i \in Slots : Ahead(i, t) \in Int
  BY AheadIs, Sizes DEF Slots
<1> HIDE DEF n, p
<1>3. /\ \A j, k \in 1 .. n : j <= k => Ahead(o[k], t) - Ahead(o[j], t) >= k - j
      /\ \A k \in 1 .. n : Ahead(o[k], t) < d /\ ~s[o[k]].done
      /\ \A i \in Slots : Ahead(i, t) < d /\ ~s[i].done => \E k \in 1 .. n : o[k] = i
  BY DEF Owns, n
<1>4. ASSUME NEW j \in 1 .. n - 1, NEW k \in 1 .. n - 1, j <= k
      PROVE  Ahead(p[k], t) - Ahead(p[j], t) >= k - j
  <2>1. /\ p[k] = o[k + 1] /\ p[j] = o[j + 1] /\ k + 1 \in 1 .. n /\ j + 1 \in 1 .. n
        /\ j + 1 <= k + 1 /\ (k + 1) - (j + 1) = k - j
    BY <1>1, <1>4
  <2> QED  BY <1>3, <2>1
<1>5. ASSUME NEW k \in 1 .. n - 1
      PROVE  Ahead(p[k], t) < d /\ ~s2[p[k]].done
  <2>a. k \in Nat /\ 1 \in 1 .. n /\ 1 <= k + 1 /\ k + 1 # 1
    BY <1>1
  <2>1. p[k] = o[k + 1] /\ k + 1 \in 1 .. n /\ 1 \in 1 .. n /\ 1 <= k + 1 /\ k + 1 # 1
    BY <1>1, <2>a
  <2>2. o[k + 1] \in Slots /\ o[1] \in Slots /\ (k + 1) - 1 > 0
    BY <1>1, <2>1
  <2>3. Ahead(o[k + 1], t) - Ahead(o[1], t) >= (k + 1) - 1
    BY <1>3, <2>1
  <2>4. o[k + 1] # o[1]
    BY <1>2, <2>2, <2>3
  <2> QED  BY <1>3, <2>1, <2>2, <2>4
<1>6. ASSUME NEW i \in Slots, Ahead(i, t) < d, ~s2[i].done
      PROVE  \E k \in 1 .. n - 1 : p[k] = i
  <2>1. i # o[1]
    BY <1>6
  <2>2. PICK k \in 1 .. n : o[k] = i
    BY <1>3, <1>6, <2>1
  <2>3. k - 1 \in 1 .. n - 1 /\ (k - 1) + 1 = k
    BY <1>1, <2>1, <2>2
  <2> QED  BY <1>1, <2>2, <2>3
<1> QED  BY <1>1, <1>4, <1>5, <1>6 DEF Owns, p

\* emz_start_xmit gives up the newest.
LEMMA OwnsLast ==
  ASSUME NEW o \in Seq(Slots), NEW t \in Slots, NEW d \in Nat, NEW s, NEW x \in Slots,
         Owns(Append(o, x), t, d, s), NEW s2, s2[x].done,
         \A i \in Slots : i # x => s2[i].done = s[i].done
  PROVE  Owns(o, t, d, s2)
<1> DEFINE n == Len(o)
           p == Append(o, x)
<1>1. /\ n \in Nat /\ p \in Seq(Slots) /\ Len(p) = n + 1 /\ p[n + 1] = x
      /\ \A k \in 1 .. n : p[k] = o[k] /\ o[k] \in Slots /\ k \in 1 .. n + 1
      /\ n + 1 \in 1 .. n + 1
  BY AppendProperties
<1>2. \A i \in Slots : Ahead(i, t) \in Int
  BY AheadIs, Sizes DEF Slots
<1>a. Owns(p, t, d, s)
  OBVIOUS
<1> HIDE DEF n, p
<1>3. /\ \A j, k \in 1 .. n + 1 : j <= k => Ahead(p[k], t) - Ahead(p[j], t) >= k - j
      /\ \A k \in 1 .. n + 1 : Ahead(p[k], t) < d /\ ~s[p[k]].done
      /\ \A i \in Slots : Ahead(i, t) < d /\ ~s[i].done => \E k \in 1 .. n + 1 : p[k] = i
  BY <1>a, <1>1 DEF Owns
<1>4. ASSUME NEW j \in 1 .. n, NEW k \in 1 .. n, j <= k
      PROVE  Ahead(o[k], t) - Ahead(o[j], t) >= k - j
  BY <1>1, <1>3, <1>4
<1>5. ASSUME NEW k \in 1 .. n
      PROVE  Ahead(o[k], t) < d /\ ~s2[o[k]].done
  <2>1. Ahead(p[n + 1], t) - Ahead(p[k], t) >= (n + 1) - k /\ (n + 1) - k > 0
    BY <1>1, <1>3
  <2>2. o[k] # x
    BY <1>1, <1>2, <2>1
  <2> QED  BY <1>1, <1>3, <2>2
<1>6. ASSUME NEW i \in Slots, Ahead(i, t) < d, ~s2[i].done
      PROVE  \E k \in 1 .. n : o[k] = i
  <2>1. i # x
    BY <1>6
  <2>2. PICK k \in 1 .. n + 1 : p[k] = i
    BY <1>3, <1>6, <2>1
  <2> QED  BY <1>1, <2>1, <2>2
<1> QED  BY <1>4, <1>5, <1>6 DEF Owns, n

\* The tail moves over slots that are done.
LEMMA OwnsTail ==
  ASSUME NEW o \in Seq(Slots), NEW t \in Indices, NEW u \in Indices, NEW d \in Nat,
         NEW s, Owns(o, t % Ring, d, s), Minus(u, t) <= d, d <= Ring,
         \A i \in Slots : Ahead(i, t % Ring) < Minus(u, t) => s[i].done
  PROVE  Owns(o, u % Ring, d - Minus(u, t), s)
<1> DEFINE a == t % Ring
           b == u % Ring
           e == Minus(u, t)
<1>1. /\ \A i \in Slots : Ahead(i, a) >= e => Ahead(i, b) = Ahead(i, a) - e
      /\ \A i \in Slots : Ahead(i, a) < e => Ahead(i, b) = Ahead(i, a) - e + Ring
  <2>1. Minus(u, t) <= Ring
    BY IndexIs, Sizes DEF Indices
  <2> QED  BY <2>1, TailMoves
<1>2. e \in Nat /\ e <= d /\ Ring \in Nat
  BY IndexIs, Sizes DEF Indices
<1>3. \A i \in Slots : Ahead(i, a) \in Nat
  <2>1. t % Ring \in Slots
    BY SlotNext
  <2>2. \A i \in Slots : Ahead(i, t % Ring) \in Slots
    BY <2>1, AheadIs
  <2> QED  BY <2>2, Sizes DEF Slots
<1>4. \A i \in Slots : Ahead(i, a) < e => s[i].done
  OBVIOUS
<1>5. Owns(o, a, d, s)
  OBVIOUS
<1> HIDE DEF a, b, e
<1>6. \A k \in 1 .. Len(o) : /\ o[k] \in Slots /\ Ahead(o[k], a) \in Nat
                             /\ Ahead(o[k], b) = Ahead(o[k], a) - e
                             /\ Ahead(o[k], a) < d /\ ~s[o[k]].done
  <2> SUFFICES ASSUME NEW k \in 1 .. Len(o)
               PROVE  /\ o[k] \in Slots /\ Ahead(o[k], a) \in Nat
                      /\ Ahead(o[k], b) = Ahead(o[k], a) - e
                      /\ Ahead(o[k], a) < d /\ ~s[o[k]].done
    OBVIOUS
  <2>1. o[k] \in Slots /\ Ahead(o[k], a) < d /\ ~s[o[k]].done
    BY <1>5 DEF Owns
  <2> QED  BY <1>1, <1>2, <1>3, <1>4, <2>1
<1>7. \A j, k \in 1 .. Len(o) : j <= k => Ahead(o[k], b) - Ahead(o[j], b) >= k - j
  <2> SUFFICES ASSUME NEW j \in 1 .. Len(o), NEW k \in 1 .. Len(o), j <= k
               PROVE  Ahead(o[k], b) - Ahead(o[j], b) >= k - j
    OBVIOUS
  <2>1. Ahead(o[k], a) - Ahead(o[j], a) >= k - j
    BY <1>5 DEF Owns
  <2> QED  BY <1>2, <1>6, <2>1
<1>8. \A k \in 1 .. Len(o) : Ahead(o[k], b) < d - e /\ ~s[o[k]].done
  BY <1>2, <1>6
<1>9. ASSUME NEW i \in Slots, Ahead(i, b) < d - e, ~s[i].done
      PROVE  \E k \in 1 .. Len(o) : o[k] = i
  <2>1. Ahead(i, a) < d
    BY <1>1, <1>2, <1>3, <1>4, <1>9
  <2> QED  BY <1>5, <1>9, <2>1 DEF Owns
<1> QED  BY <1>7, <1>8, <1>9 DEF Owns, b, e

-----------------------------------------------------------------------------
(* Types. *)

\* The constants the types need.
LEMMA SmallFacts ==
  /\ 0 \in Indices /\ 0 \in Slots /\ 0 \in 0 .. StallTicks - 1
  /\ \A c \in Carriers : c \in BOOLEAN
  /\ \A f \in CanFail : f \in BOOLEAN
<1>1. 0 \in Indices /\ 0 \in Slots /\ 0 \in 0 .. StallTicks - 1
  BY Sizes, EmzTxAssumption DEF Indices, Slots
<1>2. (\A c \in Carriers : c \in BOOLEAN) /\ (\A f \in CanFail : f \in BOOLEAN)
  BY EmzTxAssumption, Zenon
<1> QED  BY <1>1, <1>2

\* issue_pending keeps the types of the channel.
LEMMA IssueTypes ==
  ASSUME submitted \in Channels, active \in Channels, halted \in BOOLEAN, issue_pending
  PROVE  submitted' \in Channels /\ active' \in Channels /\ halted' \in BOOLEAN
BY DEF Channels, issue_pending

\* So does every update of a slot word.
LEMMA SlotTypes ==
  ASSUME NEW s \in RingWords, NEW x, NEW b \in BOOLEAN
  PROVE  /\ [s EXCEPT ![x].done = b] \in RingWords
         /\ [s EXCEPT ![x].failed = b] \in RingWords
         /\ [s EXCEPT ![x] = [done |-> FALSE, failed |-> FALSE]] \in RingWords
         /\ [i \in Slots |-> [done |-> FALSE, failed |-> FALSE]] \in RingWords
BY DEF RingWords

\* So does napi_schedule.
LEMMA ScheduleTypes ==
  ASSUME napi_state \in NapiStates, napi_schedule
  PROVE  napi_state' \in NapiStates
BY DEF NapiStates, napi_schedule

\* The program counters the actions assign have the types of theirs.
LEMMA PlaceTypes ==
  /\ \A place \in {"idle", "loop", "bql", "release", "check", "wake", "rx", "complete"} :
       NapiAt(place) \in NapiRecs
  /\ CbIdle \in CbRecs /\ WdOff \in WdRecs
  /\ \A place \in CtlPlaces, a \in BOOLEAN : [at |-> place, again |-> a] \in CtlRecs
BY SmallFacts DEF NapiAt, NapiRecs, CbIdle, CbRecs, WdOff, WdRecs, CtlRecs

\* A step of the rebuild stays among its places.
LEMMA GotoTypes ==
  ASSUME ctl \in CtlRecs, NEW place \in CtlPlaces, Goto(place)
  PROVE  ctl' \in CtlRecs
BY DEF CtlRecs, Goto

\* The slot emz_start_xmit works on.
LEMMA XmitSlotType == Types => XmitSlot \in Slots
<1> SUFFICES ASSUME Types PROVE XmitSlot \in Slots
  OBVIOUS
<1>1. tx_head - 1 \in Int
  BY Sizes DEF Types, Indices
<1> QED  BY ONLY <1>1, RingArithmetic DEF XmitSlot

\* Types: emz_start_xmit.
LEMMA XmitTypes == Types /\ (XmitEnter \/ Xmit) => Types'
<1> SUFFICES ASSUME Types, XmitEnter \/ Xmit PROVE Types'
  OBVIOUS
<1> USE DEF Types, ring, gate, iface, chan, XmitUnchanged
<1>1. CASE XmitEnter
  BY <1>1 DEF XmitEnter, XmitPlaces
<1>2. CASE XmitBusy
  BY <1>2 DEF XmitBusy, XmitPlaces, Queues
<1>3. CASE XmitPublish
  BY <1>3, IndexIs DEF XmitPublish, XmitPlaces
<1>4. CASE XmitFailed
  <2>1. slot' \in RingWords
    BY <1>4, SlotTypes DEF XmitFailed
  <2>2. napi_state' \in NapiStates
    BY <1>4, ScheduleTypes DEF XmitFailed
  <2> QED  BY <1>4, <2>1, <2>2 DEF XmitFailed, XmitPlaces
<1>5. CASE XmitFull
  <2>1. submitted' \in Channels /\ active' \in Channels /\ halted' \in BOOLEAN
    BY <1>5, IssueTypes DEF XmitFull
  <2>2. xmit' \in XmitPlaces /\ queue' \in Queues /\ batch' \in BOOLEAN
    BY <1>5 DEF XmitFull, XmitPlaces, Queues
  <2> QED  BY <1>5, <2>1, <2>2 DEF XmitFull
<1>6. ASSUME NEW dropped \in CanFail, XmitGate(dropped) PROVE Types'
  BY <1>6, SlotTypes DEF XmitGate, XmitPlaces
<1>7. ASSUME NEW refused \in CanFail, XmitSubmit(refused) PROVE Types'
  <2>1. XmitSlot \in Slots
    BY XmitSlotType
  <2>2. Append(submitted, XmitSlot) \in Channels
    BY <2>1 DEF Channels
  <2>3. [slot EXCEPT ![XmitSlot].failed = TRUE] \in RingWords
    BY SlotTypes
  <2>4. slot' \in RingWords /\ submitted' \in Channels
    BY <1>7, <2>2, <2>3 DEF XmitSubmit
  <2>5. tx_failed' \in Indices /\ reset_pending' \in BOOLEAN /\ xmit' \in XmitPlaces
    BY <1>7, IndexIs DEF XmitSubmit, XmitPlaces
  <2> QED  BY <1>7, <2>4, <2>5 DEF XmitSubmit
<1>8. ASSUME NEW more \in BOOLEAN, XmitFlush(more) PROVE Types'
  <2>1. submitted' \in Channels /\ active' \in Channels /\ halted' \in BOOLEAN
    BY <1>8, IssueTypes DEF XmitFlush
  <2> QED  BY <1>8, <2>1 DEF XmitFlush, XmitPlaces
<1> QED BY <1>1, <1>2, <1>3, <1>4, <1>5, <1>6, <1>7, <1>8 DEF Xmit

\* Types: the poll.
LEMMA NapiTypes == Types /\ Napi => Types'
<1> SUFFICES ASSUME Types, Napi PROVE Types'
  OBVIOUS
<1> USE DEF Types, ring, gate, iface, chan, NapiUnchanged
<1>1. CASE NapiStart
  BY <1>1 DEF NapiStart, NapiRecs
<1>2. CASE NapiLoop
  <2>1. Next1(napi.tail) \in Indices /\ NapiAt("rx") \in NapiRecs
    BY PlaceTypes, IndexIs DEF NapiRecs
  <2>2. napi' \in NapiRecs
    BY <1>2, <2>1 DEF NapiLoop, NapiRecs
  <2> QED  BY <1>2, <2>2 DEF NapiLoop
<1>3. CASE NapiBql
  <2>1. napi' \in NapiRecs
    BY <1>3 DEF NapiBql, NapiRecs
  <2> QED  BY <1>3, <2>1 DEF NapiBql
<1>4. CASE NapiRelease
  <2>1. napi.tail \in Indices
    BY DEF NapiRecs
  <2> QED  BY <1>4, <2>1, PlaceTypes DEF NapiRelease
<1>5. CASE NapiWake
  BY <1>5, PlaceTypes DEF NapiWake, Queues
<1>6. ASSUME NEW failed \in CanFail, NapiRx(failed) PROVE Types'
  BY <1>6, PlaceTypes DEF NapiRx, emz_request_reset
<1>7. ASSUME NEW left \in BOOLEAN, NapiComplete(left) PROVE Types'
  BY <1>7, PlaceTypes DEF NapiComplete, NapiStates
<1> QED BY <1>1, <1>2, <1>3, <1>4, <1>5, <1>6, <1>7 DEF Napi

Dma == \/ DmaHalt \/ emz_tx_dma_done \/ emz_rx_dma_failed
       \/ \E starts \in BOOLEAN : DmaComplete(starts)

\* Types: the channel and its callback.
LEMMA DmaTypes == Types /\ Dma => Types'
<1> SUFFICES ASSUME Types, Dma PROVE Types'
  OBVIOUS
<1> USE DEF Types, ring, gate, iface, chan, DmaUnchanged
<1>1. CASE DmaHalt
  BY <1>1 DEF DmaHalt
<1>2. CASE emz_tx_dma_done
  <2>1. cb.failed \in BOOLEAN
    BY DEF CbRecs
  <2>2. slot' \in RingWords
    <3>1. /\ [slot EXCEPT ![cb.idx].failed = cb.failed] \in RingWords
          /\ [slot EXCEPT ![cb.idx].done = TRUE] \in RingWords
      BY <2>1, SlotTypes
    <3> QED  BY <1>2, <3>1 DEF emz_tx_dma_done
  <2>3. napi_state' \in NapiStates
    BY <1>2, ScheduleTypes DEF emz_tx_dma_done
  <2>4. cb' \in CbRecs
    <3>1. \/ cb' = CbIdle
          \/ \E place \in {"work", "done", "napi"} : cb' = [cb EXCEPT !.at = place]
      BY <1>2 DEF emz_tx_dma_done
    <3>2. ASSUME NEW place \in {"work", "done", "napi"}
          PROVE  [cb EXCEPT !.at = place] \in CbRecs
      BY DEF CbRecs
    <3> QED  BY <3>1, <3>2, PlaceTypes
  <2>5. tx_failed' \in Indices
    BY <1>2, IndexIs DEF emz_tx_dma_done
  <2>6. reset_pending' \in BOOLEAN /\ work_queued' \in BOOLEAN
    BY <1>2 DEF emz_tx_dma_done
  <2> QED  BY <1>2, <2>2, <2>3, <2>4, <2>5, <2>6 DEF emz_tx_dma_done
<1>3. CASE emz_rx_dma_failed
  <2>1. napi_state' \in NapiStates
    BY <1>3, ScheduleTypes DEF emz_rx_dma_failed
  <2> QED  BY <1>3, <2>1 DEF emz_rx_dma_failed, emz_request_reset
<1>4. ASSUME NEW starts \in BOOLEAN, DmaComplete(starts) PROVE Types'
  <2>1. active # << >> /\ Head(active) \in Slots /\ Tail(active) \in Seq(Slots)
    BY <1>4 DEF DmaComplete, Channels
  <2>2. submitted' \in Channels /\ active' \in Channels
    BY <1>4, <2>1 DEF DmaComplete, Channels
  <2>3. cb' \in CbRecs
    BY <1>4, <2>1 DEF DmaComplete, CbRecs
  <2>4. handed' \in Indices
    BY <1>4, IndexIs DEF DmaComplete
  <2> QED  BY <1>4, <2>2, <2>3, <2>4 DEF DmaComplete
<1> QED BY <1>1, <1>2, <1>3, <1>4 DEF Dma

\* Types: the rebuild, open and stop.
LEMMA CtlTypes == Types /\ (CtlStart \/ CtlStep) => Types'
<1> SUFFICES ASSUME Types, CtlStart \/ CtlStep PROVE Types'
  OBVIOUS
<1> USE DEF Types, ring, gate, iface, chan, CtlUnchanged
<1>0. ASSUME \E place \in CtlPlaces : Goto(place) \/ \E a \in BOOLEAN : ctl' = [at |-> place, again |-> a]
      PROVE  ctl' \in CtlRecs
  BY <1>0, GotoTypes, PlaceTypes
<1>1. CASE emz_reset_work
  <2>1. ctl' \in CtlRecs
    BY <1>1, <1>0 DEF emz_reset_work, CtlPlaces
  <2> QED  BY <1>1, <2>1 DEF emz_reset_work
<1>2. CASE emz_open
  <2>1. ctl' \in CtlRecs
    BY <1>2, <1>0 DEF emz_open, CtlPlaces
  <2> QED  BY <1>2, <2>1 DEF emz_open
<1>3. CASE emz_stop
  <2>1. ctl' \in CtlRecs
    BY <1>3, <1>0 DEF emz_stop, CtlPlaces
  <2> QED  BY <1>3, <2>1 DEF emz_stop
<1>4. CASE emz_csum_config
  <2>1. ctl' \in CtlRecs
    BY <1>4, <1>0 DEF emz_csum_config, CtlPlaces
  <2> QED  BY <1>4, <2>1 DEF emz_csum_config
<1>5. CASE CtlQuiesce
  <2>1. ctl' \in CtlRecs
    BY <1>5, <1>0 DEF CtlQuiesce, CtlPlaces
  <2> QED  BY <1>5, <2>1, PlaceTypes DEF CtlQuiesce, NapiStates, Queues
<1>6. CASE emz_dma_stop
  <2>1. ctl' \in CtlRecs
    BY <1>6, <1>0 DEF emz_dma_stop, CtlPlaces
  <2>2. << >> \in Channels
    BY DEF Channels
  <2> QED  BY <1>6, <2>1, <2>2 DEF emz_dma_stop
<1>7. CASE CtlClear
  <2>1. ctl' \in CtlRecs
    BY <1>7, <1>0 DEF CtlClear, CtlPlaces
  <2> QED  BY <1>7, <2>1, SlotTypes, SmallFacts DEF CtlClear
<1>8. CASE CtlEnable
  <2>1. ctl' \in CtlRecs
    BY <1>8, <1>0 DEF CtlEnable, CtlPlaces
  <2>2. [armed |-> TRUE, tail |-> 0, stuck |-> 0] \in WdRecs
    BY SmallFacts DEF WdRecs
  <2> QED  BY <1>8, <2>1, <2>2 DEF CtlEnable, NapiStates, Queues
<1>9. CASE CtlFail
  <2>1. ctl' \in CtlRecs
    BY <1>9, <1>0 DEF CtlFail, CtlPlaces
  <2> QED  BY <1>9, <2>1 DEF CtlFail
<1>10. ASSUME NEW gives_up \in BOOLEAN, emz_tx_drain(gives_up) PROVE Types'
  <2>1. ctl' \in CtlRecs
    BY <1>10, <1>0 DEF emz_tx_drain, CtlPlaces
  <2>2. submitted' \in Channels /\ active' \in Channels /\ halted' \in BOOLEAN
    BY <1>10, IssueTypes DEF emz_tx_drain
  <2> QED  BY <1>10, <2>1, <2>2 DEF emz_tx_drain
<1>11. ASSUME NEW failed \in CanFail, CtlPrepare(failed) PROVE Types'
  <2>1. ctl' \in CtlRecs
    BY <1>11, <1>0 DEF CtlPrepare, CtlPlaces
  <2> QED  BY <1>11, <2>1 DEF CtlPrepare
<1> QED BY <1>1, <1>2, <1>3, <1>4, <1>5, <1>6, <1>7, <1>8, <1>9, <1>10,
  <1>11 DEF CtlStart, CtlStep

Timers == emz_tx_timeout \/ \E carrier \in Carriers, rx_stalled \in CanFail :
                              emz_watchdog(carrier, rx_stalled)

\* Types: the watchdog and the timeout.
LEMMA TimerTypes == Types /\ Timers => Types'
<1> SUFFICES ASSUME Types, Timers PROVE Types'
  OBVIOUS
<1> USE DEF Types, ring, gate, iface, chan, WdUnchanged, emz_request_reset
<1>1. CASE emz_tx_timeout
  BY <1>1 DEF emz_tx_timeout
<1>2. ASSUME NEW carrier \in Carriers, NEW rx_stalled \in CanFail,
             emz_watchdog(carrier, rx_stalled) PROVE Types'
  <2>1. wd.stuck \in 0 .. StallTicks - 1 /\ StallTicks \in Nat \ {0}
    BY EmzTxAssumption DEF WdRecs
  <2>2. wd' \in WdRecs
    <3> DEFINE n == IF tx_head # tx_tail /\ tx_tail = wd.tail /\ carrier
                    THEN wd.stuck + 1 ELSE 0
    <3>1. \/ wd' = WdOff
          \/ ~(n >= StallTicks) /\ wd' = [armed |-> TRUE, tail |-> tx_tail, stuck |-> n]
      BY <1>2 DEF emz_watchdog
    <3>2. n \in Nat
      BY <2>1
    <3> HIDE DEF n
    <3>3. ~(n >= StallTicks) => n \in 0 .. StallTicks - 1
      BY <2>1, <3>2
    <3>4. tx_tail \in Indices /\ WdOff \in WdRecs
      BY PlaceTypes
    <3>5. n \in 0 .. StallTicks - 1 => [armed |-> TRUE, tail |-> tx_tail, stuck |-> n] \in WdRecs
      BY ONLY <3>4 DEF WdRecs
    <3> QED  BY ONLY <3>1, <3>3, <3>4, <3>5
  <2> QED  BY <1>2, <2>2 DEF emz_watchdog
<1> QED BY <1>1, <1>2 DEF Timers

\* The next-state relation by activity.
LEMMA NextSplit == Next <=> \/ XmitEnter \/ Xmit \/ Napi \/ Dma
                            \/ CtlStart \/ CtlStep \/ Timers
BY DEF Next, Dma, CtlStart, Timers

\* Every step keeps the types.
LEMMA TypesStep == Types /\ [Next]_vars => Types'
<1>1. Types /\ UNCHANGED vars => Types'
  BY DEF Types, vars, ring, gate, iface, chan
<1> QED  BY <1>1, NextSplit, XmitTypes, NapiTypes, DmaTypes, CtlTypes, TimerTypes

-----------------------------------------------------------------------------
(* What each part of the invariant depends on. *)

\* The slots owned change only with the indices, the slots and the channel.
LEMMA FrameOwned ==
  ASSUME OwnedInv, Live' => Live, Owned' = Owned, UNCHANGED <<tx_head, tx_tail, slot>>
  PROVE  OwnedInv'
BY DEF OwnedInv, Used

\* Owned, from the words it is made of.
LEMMA FrameOwnedSeq ==
  ASSUME UNCHANGED <<cb, active, submitted, tx_head>>,
         xmit' = xmit \/ (/\ xmit \notin {"submit", "work", "done"}
                          /\ xmit' \notin {"submit", "work", "done"})
  PROVE  Owned' = Owned
BY DEF Owned, CbSlot, GivenUp, XmitSlot

\* What a stopped channel has left changes only with the channel.
LEMMA FrameStopped ==
  ASSUME StoppedInv, Live' = Live, UNCHANGED <<cb, active, submitted>>
  PROVE  StoppedInv'
BY DEF StoppedInv

\* The room emz_start_xmit has seen stays while nobody moves the indices.
LEMMA FrameRoom ==
  ASSUME RoomInv, UNCHANGED <<tx_head, tx_tail, slot>>,
         xmit' = xmit \/ xmit' \notin {"gate", "publish"}
  PROVE  RoomInv'
BY DEF RoomInv, Used

\* The walk of the poll stays good while slots are only completed.
LEMMA FrameWalk ==
  ASSUME WalkInv, UNCHANGED <<tx_head, tx_tail>>,
         napi' = napi \/ napi'.at \notin {"loop", "bql", "release"},
         \A i \in Slots : slot[i].done => slot'[i].done
  PROVE  WalkInv'
BY DEF WalkInv, Used, Pos

\* The BQL count stays good away from the two places where it lags.
LEMMA FrameBql ==
  ASSUME BqlInv, Live' = Live, UNCHANGED <<tx_head, tx_tail, bql>>,
         napi' = napi \/ (napi.at # "release" /\ napi'.at # "release"),
         xmit' = xmit \/ (xmit # "publish" /\ xmit' # "publish")
  PROVE  BqlInv'
BY DEF BqlInv

\* The count of frames owed stays good while none is handed over.
LEMMA FrameCount ==
  ASSUME CountInv, (Live \/ ctl.at \in Opened)' => Live \/ ctl.at \in Opened,
         Owing' = Owing, UNCHANGED <<tx_head, tx_failed, handed>>
  PROVE  CountInv'
BY DEF CountInv

\* Whether the rings are live depends on the rebuild alone.
LEMMA FrameLive ==
  ASSUME UNCHANGED <<datapath_up, ctl>>
  PROVE  Live' = Live /\ (Live \/ ctl.at \in Opened)' = (Live \/ ctl.at \in Opened)
BY DEF Live, Opened

\* Nobody is in the driver while the datapath is down.
LEMMA DownIsQuiet ==
  ASSUME IndInv, ~Live
  PROVE  /\ xmit = "idle" /\ ~datapath_up
         /\ ctl.at # "wake" => napi.at = "idle"
         /\ napi.at \in {"idle", "loop", "rx", "complete"}
         /\ ctl.at \in Opened => tx_head = tx_tail
BY DEF IndInv, Quiet, Down, Live

\* A multiple of Wrap stays one.
LEMMA CountMoves ==
  ASSUME NEW x \in Int, x % Wrap = 0, NEW y \in {x, x + Wrap, x - Wrap}
  PROVE  y % Wrap = 0
<1>1. Wrap \in Nat \ {0}
  BY Sizes
<1>2. PICK q \in Int, r \in 0 .. Wrap - 1 : x = Wrap * q + r /\ x % Wrap = r
  BY ONLY x \in Int, <1>1, DivMod
<1>3. /\ Wrap * (q + 1) = Wrap * q + Wrap /\ Wrap * (q - 1) = Wrap * q - Wrap
      /\ q + 1 \in Int /\ q - 1 \in Int /\ 0 \in 0 .. Wrap - 1
  BY <1>1
<1>4. r = 0
  BY ONLY <1>2, x % Wrap = 0
<1>5. \E p \in Int : y = Wrap * p + 0
  <2>1. CASE y = x
    BY <1>1, <1>2, <1>4, <2>1
  <2>2. CASE y = x + Wrap
    BY <1>1, <1>2, <1>3, <1>4, <2>2
  <2>3. CASE y = x - Wrap
    BY <1>1, <1>2, <1>3, <1>4, <2>3
  <2> QED  BY <2>1, <2>2, <2>3
<1>6. y \in Int
  BY <1>1
<1> QED  BY ONLY <1>1, <1>3, <1>5, <1>6, ModIs

\* Sequences of slots.
LEMMA SlotSeqs ==
  /\ << >> \in Seq(Slots)
  /\ \A a, b \in Seq(Slots) : a \o b \in Seq(Slots) /\ Len(a \o b) = Len(a) + Len(b)
  /\ \A a, b, c \in Seq(Slots) : (a \o b) \o c = a \o (b \o c)
  /\ \A a \in Seq(Slots) : << >> \o a = a /\ a \o << >> = a
  /\ \A x \in Slots : <<x>> \in Seq(Slots)
  /\ \A a \in Seq(Slots), x \in Slots : a \o <<x>> = Append(a, x)
  /\ \A a \in Seq(Slots), x \in Slots : (<<x>> \o a)[1] = x /\ Tail(<<x>> \o a) = a
  /\ \A a \in Seq(Slots) : a # << >> =>
        Head(a) \in Slots /\ Tail(a) \in Seq(Slots) /\ <<Head(a)>> \o Tail(a) = a
<1>1. << >> \in Seq(Slots) /\ \A x \in Slots : <<x>> \in Seq(Slots)
  OBVIOUS
<1>2. \A a, b \in Seq(Slots) : a \o b \in Seq(Slots) /\ Len(a \o b) = Len(a) + Len(b)
  OBVIOUS
<1>3. \A a, b, c \in Seq(Slots) : (a \o b) \o c = a \o (b \o c)
  BY ConcatAssociative
<1>4. \A a \in Seq(Slots) : << >> \o a = a /\ a \o << >> = a
  BY ConcatEmptySeq
<1>5. \A a \in Seq(Slots), x \in Slots : a \o <<x>> = Append(a, x)
  BY AppendIsConcat
<1>6. \A a \in Seq(Slots), x \in Slots : (<<x>> \o a)[1] = x /\ Tail(<<x>> \o a) = a
  OBVIOUS
<1>7. \A a \in Seq(Slots) : a # << >> =>
        Head(a) \in Slots /\ Tail(a) \in Seq(Slots) /\ <<Head(a)>> \o Tail(a) = a
  OBVIOUS
<1> QED  BY <1>1, <1>2, <1>3, <1>4, <1>5, <1>6, <1>7

-----------------------------------------------------------------------------
(* The steps of the ring. *)

\* A step that moves at most the places of NAPI and of emz_start_xmit.
StandsStill == UNCHANGED <<datapath_up, ctl, tx_head, tx_tail, slot, bql, tx_failed,
                           handed, cb, active, submitted>>

\* A step that moves nothing of the ring keeps every part.
LEMMA FrameAll ==
  ASSUME RingParts, StandsStill,
         napi' = napi
           \/ (napi.at # "release" /\ napi'.at \notin {"loop", "bql", "release"}),
         xmit' = xmit
           \/ /\ xmit \notin {"submit", "work", "done", "publish"}
              /\ xmit' \notin {"submit", "work", "done", "publish", "gate"}
  PROVE  RingParts'
<1> USE DEF StandsStill
<1>1. Live' = Live /\ (Live \/ ctl.at \in Opened)' = (Live \/ ctl.at \in Opened)
  BY FrameLive
<1>2. Owned' = Owned
  BY FrameOwnedSeq
<1>3. OwnedInv' /\ StoppedInv' /\ RoomInv' /\ WalkInv' /\ BqlInv'
  BY <1>1, <1>2, FrameOwned, FrameStopped, FrameRoom, FrameWalk, FrameBql DEF RingParts
<1>4. Owing' = Owing
  BY DEF Owing
<1>5. CountInv'
  BY <1>1, <1>4, FrameCount DEF RingParts
<1> QED  BY <1>3, <1>5 DEF RingParts

\* The watchdog and the timeout move nothing of the ring.
LEMMA TimerRing == RingInv /\ Timers => RingParts'
<1> SUFFICES ASSUME RingInv, Timers PROVE RingParts'
  OBVIOUS
<1>1. StandsStill /\ napi' = napi /\ xmit' = xmit
  BY DEF StandsStill, Timers, emz_tx_timeout, emz_watchdog, WdUnchanged, ring, iface, chan
<1> QED  BY <1>1, FrameAll DEF RingInv

\* The numbers of the ring.
LEMMA RingNumbers ==
  ASSUME Types, RoomInv
  PROVE  /\ tx_head \in Indices /\ tx_tail \in Indices /\ Used \in Indices /\ Used \in Nat
         /\ tx_tail % Ring \in Slots /\ tx_head % Ring \in Slots
         /\ Used <= Ring /\ Ring \in Nat \ {0}
<1>1. tx_head \in Indices /\ tx_tail \in Indices
  BY DEF Types
<1>2. Used \in Indices
  BY <1>1, IndexIs DEF Used
<1>3. tx_tail % Ring \in Slots /\ tx_head % Ring \in Slots
  BY <1>1, SlotNext
<1> QED  BY <1>1, <1>2, <1>3, Sizes DEF RoomInv, Indices

\* The slots owned are slots.
LEMMA OwnedType ==
  ASSUME Types
  PROVE  /\ CbSlot \in Seq(Slots) /\ GivenUp \in Seq(Slots)
         /\ active \in Seq(Slots) /\ submitted \in Seq(Slots)
         /\ active \o submitted \in Seq(Slots)
         /\ CbSlot \o (active \o submitted) \in Seq(Slots)
         /\ Owned \in Seq(Slots)
<1>1. CbSlot \in Seq(Slots)
  BY SlotSeqs DEF CbSlot, Types, CbRecs
<1>2. GivenUp \in Seq(Slots)
  BY SlotSeqs, XmitSlotType DEF GivenUp
<1>3. active \in Seq(Slots) /\ submitted \in Seq(Slots)
  BY DEF Types, Channels
<1> QED  BY <1>1, <1>2, <1>3, SlotSeqs DEF Owned

\* Where a poll is, in numbers.
LEMMA WalkNumbers ==
  ASSUME Types, RoomInv, WalkInv, napi.at \in {"loop", "bql", "release"}
  PROVE  /\ napi.tail \in Indices /\ napi.head \in Indices
         /\ Minus(napi.tail, tx_tail) \in Nat /\ Minus(napi.head, tx_tail) \in Nat
         /\ Minus(napi.tail, tx_tail) <= Minus(napi.head, tx_tail)
         /\ Minus(napi.head, tx_tail) <= Used
         /\ Minus(napi.tail, tx_tail) <= Used
         /\ Minus(tx_head, napi.tail) = Used - Minus(napi.tail, tx_tail)
         /\ \A i \in Slots : Pos(i) < Minus(napi.tail, tx_tail) => slot[i].done
<1>1. napi.tail \in Indices /\ napi.head \in Indices
  BY DEF Types, NapiRecs
<1>2. tx_head \in Indices /\ tx_tail \in Indices /\ Used \in Nat /\ Used <= Ring /\ Ring \in Nat
  BY RingNumbers
<1>3. Minus(napi.tail, tx_tail) \in Nat /\ Minus(napi.head, tx_tail) \in Nat
  <2>1. Minus(napi.tail, tx_tail) \in Indices /\ Minus(napi.head, tx_tail) \in Indices
    BY <1>1, <1>2, IndexIs
  <2> QED  BY <2>1, Sizes DEF Indices
<1>4. /\ Minus(napi.tail, tx_tail) <= Minus(napi.head, tx_tail)
      /\ Minus(napi.head, tx_tail) <= Used
      /\ \A i \in Slots : Pos(i) < Minus(napi.tail, tx_tail) => slot[i].done
  BY DEF WalkInv
<1>5. Minus(napi.tail, tx_tail) <= Used
  BY <1>2, <1>3, <1>4
<1>6. Minus(tx_head, napi.tail) = Used - Minus(napi.tail, tx_tail)
  BY <1>1, <1>2, <1>5, IndexMoves DEF Used
<1> QED  BY <1>1, <1>3, <1>4, <1>5, <1>6

\* The slot a poll looks at.
LEMMA WalkSlot ==
  ASSUME NEW u \in Indices, NEW t \in Indices, Minus(u, t) < Ring, NEW i \in Slots,
         Ahead(i, t % Ring) = Minus(u, t)
  PROVE  i = u % Ring
<1>1. u % Ring \in Slots /\ t % Ring \in Slots
  BY SlotNext
<1>2. Ahead(u % Ring, t % Ring) = Minus(u, t)
  BY SlotsApart
<1> QED  BY <1>1, <1>2, AheadIs

\* The walk over the completed slots.
LEMMA NapiLoopRing == RingInv /\ IndInv /\ NapiLoop => RingParts'
<1> SUFFICES ASSUME RingInv, IndInv, NapiLoop PROVE RingParts'
  OBVIOUS
<1>0. StandsStill /\ xmit' = xmit /\ napi.at = "loop"
  BY DEF StandsStill, NapiLoop, NapiUnchanged, ring, iface, chan
<1>1. UNCHANGED <<datapath_up, ctl, tx_head, tx_tail, slot, bql, tx_failed,
                  handed, cb, active, submitted, xmit>> /\ napi.at = "loop"
  BY <1>0 DEF StandsStill
<1>2. CASE ~(napi.tail # napi.head /\ slot[napi.tail % Ring].done) /\ napi.tail = tx_tail
  <2>1. napi' = NapiAt("rx")
    BY <1>2 DEF NapiLoop
  <2>2. napi'.at = "rx"
    BY <2>1 DEF NapiAt
  <2> QED  BY <1>0, <2>2, FrameAll DEF RingInv
<1>3. CASE ~(~(napi.tail # napi.head /\ slot[napi.tail % Ring].done) /\ napi.tail = tx_tail)
  <2> DEFINE e == Minus(napi.tail, tx_tail)
  <2>1. Types /\ RoomInv /\ WalkInv
    BY DEF RingInv, RingParts
  <2>2. /\ napi.tail \in Indices /\ napi.head \in Indices /\ e \in Nat
        /\ Minus(napi.head, tx_tail) \in Nat /\ e <= Minus(napi.head, tx_tail)
        /\ Minus(napi.head, tx_tail) <= Used
        /\ \A i \in Slots : Pos(i) < e => slot[i].done
    BY <1>1, <2>1, WalkNumbers
  <2>3. /\ tx_head \in Indices /\ tx_tail \in Indices /\ Used \in Nat /\ Used <= Ring
        /\ Ring \in Nat /\ tx_tail % Ring \in Slots
    BY <2>1, RingNumbers
  <2>4. napi = [at |-> "loop", tail |-> napi.tail, head |-> napi.head]
    BY <1>1 DEF IndInv, Shapes
  <2>5. /\ napi'.at \in {"loop", "bql"} /\ napi'.head = napi.head
        /\ \/ napi'.tail = napi.tail
           \/ /\ napi.tail # napi.head /\ slot[napi.tail % Ring].done
              /\ napi'.tail = Next1(napi.tail)
    BY <1>3, <2>4 DEF NapiLoop
  <2>6. WalkInv'
    <3>1. CASE napi'.tail = napi.tail
      BY <1>1, <2>2, <2>5, <3>1 DEF WalkInv, Used, Pos
    <3>2. CASE /\ napi.tail # napi.head /\ slot[napi.tail % Ring].done
               /\ napi'.tail = Next1(napi.tail)
      <4>1. Minus(napi.head, tx_tail) <= Ring
        BY <2>2, <2>3
      <4>2. e # Minus(napi.head, tx_tail)
        BY <2>2, <2>3, <3>2, <4>1, IndexMoves
      <4>3. e < Minus(napi.head, tx_tail)
        BY <2>2, <4>2
      <4>4. Minus(Next1(napi.tail), tx_tail) = e + 1
        BY <2>2, <2>3, <4>1, <4>3, IndexMoves
      <4>5. ASSUME NEW i \in Slots, Pos(i) < e + 1 PROVE slot[i].done
        <5>1. Pos(i) \in Nat
          <6>1. Pos(i) \in Slots
            BY <2>3, AheadIs DEF Pos
          <6> QED  BY <6>1, Sizes DEF Slots
        <5>2. CASE Pos(i) < e
          BY <2>2, <5>2
        <5>3. CASE Pos(i) = e
          <6>1. e < Ring
            BY <2>2, <2>3, <4>1, <4>3
          <6>2. i = napi.tail % Ring
            BY <2>2, <2>3, <5>3, <6>1, WalkSlot DEF Pos
          <6> QED  BY <3>2, <6>2
        <5> QED  BY <2>2, <4>5, <5>1, <5>2, <5>3
      <4>6. e + 1 <= Minus(napi.head, tx_tail)
        BY <2>2, <4>3
      <4> QED  BY <1>1, <2>2, <2>5, <3>2, <4>4, <4>5, <4>6 DEF WalkInv, Used, Pos
    <3> QED  BY <2>5, <3>1, <3>2
  <2>7. Live' = Live /\ (Live \/ ctl.at \in Opened)' = (Live \/ ctl.at \in Opened)
    BY <1>1, FrameLive
  <2>8. Owned' = Owned /\ Owing' = Owing
    BY <1>1, FrameOwnedSeq DEF Owing
  <2>9. OwnedInv' /\ StoppedInv' /\ RoomInv' /\ CountInv'
    BY <1>1, <2>7, <2>8, FrameOwned, FrameStopped, FrameRoom, FrameCount DEF RingInv, RingParts
  <2>10. BqlInv'
    BY <1>1, <2>5, <2>7, FrameBql DEF RingInv, RingParts
  <2> QED  BY <2>6, <2>9, <2>10 DEF RingParts
<1> QED  BY <1>2, <1>3

\* The poll tells BQL before it releases the slots.
LEMMA NapiBqlRing == RingInv /\ IndInv /\ NapiBql => RingParts'
<1> SUFFICES ASSUME RingInv, IndInv, NapiBql PROVE RingParts'
  OBVIOUS
<1>1. /\ UNCHANGED <<datapath_up, ctl, tx_head, tx_tail, slot, tx_failed,
                     handed, cb, active, submitted, xmit>>
      /\ napi.at = "bql" /\ bql' = bql - Minus(napi.tail, tx_tail)
  BY DEF NapiBql, NapiUnchanged, ring, iface, chan
<1>2. napi'.at = "release" /\ napi'.tail = napi.tail /\ napi'.head = napi.head
  BY DEF NapiBql, IndInv, Shapes
<1>3. Live' = Live /\ (Live \/ ctl.at \in Opened)' = (Live \/ ctl.at \in Opened)
  BY <1>1, FrameLive
<1>4. Owned' = Owned /\ Owing' = Owing
  BY <1>1, FrameOwnedSeq DEF Owing
<1>5. OwnedInv' /\ StoppedInv' /\ RoomInv' /\ CountInv'
  BY <1>1, <1>3, <1>4, FrameOwned, FrameStopped, FrameRoom, FrameCount DEF RingInv, RingParts
<1>6. WalkInv'
  BY <1>1, <1>2 DEF RingInv, RingParts, WalkInv, Used, Pos
<1>7. BqlInv'
  <2>1. Live
    BY <1>1, DownIsQuiet
  <2>2. /\ Minus(napi.tail, tx_tail) \in Nat
        /\ Minus(tx_head, napi.tail) = Used - Minus(napi.tail, tx_tail)
    BY <1>1, WalkNumbers DEF RingInv, RingParts
  <2>3. Used \in Nat
    BY RingNumbers DEF RingInv, RingParts
  <2>4. bql = Used + (IF xmit = "publish" THEN 1 ELSE 0)
    BY <1>1, <2>1 DEF RingInv, RingParts, BqlInv, Used
  <2>5. bql' = Minus(tx_head, napi.tail) + (IF xmit = "publish" THEN 1 ELSE 0)
    BY <1>1, <2>2, <2>3, <2>4
  <2> QED  BY <1>1, <1>2, <1>3, <2>1, <2>5 DEF BqlInv
<1> QED  BY <1>5, <1>6, <1>7 DEF RingParts

\* The poll releases the slots it walked over.
LEMMA NapiReleaseRing == RingInv /\ IndInv /\ NapiRelease => RingParts'
<1> SUFFICES ASSUME RingInv, IndInv, NapiRelease PROVE RingParts'
  OBVIOUS
<1>1. /\ UNCHANGED <<datapath_up, ctl, tx_head, slot, bql, tx_failed,
                     handed, cb, active, submitted, xmit>>
      /\ napi.at = "release" /\ tx_tail' = napi.tail /\ napi'.at = "check"
  BY DEF NapiRelease, NapiUnchanged, NapiAt, ring, iface, chan
<1>2. Types /\ OwnedInv /\ StoppedInv /\ RoomInv /\ WalkInv /\ BqlInv /\ CountInv
  BY DEF RingInv, RingParts
<1>3. Live' = Live /\ (Live \/ ctl.at \in Opened)' = (Live \/ ctl.at \in Opened)
  BY <1>1, FrameLive
<1>4. Owned' = Owned /\ Owing' = Owing
  BY <1>1, FrameOwnedSeq DEF Owing
<1>5. StoppedInv' /\ CountInv'
  BY <1>1, <1>2, <1>3, <1>4, FrameStopped, FrameCount
<1>6. Live
  BY <1>1, DownIsQuiet
<1>7. WalkInv'
  BY <1>1 DEF WalkInv
<1>8. BqlInv'
  BY <1>1, <1>2, <1>3, <1>6 DEF BqlInv
<1> DEFINE e == Minus(napi.tail, tx_tail)
<1>9. /\ napi.tail \in Indices /\ e \in Nat /\ e <= Used
      /\ Minus(tx_head, napi.tail) = Used - e
      /\ \A i \in Slots : Ahead(i, tx_tail % Ring) < e => slot[i].done
  BY <1>1, <1>2, WalkNumbers DEF Pos
<1>10. Used \in Nat /\ Used <= Ring /\ Ring \in Nat /\ tx_tail \in Indices
  BY <1>2, RingNumbers
<1>11. Used' = Used - e /\ Used' <= Used
  BY <1>1, <1>9, <1>10 DEF Used
<1>12. RoomInv'
  <2>1. Used' <= Ring /\ (Used < Ring => Used' < Ring)
    BY <1>9, <1>10, <1>11
  <2> QED  BY <1>1, <1>2, <2>1 DEF RoomInv
<1>13. OwnedInv'
  <2>1. Owns(Owned, tx_tail % Ring, Used, slot)
    BY <1>2, <1>6 DEF OwnedInv
  <2>2. Owned \in Seq(Slots)
    BY <1>2, OwnedType
  <2>3. Owns(Owned, napi.tail % Ring, Used - e, slot)
    BY <1>9, <1>10, <2>1, <2>2, OwnsTail
  <2> QED  BY <1>1, <1>4, <1>11, <2>3 DEF OwnedInv
<1> QED  BY <1>5, <1>7, <1>8, <1>12, <1>13 DEF RingParts

\* The ring: the poll.
LEMMA NapiRing == RingInv /\ IndInv /\ Napi => RingParts'
<1> SUFFICES ASSUME RingInv, IndInv, Napi PROVE RingParts'
  OBVIOUS
<1> USE DEF NapiUnchanged, ring, iface, chan, StandsStill, RingInv
<1>1. CASE NapiStart
  <2>1. StandsStill /\ xmit' = xmit /\ napi.at = "idle"
    BY <1>1 DEF NapiStart
  <2>2. napi' = [at |-> "loop", tail |-> tx_tail, head |-> tx_head]
    BY <1>1 DEF NapiStart
  <2>3. Live' = Live /\ (Live \/ ctl.at \in Opened)' = (Live \/ ctl.at \in Opened)
    BY <2>1, FrameLive
  <2>4. Owned' = Owned /\ Owing' = Owing
    BY <2>1, FrameOwnedSeq DEF Owing
  <2>5. OwnedInv' /\ StoppedInv' /\ RoomInv' /\ CountInv'
    BY <2>1, <2>3, <2>4, FrameOwned, FrameStopped, FrameRoom, FrameCount DEF RingParts
  <2>6. BqlInv'
    BY <2>1, <2>2, <2>3, FrameBql DEF RingParts
  <2>7. WalkInv'
    <3>1. /\ tx_head \in Indices /\ tx_tail \in Indices /\ Used \in Nat /\ Used <= Ring
          /\ tx_tail % Ring \in Slots
      BY RingNumbers DEF RingParts
    <3>2. Minus(tx_tail, tx_tail) = 0
      BY <3>1, IndexIs, Sizes DEF Indices
    <3>3. \A i \in Slots : Pos(i) \in Slots
      BY <3>1, AheadIs DEF Pos
    <3>4. \A i \in Slots : ~(Pos(i) < 0)
      BY <3>3, Sizes DEF Slots
    <3>5. Minus(tx_tail, tx_tail) <= Used /\ Used <= Used
      BY <3>1, <3>2
    <3>6. /\ napi'.tail = tx_tail' /\ napi'.head = tx_head' /\ Used' = Used
          /\ tx_tail' = tx_tail /\ tx_head' = tx_head /\ \A i \in Slots : Pos(i)' = Pos(i)
      BY <2>1, <2>2 DEF Used, Pos
    <3> HIDE DEF StandsStill, RingInv
    <3> QED  BY <3>2, <3>4, <3>5, <3>6 DEF WalkInv, Used
  <2> QED  BY <2>5, <2>6, <2>7 DEF RingParts
<1>2. CASE NapiLoop
  BY <1>2, NapiLoopRing
<1>3. CASE NapiBql
  BY <1>3, NapiBqlRing
<1>4. CASE NapiRelease
  BY <1>4, NapiReleaseRing
<1>5. CASE NapiWake
  <2>1. StandsStill /\ xmit' = xmit /\ napi.at # "release" /\ napi'.at \in {"wake", "rx"}
    BY <1>5 DEF NapiWake, NapiAt
  <2> QED  BY <2>1, FrameAll
<1>6. ASSUME NEW failed \in CanFail, NapiRx(failed) PROVE RingParts'
  <2>1. StandsStill /\ xmit' = xmit /\ napi.at # "release" /\ napi'.at = "complete"
    BY <1>6 DEF NapiRx, NapiAt
  <2> QED  BY <2>1, FrameAll
<1>7. ASSUME NEW left \in BOOLEAN, NapiComplete(left) PROVE RingParts'
  <2>1. StandsStill /\ xmit' = xmit /\ napi.at # "release" /\ napi'.at = "idle"
    BY <1>7 DEF NapiComplete, NapiAt
  <2> QED  BY <2>1, FrameAll
<1> QED BY <1>1, <1>2, <1>3, <1>4, <1>5, <1>6, <1>7 DEF Napi

\* Setting one field of one slot.
LEMMA SlotBits ==
  ASSUME NEW s \in RingWords, NEW x \in Slots, NEW b \in BOOLEAN
  PROVE  /\ \A i \in Slots : [s EXCEPT ![x].failed = b][i].done = s[i].done
         /\ [s EXCEPT ![x].done = TRUE][x].done = TRUE
         /\ \A i \in Slots : i # x => [s EXCEPT ![x].done = TRUE][i].done = s[i].done
         /\ \A i \in Slots : s[i].done => [s EXCEPT ![x].done = TRUE][i].done
         /\ [s EXCEPT ![x] = [done |-> FALSE, failed |-> FALSE]][x].done = FALSE
         /\ \A i \in Slots : i # x =>
              [s EXCEPT ![x] = [done |-> FALSE, failed |-> FALSE]][i].done = s[i].done
<1>1. ASSUME NEW i \in Slots PROVE [s EXCEPT ![x].failed = b][i].done = s[i].done
  BY DEF RingWords
<1>2. ASSUME NEW i \in Slots
      PROVE  [s EXCEPT ![x].done = TRUE][i].done = IF i = x THEN TRUE ELSE s[i].done
  BY DEF RingWords
<1>3. ASSUME NEW i \in Slots
      PROVE  [s EXCEPT ![x] = [done |-> FALSE, failed |-> FALSE]][i].done
                = IF i = x THEN FALSE ELSE s[i].done
  BY DEF RingWords
<1> QED  BY <1>1, <1>2, <1>3

\* Somebody in the driver: the channel belongs to a datapath.
LEMMA XmitIsLive ==
  ASSUME IndInv, xmit # "idle"
  PROVE  Live
BY DownIsQuiet

\* The next slot to fill is not in flight.
LEMMA HeadSlot ==
  ASSUME Types, RoomInv, Used < Ring
  PROVE  Pos(tx_head % Ring) = Used
BY RingNumbers, SlotsApart DEF Pos, Used

\* The ring: emz_start_xmit past the gate.
LEMMA XmitGateRing ==
  ASSUME RingInv, IndInv, NEW dropped \in CanFail, XmitGate(dropped)
  PROVE  RingParts'
<1>1. Types /\ OwnedInv /\ StoppedInv /\ RoomInv /\ WalkInv /\ BqlInv /\ CountInv
  BY DEF RingInv, RingParts
<1>2. CASE reset_pending \/ dropped
  <2>1. StandsStill /\ napi' = napi /\ xmit = "gate" /\ xmit' = "flush"
    BY <1>2 DEF XmitGate, XmitUnchanged, StandsStill, chan, iface
  <2> QED  BY <2>1, FrameAll DEF RingInv
<1>3. CASE ~(reset_pending \/ dropped)
  <2> DEFINE x == tx_head % Ring
  <2>1. /\ UNCHANGED <<datapath_up, ctl, tx_head, tx_tail, tx_failed,
                       handed, cb, active, submitted, napi>>
        /\ xmit = "gate" /\ xmit' = "publish" /\ bql' = bql + 1
        /\ slot' = [slot EXCEPT ![x] = [done |-> FALSE, failed |-> FALSE]]
    BY <1>3 DEF XmitGate, XmitUnchanged, chan, iface
  <2>2. Live' = Live /\ (Live \/ ctl.at \in Opened)' = (Live \/ ctl.at \in Opened)
    BY <2>1, FrameLive
  <2>3. Owned' = Owned /\ Owing' = Owing
    BY <2>1, FrameOwnedSeq DEF Owing
  <2>4. StoppedInv' /\ CountInv'
    BY <1>1, <2>1, <2>2, <2>3, FrameStopped, FrameCount
  <2>5. /\ Used \in Nat /\ Used < Ring /\ x \in Slots /\ tx_tail % Ring \in Slots
        /\ tx_head \in Indices /\ tx_tail \in Indices /\ Used' = Used
    BY <1>1, <2>1, RingNumbers DEF RoomInv, Used
  <2>6. Pos(x) = Used
    BY <1>1, <2>5, HeadSlot
  <2>7. slot'[x].done = FALSE /\ \A i \in Slots : i # x => slot'[i].done = slot[i].done
    <3>1. slot \in RingWords
      BY <1>1 DEF Types
    <3>2. /\ [slot EXCEPT ![x] = [done |-> FALSE, failed |-> FALSE]][x].done = FALSE
          /\ \A i \in Slots : i # x =>
               [slot EXCEPT ![x] = [done |-> FALSE, failed |-> FALSE]][i].done = slot[i].done
      BY ONLY <2>5, <3>1, TRUE \in BOOLEAN, SlotBits
    <3> QED  BY <2>1, <3>2
  <2>8. \A i \in Slots : Pos(i) < Used => i # x
    BY <2>5, <2>6
  <2>9. Owns(Owned, tx_tail % Ring, Used, slot)
    BY <1>1, <2>1, XmitIsLive DEF OwnedInv
  <2>10. Owned \in Seq(Slots)
    BY <1>1, OwnedType
  <2>11. \A i \in Slots : Ahead(i, tx_tail % Ring) < Used => slot'[i].done = slot[i].done
    BY <2>7, <2>8 DEF Pos
  <2>12. Owns(Owned, tx_tail % Ring, Used, slot')
    BY <2>5, <2>9, <2>10, <2>11, OwnsSame
  <2>13. OwnedInv'
    BY <2>1, <2>3, <2>5, <2>12 DEF OwnedInv
  <2>14. RoomInv'
    <3>1. Used' <= Ring /\ Used' < Ring
      BY <2>5, Sizes
    <3>2. ~slot'[tx_head' % Ring].done
      BY <2>1, <2>7
    <3> QED  BY <3>1, <3>2 DEF RoomInv
  <2>15. WalkInv'
    <3> SUFFICES ASSUME napi.at \in {"loop", "bql", "release"}
                 PROVE  WalkInv'
      BY <2>1 DEF WalkInv
    <3>1. /\ Minus(napi.tail, tx_tail) \in Nat
          /\ Minus(napi.tail, tx_tail) <= Minus(napi.head, tx_tail)
          /\ Minus(napi.head, tx_tail) <= Used
          /\ Minus(napi.tail, tx_tail) <= Used
          /\ \A i \in Slots : Pos(i) < Minus(napi.tail, tx_tail) => slot[i].done
      BY <1>1, WalkNumbers
    <3>2. ASSUME NEW i \in Slots, Pos(i) < Minus(napi.tail, tx_tail)
          PROVE  slot'[i].done
      <4>1. Pos(i) \in Nat
        <5>1. Pos(i) \in Slots
          BY <2>5, AheadIs DEF Pos
        <5> QED  BY <5>1, Sizes DEF Slots
      <4>2. Pos(i) < Used
        BY <2>5, <3>1, <3>2, <4>1
      <4> QED  BY <2>7, <2>8, <3>1, <3>2, <4>2
    <3>3. \A i \in Slots : Pos(i)' = Pos(i)
      BY <2>1 DEF Pos
    <3> QED  BY <2>1, <2>5, <3>1, <3>2, <3>3 DEF WalkInv
  <2>16. BqlInv'
    <3>1. Live
      BY <2>1, XmitIsLive
    <3> DEFINE m == Minus(tx_head, IF napi.at = "release" THEN napi.tail ELSE tx_tail)
    <3>2. bql = m + 0
      BY <1>1, <2>1, <3>1 DEF BqlInv
    <3>3. m \in Nat
      <4>1. napi.tail \in Indices
        BY <1>1 DEF Types, NapiRecs
      <4>2. m \in Indices
        BY <2>5, <4>1, IndexIs
      <4> QED  BY <4>2, Sizes DEF Indices
    <3>4. m' = m
      BY <2>1
    <3> HIDE DEF m
    <3>5. bql' = m' + 1
      BY <2>1, <3>2, <3>3, <3>4
    <3> QED  BY <2>1, <2>2, <3>1, <3>5 DEF BqlInv, m
  <2> QED  BY <2>4, <2>13, <2>14, <2>15, <2>16 DEF RingParts
<1> QED  BY <1>2, <1>3

\* The count of frames: both sides of it move together, modulo Wrap.
LEMMA CountStep ==
  ASSUME Types, Types', CountInv,
         (Live \/ ctl.at \in Opened)' => Live \/ ctl.at \in Opened,
         NEW a \in -1 .. 1, NEW b \in 0 .. 1, NEW c \in 0 .. 1, NEW d \in 0 .. 1,
         Owing \in Int, Owing' = Owing + a,
         tx_failed' \in {tx_failed + b, tx_failed + b - Wrap},
         handed' \in {handed + c, handed + c - Wrap},
         tx_head' \in {tx_head + d, tx_head + d - Wrap},
         tx_failed' = tx_failed \/ handed' = handed,
         tx_head' = tx_head \/ (tx_failed' = tx_failed /\ handed' = handed),
         a + b + c = d
  PROVE  CountInv'
<1> DEFINE x == tx_failed + handed + Owing - tx_head
<1>1. /\ tx_failed \in Int /\ handed \in Int /\ tx_head \in Int
      /\ tx_failed' \in Int /\ handed' \in Int /\ tx_head' \in Int
      /\ Wrap \in Int /\ Wrap >= 2
  BY Sizes DEF Types, Indices
<1>2. x' \in {x, x + Wrap, x - Wrap} /\ x \in Int
  <2>1. tx_failed' = tx_failed => b = 0
    BY <1>1
  <2>2. handed' = handed => c = 0
    BY <1>1
  <2>3. tx_head' = tx_head => d = 0
    BY <1>1
  <2>a. x' = tx_failed' + handed' + (Owing + a) - tx_head' /\ x \in Int
    BY <1>1
  <2>4. CASE tx_head' = tx_head /\ tx_failed' = tx_failed
    <3>1. a + c = 0
      BY <2>1, <2>3, <2>4
    <3>2. CASE handed' = handed + c
      BY <1>1, <2>a, <2>4, <3>1, <3>2
    <3>3. CASE handed' = handed + c - Wrap
      BY <1>1, <2>a, <2>4, <3>1, <3>3
    <3> QED  BY <3>2, <3>3
  <2>5. CASE tx_head' = tx_head /\ handed' = handed
    <3>1. a + b = 0
      BY <2>2, <2>3, <2>5
    <3>2. CASE tx_failed' = tx_failed + b
      BY <1>1, <2>a, <2>5, <3>1, <3>2
    <3>3. CASE tx_failed' = tx_failed + b - Wrap
      BY <1>1, <2>a, <2>5, <3>1, <3>3
    <3> QED  BY <3>2, <3>3
  <2>6. CASE tx_failed' = tx_failed /\ handed' = handed
    <3>1. a = d
      BY <2>1, <2>2, <2>6
    <3>2. CASE tx_head' = tx_head + d
      BY <1>1, <2>a, <2>6, <3>1, <3>2
    <3>3. CASE tx_head' = tx_head + d - Wrap
      BY <1>1, <2>a, <2>6, <3>1, <3>3
    <3> QED  BY <3>2, <3>3
  <2> QED  BY <2>4, <2>5, <2>6, Zenon
<1>3. (Live \/ ctl.at \in Opened)' => x % Wrap = 0
  BY DEF CountInv
<1> HIDE DEF x
<1>4. ASSUME NEW z PROVE (x % Wrap = 0 /\ z \in {x, x + Wrap, x - Wrap}) => z % Wrap = 0
  BY <1>2, CountMoves
<1>5. (Live \/ ctl.at \in Opened)' => x' % Wrap = 0
  BY <1>2, <1>3, <1>4
<1> QED  BY <1>5 DEF CountInv, x

\* The next index is one more, or the first.
LEMMA NextIs ==
  ASSUME NEW i \in Indices
  PROVE  Next1(i) \in {i + 1, i + 1 - Wrap}
<1>1. Next1(i) = IF i = Wrap - 1 THEN 0 ELSE i + 1
  BY IndexIs
<1> QED  BY <1>1, Sizes DEF Indices

\* What is owed is a number.
LEMMA OwingIs ==
  ASSUME Types
  PROVE  /\ Len(active) \in Nat /\ Len(submitted) \in Nat /\ Owing \in Nat
BY DEF Types, Channels, Owing

\* The ring: the head is published.
LEMMA XmitPublishRing ==
  ASSUME RingInv, IndInv, XmitPublish, Types'
  PROVE  RingParts'
<1>1. Types /\ OwnedInv /\ StoppedInv /\ RoomInv /\ WalkInv /\ BqlInv /\ CountInv
  BY DEF RingInv, RingParts
<1> DEFINE x == tx_head % Ring
<1>2. /\ UNCHANGED <<datapath_up, ctl, tx_tail, tx_failed, slot, bql,
                     handed, cb, active, submitted, napi>>
      /\ xmit = "publish" /\ xmit' = "submit" /\ tx_head' = Next1(tx_head)
  BY DEF XmitPublish, XmitUnchanged, chan, iface
<1>3. Live' = Live /\ (Live \/ ctl.at \in Opened)' = (Live \/ ctl.at \in Opened)
  BY <1>2, FrameLive
<1>4. Live
  BY <1>2, XmitIsLive
<1>5. StoppedInv'
  BY <1>1, <1>2, <1>3, FrameStopped
<1>6. /\ Used \in Nat /\ Used < Ring /\ x \in Slots /\ tx_tail % Ring \in Slots
      /\ tx_head \in Indices /\ tx_tail \in Indices /\ ~slot[x].done /\ Ring \in Nat
  BY <1>1, <1>2, RingNumbers DEF RoomInv
<1>7. Used' = Used + 1
  <2>1. Minus(tx_tail, tx_tail) = 0
    BY <1>6, IndexIs, Sizes DEF Indices
  <2>2. Minus(Next1(tx_head), tx_tail) = Minus(tx_head, tx_tail) + 1
    BY <1>6, <2>1, IndexMoves DEF Used
  <2> QED  BY <1>2, <2>2 DEF Used
<1>8. RoomInv'
  <2>1. Used' <= Ring
    BY <1>6, <1>7
  <2> QED  BY <1>2, <2>1 DEF RoomInv
<1>9. OwnedInv'
  <2> DEFINE o == CbSlot \o (active \o submitted)
  <2>1. Owned = o \o << >> /\ o \in Seq(Slots)
    BY <1>1, <1>2, OwnedType DEF Owned, GivenUp
  <2>2. Owned = o
    BY <2>1, SlotSeqs
  <2>3. o' = o
    BY <1>2 DEF CbSlot
  <2>4. XmitSlot' = x
    BY <1>2, <1>6, PublishedSlot DEF XmitSlot
  <2>5. Owned' = o' \o <<x>>
    BY <1>2, <2>4 DEF Owned, GivenUp
  <2> HIDE DEF o
  <2>6. Owned' = Append(Owned, x)
    BY <1>6, <2>1, <2>2, <2>3, <2>5, SlotSeqs
  <2>7. Owns(Owned, tx_tail % Ring, Used, slot)
    BY <1>1, <1>4 DEF OwnedInv
  <2>8. Ahead(x, tx_tail % Ring) = Used
    BY <1>1, <1>6, HeadSlot DEF Pos
  <2>9. Owned \in Seq(Slots)
    BY <1>1, OwnedType
  <2>10. Owns(Append(Owned, x), tx_tail % Ring, Used + 1, slot)
    BY <1>6, <2>7, <2>8, <2>9, OwnsAppend
  <2> QED  BY <1>2, <1>7, <2>6, <2>10 DEF OwnedInv
<1>10. WalkInv'
  <2> SUFFICES ASSUME napi.at \in {"loop", "bql", "release"}
               PROVE  WalkInv'
    BY <1>2 DEF WalkInv
  <2>1. /\ Minus(napi.tail, tx_tail) <= Minus(napi.head, tx_tail)
        /\ Minus(napi.head, tx_tail) \in Nat /\ Minus(napi.head, tx_tail) <= Used
        /\ \A i \in Slots : Pos(i) < Minus(napi.tail, tx_tail) => slot[i].done
    BY <1>1, WalkNumbers
  <2>2. Minus(napi.head, tx_tail) <= Used'
    BY <1>6, <1>7, <2>1
  <2>3. \A i \in Slots : Pos(i)' = Pos(i)
    BY <1>2 DEF Pos
  <2> QED  BY <1>2, <2>1, <2>2, <2>3 DEF WalkInv
<1>11. BqlInv'
  <2> DEFINE u == IF napi.at = "release" THEN napi.tail ELSE tx_tail
  <2>1. bql = Minus(tx_head, u) + 1
    BY <1>1, <1>2, <1>4 DEF BqlInv
  <2>2. u \in Indices /\ Minus(u, tx_tail) \in Nat /\ Minus(u, tx_tail) <= Used
    <3>1. CASE napi.at = "release"
      BY <1>1, <3>1, WalkNumbers
    <3>2. CASE napi.at # "release"
      <4>1. Minus(tx_tail, tx_tail) = 0
        BY <1>6, IndexIs, Sizes DEF Indices
      <4> QED  BY <1>6, <3>2, <4>1
    <3> QED  BY <3>1, <3>2
  <2>3. u' = u
    BY <1>2
  <2> HIDE DEF u
  <2>4. Minus(tx_head, u) = Used - Minus(u, tx_tail)
    BY <1>6, <2>2, IndexMoves DEF Used
  <2>5. Minus(tx_head', u) = Used' - Minus(u, tx_tail)
    <3>1. ASSUME NEW h \in Indices, NEW k \in Nat, Minus(h, tx_tail) = k,
                 Minus(u, tx_tail) <= k, k <= Ring
          PROVE  Minus(h, u) = k - Minus(u, tx_tail)
      BY <1>6, <2>2, <3>1, IndexMoves
    <3>2. tx_head' \in Indices
      BY <1>2, <1>6, IndexIs
    <3>3. Minus(tx_head', tx_tail) = Used'
      BY <1>2 DEF Used
    <3>4. Used' \in Nat /\ Minus(u, tx_tail) <= Used' /\ Used' <= Ring
      BY <1>6, <1>7, <2>2
    <3> QED  BY <3>1, <3>2, <3>3, <3>4
  <2>6. bql' = Minus(tx_head', u') + 0
    BY <1>2, <1>6, <1>7, <2>1, <2>2, <2>3, <2>4, <2>5
  <2> QED  BY <1>2, <1>3, <1>4, <2>6 DEF BqlInv, u
<1>12. CountInv'
  <2>1. Owing' = Owing + 1 /\ Owing \in Nat
    BY <1>1, <1>2, OwingIs DEF Owing
  <2>2. tx_head' \in {tx_head + 1, tx_head + 1 - Wrap}
    BY <1>2, <1>6, NextIs
  <2>3. tx_failed + 0 = tx_failed /\ handed + 0 = handed
    BY <1>1, Sizes DEF Types, Indices
  <2> QED  BY <1>1, <1>2, <1>3, <2>1, <2>2, <2>3, CountStep
<1> QED  BY <1>5, <1>8, <1>9, <1>10, <1>11, <1>12 DEF RingParts

\* Starting what was submitted moves no slot to another owner.
LEMMA FrameIssue ==
  ASSUME RingInv, issue_pending, Live' = Live,
         (Live \/ ctl.at \in Opened)' => Live \/ ctl.at \in Opened,
         UNCHANGED <<tx_head, tx_tail, slot, bql, tx_failed, handed, cb, napi>>,
         xmit' = xmit
           \/ /\ xmit \notin {"submit", "work", "done", "publish"}
              /\ xmit' \notin {"submit", "work", "done", "publish", "gate"}
  PROVE  RingParts'
<1>1. Types /\ OwnedInv /\ StoppedInv /\ RoomInv /\ WalkInv /\ BqlInv /\ CountInv
  BY DEF RingInv, RingParts
<1>2. active' = active \o submitted /\ submitted' = << >>
  BY DEF issue_pending
<1>3. active \in Seq(Slots) /\ submitted \in Seq(Slots) /\ active \o submitted \in Seq(Slots)
  BY <1>1, OwnedType
<1>4. active' \o submitted' = active \o submitted
  BY <1>2, <1>3, SlotSeqs
<1>5. CbSlot' = CbSlot /\ GivenUp' = GivenUp
  BY DEF CbSlot, GivenUp, XmitSlot
<1>6. Owned' = Owned
  BY <1>4, <1>5 DEF Owned
<1>7. Len(active') + Len(submitted') = Len(active) + Len(submitted)
  BY <1>2, <1>3, SlotSeqs
<1>8. Owing' = Owing
  BY <1>7 DEF Owing
<1>9. OwnedInv' /\ RoomInv' /\ WalkInv' /\ BqlInv' /\ CountInv'
  BY <1>1, <1>6, <1>8, FrameOwned, FrameRoom, FrameWalk, FrameBql, FrameCount
<1>10. StoppedInv'
  BY <1>1, <1>2, <1>3, SlotSeqs DEF StoppedInv
<1> QED  BY <1>9, <1>10 DEF RingParts

\* The ring: the descriptor is submitted, or refused.
LEMMA XmitSubmitRing ==
  ASSUME RingInv, IndInv, NEW refused \in CanFail, XmitSubmit(refused), Types'
  PROVE  RingParts'
<1>1. Types /\ OwnedInv /\ StoppedInv /\ RoomInv /\ WalkInv /\ BqlInv /\ CountInv
  BY DEF RingInv, RingParts
<1>2. /\ UNCHANGED <<datapath_up, ctl, tx_head, tx_tail, bql, handed, cb, active, napi>>
      /\ xmit = "submit"
      /\ \/ /\ xmit' = "work" /\ slot' = [slot EXCEPT ![XmitSlot].failed = TRUE]
            /\ tx_failed' = Next1(tx_failed) /\ submitted' = submitted
         \/ /\ xmit' = "full" /\ submitted' = Append(submitted, XmitSlot)
            /\ slot' = slot /\ tx_failed' = tx_failed
  BY DEF XmitSubmit, XmitUnchanged, iface
<1>3. Live' = Live /\ (Live \/ ctl.at \in Opened)' = (Live \/ ctl.at \in Opened)
  BY <1>2, FrameLive
<1>4. Live
  BY <1>2, XmitIsLive
<1>5. StoppedInv'
  BY <1>3, <1>4 DEF StoppedInv
<1>6. BqlInv'
  BY <1>1, <1>2, <1>3, FrameBql
<1>7. XmitSlot \in Slots /\ XmitSlot' = XmitSlot
  BY <1>1, <1>2, XmitSlotType DEF XmitSlot
<1>8. \A i \in Slots : slot'[i].done = slot[i].done
  <2>1. slot \in RingWords
    BY <1>1 DEF Types
  <2>2. \A i \in Slots : [slot EXCEPT ![XmitSlot].failed = TRUE][i].done = slot[i].done
    BY ONLY <1>7, <2>1, TRUE \in BOOLEAN, SlotBits
  <2> QED  BY <1>2, <2>2
<1>9. WalkInv'
  BY <1>1, <1>2, <1>8, FrameWalk
<1>10. RoomInv'
  BY <1>1, <1>2 DEF RoomInv, Used
<1>11. Owned' = Owned
  <2>1. CASE xmit' = "work"
    BY <1>2, <1>7, <2>1 DEF Owned, CbSlot, GivenUp
  <2>2. CASE xmit' = "full"
    <3> DEFINE c == CbSlot
               s == submitted
               g == <<XmitSlot>>
    <3>1. submitted' = Append(s, XmitSlot)
      BY <1>2, <2>2
    <3>2. /\ c \in Seq(Slots) /\ active \in Seq(Slots) /\ s \in Seq(Slots)
          /\ g \in Seq(Slots) /\ active \o s \in Seq(Slots)
      BY <1>1, <1>7, OwnedType, SlotSeqs
    <3>3. submitted' = s \o g
      BY <1>7, <3>1, <3>2, SlotSeqs
    <3>4. Owned = (c \o (active \o s)) \o g
      BY <1>2 DEF Owned, GivenUp
    <3>5. Owned' = (c \o (active \o (s \o g))) \o << >>
      BY <1>2, <2>2, <3>3 DEF Owned, GivenUp, CbSlot
    <3> HIDE DEF c, s, g
    <3>6. (active \o s) \o g = active \o (s \o g)
      BY ONLY <3>2, ConcatAssociative
    <3>7. (c \o (active \o s)) \o g = c \o ((active \o s) \o g)
      <4>1. ASSUME NEW m \in Seq(Slots) PROVE (c \o m) \o g = c \o (m \o g)
        BY ONLY <3>2, <4>1, ConcatAssociative
      <4> QED  BY ONLY <3>2, <4>1, Zenon
    <3>8. (c \o (active \o s)) \o g \in Seq(Slots)
      BY <3>2, SlotSeqs
    <3>9. ((c \o (active \o s)) \o g) \o << >> = (c \o (active \o s)) \o g
      BY <3>8, SlotSeqs
    <3> QED  BY <3>4, <3>5, <3>6, <3>7, <3>9
  <2> QED  BY <1>2, <2>1, <2>2
<1>12. OwnedInv'
  <2>1. Owns(Owned, tx_tail % Ring, Used, slot)
    BY <1>1, <1>4 DEF OwnedInv
  <2>2. Owned \in Seq(Slots) /\ tx_tail % Ring \in Slots /\ Used \in Nat
    BY <1>1, OwnedType, RingNumbers
  <2>3. Owns(Owned, tx_tail % Ring, Used, slot')
    BY <1>8, <2>1, <2>2, OwnsSame
  <2>4. Used' = Used
    BY <1>2 DEF Used
  <2> QED  BY <1>2, <1>11, <2>3, <2>4 DEF OwnedInv
<1>13. CountInv'
  <2>1. CASE xmit' = "work"
    <3>1. Owing' = Owing + (-1) /\ Owing \in Nat
      BY <1>1, <1>2, <2>1, OwingIs DEF Owing
    <3>2. tx_failed' \in {tx_failed + 1, tx_failed + 1 - Wrap}
      BY <1>1, <1>2, <2>1, NextIs DEF Types
    <3>3. tx_head + 0 = tx_head /\ handed + 0 = handed
      BY <1>1, Sizes DEF Types, Indices
    <3> QED  BY <1>1, <1>2, <1>3, <3>1, <3>2, <3>3, CountStep
  <2>2. CASE xmit' = "full"
    <3>1. submitted' = Append(submitted, XmitSlot) /\ submitted \in Seq(Slots)
      BY <1>1, <1>2, <2>2, OwnedType
    <3>a. Len(submitted') = Len(submitted) + 1 /\ Len(submitted) \in Nat /\ Len(active) \in Nat
      BY <1>1, <1>7, <3>1, AppendProperties, OwingIs
    <3>b. xmit = "submit" /\ xmit' = "full" /\ cb' = cb /\ active' = active
      BY <1>2, <2>2
    <3>2. Owing' = Owing
      BY ONLY <3>a, <3>b DEF Owing
    <3>3. tx_failed' = tx_failed
      BY <1>2, <2>2
    <3> QED  BY <1>1, <1>2, <1>3, <3>2, <3>3, FrameCount
  <2> QED  BY <1>2, <2>1, <2>2
<1> QED  BY <1>5, <1>6, <1>9, <1>10, <1>12, <1>13 DEF RingParts

\* The ring: the refused frame is marked failed.
LEMMA XmitFailedRing ==
  ASSUME RingInv, IndInv, XmitFailed, Types'
  PROVE  RingParts'
<1>1. Types /\ OwnedInv /\ StoppedInv /\ RoomInv /\ WalkInv /\ BqlInv /\ CountInv
  BY DEF RingInv, RingParts
<1>2. /\ UNCHANGED <<datapath_up, ctl, tx_head, tx_tail, bql, tx_failed, handed, cb, active,
                     submitted, napi>>
      /\ \/ xmit = "work" /\ xmit' = "done" /\ slot' = slot
         \/ /\ xmit = "done" /\ xmit' = "napi"
            /\ slot' = [slot EXCEPT ![XmitSlot].done = TRUE]
         \/ xmit = "napi" /\ xmit' = "full" /\ slot' = slot
  BY DEF XmitFailed, XmitUnchanged, iface, chan
<1>3. Live' = Live /\ (Live \/ ctl.at \in Opened)' = (Live \/ ctl.at \in Opened)
  BY <1>2, FrameLive
<1>4. Live
  BY <1>2, XmitIsLive
<1>5. StoppedInv'
  BY <1>3, <1>4 DEF StoppedInv
<1>6. BqlInv'
  BY <1>1, <1>2, <1>3, FrameBql
<1>7. XmitSlot \in Slots /\ slot \in RingWords
  BY <1>1, XmitSlotType DEF Types
<1>8. /\ \A i \in Slots : slot[i].done => [slot EXCEPT ![XmitSlot].done = TRUE][i].done
      /\ [slot EXCEPT ![XmitSlot].done = TRUE][XmitSlot].done = TRUE
      /\ \A i \in Slots : i # XmitSlot =>
            [slot EXCEPT ![XmitSlot].done = TRUE][i].done = slot[i].done
  BY ONLY <1>7, TRUE \in BOOLEAN, SlotBits
<1>9. WalkInv'
  <2>1. \A i \in Slots : slot[i].done => slot'[i].done
    BY <1>2, <1>8
  <2> QED  BY <1>1, <1>2, <2>1, FrameWalk
<1>10. RoomInv'
  BY <1>1, <1>2 DEF RoomInv, Used
<1>11. CountInv'
  <2>1. Owing' = Owing
    BY <1>2 DEF Owing
  <2> QED  BY <1>1, <1>2, <1>3, <2>1, FrameCount
<1>12. OwnedInv'
  <2>1. CASE xmit # "done"
    <3>1. Owned' = Owned /\ slot' = slot
      BY <1>2, <2>1 DEF Owned, CbSlot, GivenUp, XmitSlot
    <3> QED  BY <1>1, <1>2, <1>3, <3>1, FrameOwned
  <2>2. CASE xmit = "done"
    <3> DEFINE o == CbSlot \o (active \o submitted)
    <3>1. o \in Seq(Slots)
      BY <1>1, OwnedType
    <3>2. Owned = o \o <<XmitSlot>> /\ Owned' = o \o << >>
      BY <1>2, <2>2 DEF Owned, GivenUp, CbSlot
    <3> HIDE DEF o
    <3>3. Owned = Append(o, XmitSlot) /\ Owned' = o
      BY <1>7, <3>1, <3>2, SlotSeqs
    <3>4. Owns(Append(o, XmitSlot), tx_tail % Ring, Used, slot)
      BY <1>1, <1>4, <3>3 DEF OwnedInv
    <3>5. tx_tail % Ring \in Slots /\ Used \in Nat
      BY <1>1, RingNumbers
    <3>6. slot'[XmitSlot].done /\ \A i \in Slots : i # XmitSlot => slot'[i].done = slot[i].done
      BY <1>2, <1>8, <2>2
    <3>7. Owns(o, tx_tail % Ring, Used, slot')
      BY <1>7, <3>1, <3>4, <3>5, <3>6, OwnsLast
    <3>8. Used' = Used
      BY <1>2 DEF Used
    <3> QED  BY <1>2, <3>3, <3>7, <3>8 DEF OwnedInv
  <2> QED  BY <2>1, <2>2
<1> QED  BY <1>5, <1>6, <1>9, <1>10, <1>11, <1>12 DEF RingParts

\* The ring: emz_start_xmit.
LEMMA XmitRing == RingInv /\ IndInv /\ Types' /\ (XmitEnter \/ Xmit) => RingParts'
<1> SUFFICES ASSUME RingInv, IndInv, Types', XmitEnter \/ Xmit PROVE RingParts'
  OBVIOUS
<1>0. RingParts /\ Types
  BY DEF RingInv
<1> USE DEF ring, iface, chan, XmitUnchanged
<1>1. CASE XmitEnter
  <2>1. StandsStill /\ napi' = napi /\ xmit = "idle"
    BY <1>1 DEF XmitEnter, StandsStill
  <2>2. CASE emz_tx_free = 0
    <3>1. xmit' = "busy"
      BY <1>1, <2>2 DEF XmitEnter
    <3> QED  BY <1>0, <2>1, <3>1, FrameAll
  <2>3. CASE emz_tx_free # 0
    <3>1. xmit' = "gate"
      BY <1>1, <2>3 DEF XmitEnter
    <3>2. Used \in Nat /\ Used <= Ring /\ Ring \in Nat
      BY <1>0, RingNumbers DEF RingParts
    <3>3. Used < Ring
      BY <2>3, <3>2 DEF emz_tx_free, Used
    <3>a. Live' = Live /\ (Live \/ ctl.at \in Opened)' = (Live \/ ctl.at \in Opened)
      BY <2>1, FrameLive DEF StandsStill
    <3>4. Owned' = Owned /\ Owing' = Owing
      BY <2>1, <3>1, FrameOwnedSeq DEF Owing, StandsStill
    <3>5. OwnedInv' /\ StoppedInv' /\ WalkInv' /\ BqlInv' /\ CountInv'
      BY <1>0, <2>1, <3>1, <3>a, <3>4, FrameOwned, FrameStopped, FrameWalk, FrameBql, FrameCount
         DEF RingParts, StandsStill
    <3>6. RoomInv'
      BY <2>1, <3>1, <3>2, <3>3 DEF RoomInv, Used, StandsStill
    <3> QED  BY <3>5, <3>6 DEF RingParts
  <2> QED  BY <2>2, <2>3
<1>2. CASE XmitBusy
  <2>1. StandsStill /\ napi' = napi /\ xmit = "busy" /\ xmit' = "idle"
    BY <1>2 DEF XmitBusy, StandsStill
  <2> QED  BY <1>0, <2>1, FrameAll
<1>3. CASE XmitPublish
  BY <1>3, XmitPublishRing
<1>4. CASE XmitFailed
  BY <1>4, XmitFailedRing
<1>5. CASE XmitFull
  <2>1. CASE xmit # "issue"
    <3>1. StandsStill /\ napi' = napi
      BY <1>5, <2>1 DEF XmitFull, StandsStill
    <3>2. /\ xmit \in {"full", "stop", "recheck", "start"}
          /\ xmit' \in {"stop", "flush", "issue", "start", "idle"}
      BY <1>5, <2>1 DEF XmitFull
    <3> QED  BY <1>0, <3>1, <3>2, FrameAll
  <2>2. CASE xmit = "issue"
    <3>1. /\ issue_pending /\ xmit' = "recheck"
          /\ UNCHANGED <<tx_head, tx_tail, slot, bql, tx_failed, handed, cb, napi>>
          /\ UNCHANGED <<datapath_up, ctl>>
      BY <1>5, <2>2 DEF XmitFull
    <3>2. Live' = Live /\ (Live \/ ctl.at \in Opened)' = (Live \/ ctl.at \in Opened)
      BY <3>1, FrameLive
    <3> QED  BY <2>2, <3>1, <3>2, FrameIssue
  <2> QED  BY <2>1, <2>2
<1>6. ASSUME NEW dropped \in CanFail, XmitGate(dropped) PROVE RingParts'
  BY <1>6, XmitGateRing
<1>7. ASSUME NEW refused \in CanFail, XmitSubmit(refused) PROVE RingParts'
  BY <1>7, XmitSubmitRing
<1>8. ASSUME NEW more \in BOOLEAN, XmitFlush(more) PROVE RingParts'
  <2>1. CASE more
    <3>1. StandsStill /\ napi' = napi /\ xmit = "flush" /\ xmit' = "idle"
      BY <1>8, <2>1 DEF XmitFlush, StandsStill
    <3> QED  BY <1>0, <3>1, FrameAll
  <2>2. CASE ~more
    <3>1. /\ issue_pending /\ xmit = "flush" /\ xmit' = "idle"
          /\ UNCHANGED <<tx_head, tx_tail, slot, bql, tx_failed, handed, cb, napi>>
          /\ UNCHANGED <<datapath_up, ctl>>
      BY <1>8, <2>2 DEF XmitFlush
    <3>2. Live' = Live /\ (Live \/ ctl.at \in Opened)' = (Live \/ ctl.at \in Opened)
      BY <3>1, FrameLive
    <3> QED  BY <3>1, <3>2, FrameIssue
  <2> QED  BY <2>1, <2>2
<1> QED BY <1>1, <1>2, <1>3, <1>4, <1>5, <1>6, <1>7, <1>8 DEF Xmit

\* The callback's own step that publishes done.
LEMMA CbDoneRing ==
  ASSUME RingInv, IndInv, emz_tx_dma_done, cb.at = "done"
  PROVE  RingParts'
<1>1. Types /\ OwnedInv /\ StoppedInv /\ RoomInv /\ WalkInv /\ BqlInv /\ CountInv
  BY DEF RingInv, RingParts
<1>2. /\ UNCHANGED <<datapath_up, ctl, tx_head, tx_tail, bql, tx_failed, handed, active,
                     submitted, napi, xmit>>
      /\ cb' = [cb EXCEPT !.at = "napi"]
      /\ slot' = [slot EXCEPT ![cb.idx].done = TRUE]
  BY DEF emz_tx_dma_done, DmaUnchanged, iface, chan, gate
<1>3. Live' = Live /\ (Live \/ ctl.at \in Opened)' = (Live \/ ctl.at \in Opened)
  BY <1>2, FrameLive
<1>4. Live
  BY <1>1 DEF StoppedInv
<1>5. StoppedInv'
  BY <1>3, <1>4 DEF StoppedInv
<1>6. BqlInv'
  BY <1>1, <1>2, <1>3, FrameBql
<1>7. cb.idx \in Slots /\ slot \in RingWords
  BY <1>1 DEF Types, CbRecs
<1>a. cb'.at = "napi"
  BY <1>2 DEF IndInv, Shapes
<1>8. /\ \A i \in Slots : slot[i].done => slot'[i].done
      /\ slot'[cb.idx].done = TRUE
      /\ \A i \in Slots : i # cb.idx => slot'[i].done = slot[i].done
  <2>1. /\ \A i \in Slots : slot[i].done => [slot EXCEPT ![cb.idx].done = TRUE][i].done
        /\ [slot EXCEPT ![cb.idx].done = TRUE][cb.idx].done = TRUE
        /\ \A i \in Slots : i # cb.idx =>
              [slot EXCEPT ![cb.idx].done = TRUE][i].done = slot[i].done
    BY ONLY <1>7, TRUE \in BOOLEAN, SlotBits
  <2> QED  BY <1>2, <2>1
<1>9. WalkInv'
  BY <1>1, <1>2, <1>8, FrameWalk
<1>10. CountInv'
  <2>1. Owing' = Owing
    BY <1>2, <1>a DEF Owing
  <2> QED  BY <1>1, <1>2, <1>3, <2>1, FrameCount
<1>11. Owns(Owned, tx_tail % Ring, Used, slot) /\ tx_tail % Ring \in Slots /\ Used \in Nat
  BY <1>1, <1>4, RingNumbers DEF OwnedInv
<1> DEFINE o == (active \o submitted) \o GivenUp
<1>12. o \in Seq(Slots)
  BY <1>1, OwnedType, SlotSeqs
<1>13. Owned = <<cb.idx>> \o o
  <2>1. <<cb.idx>> \in Seq(Slots) /\ active \o submitted \in Seq(Slots) /\ GivenUp \in Seq(Slots)
    BY <1>1, <1>7, OwnedType, SlotSeqs
  <2>2. (<<cb.idx>> \o (active \o submitted)) \o GivenUp
          = <<cb.idx>> \o ((active \o submitted) \o GivenUp)
    BY ONLY <2>1, ConcatAssociative
  <2> QED  BY <2>2 DEF Owned, CbSlot
<1>14. Owned' = o
  <2>1. active \o submitted \in Seq(Slots)
    BY <1>1, OwnedType
  <2>2. << >> \o (active \o submitted) = active \o submitted
    BY <2>1, SlotSeqs
  <2>3. Owned' = (<< >> \o (active \o submitted)) \o GivenUp
    BY <1>2, <1>a DEF Owned, CbSlot, GivenUp, XmitSlot
  <2> QED  BY <2>2, <2>3
<1> HIDE DEF o
<1>15. Owned[1] = cb.idx /\ Tail(Owned) = o /\ Owned \in Seq(Slots)
  BY <1>1, <1>7, <1>12, <1>13, SlotSeqs, OwnedType
<1>16. Owned # << >> /\ Len(Owned) \in Nat /\ 1 \in 1 .. Len(Owned)
  BY <1>7, <1>12, <1>13, <1>15
<1>17. OwnedInv'
  <2>1. slot'[Owned[1]].done /\ \A i \in Slots : i # Owned[1] => slot'[i].done = slot[i].done
    BY <1>8, <1>15
  <2>2. Owns(Tail(Owned), tx_tail % Ring, Used, slot')
    BY <1>11, <1>15, <1>16, <2>1, OwnsFirst
  <2>3. Used' = Used
    BY <1>2 DEF Used
  <2> QED  BY <1>2, <1>14, <1>15, <2>2, <2>3 DEF OwnedInv
<1>18. RoomInv'
  <2>1. ASSUME xmit = "publish" PROVE ~slot'[tx_head % Ring].done
    <3>1. Pos(tx_head % Ring) = Used /\ tx_head % Ring \in Slots /\ ~slot[tx_head % Ring].done
      BY <1>1, <2>1, HeadSlot, RingNumbers DEF RoomInv
    <3>2. Pos(cb.idx) < Used
      BY <1>11, <1>15, <1>16 DEF Owns, Pos
    <3>3. tx_head % Ring # cb.idx
      BY <1>11, <3>1, <3>2
    <3> QED  BY <1>8, <3>1, <3>3
  <2> QED  BY <1>1, <1>2, <2>1 DEF RoomInv, Used
<1> QED  BY <1>5, <1>6, <1>9, <1>10, <1>17, <1>18 DEF RingParts

\* The ring: the completion callback.
LEMMA CbRing ==
  ASSUME RingInv, IndInv, emz_tx_dma_done, Types'
  PROVE  RingParts'
<1>1. Types /\ OwnedInv /\ StoppedInv /\ RoomInv /\ WalkInv /\ BqlInv /\ CountInv
  BY DEF RingInv, RingParts
<1>2. CASE cb.at = "done"
  BY <1>2, CbDoneRing
<1>3. CASE cb.at # "done"
  <2>1. /\ UNCHANGED <<datapath_up, ctl, tx_head, tx_tail, bql, handed, active,
                       submitted, napi, xmit>>
        /\ cb.at \in {"status", "work", "napi"}
    BY <1>3 DEF emz_tx_dma_done, DmaUnchanged, iface, chan, gate
  <2>2. Live' = Live /\ (Live \/ ctl.at \in Opened)' = (Live \/ ctl.at \in Opened)
    BY <2>1, FrameLive
  <2>3. Live
    BY <1>1, <2>1 DEF StoppedInv
  <2>4. StoppedInv'
    BY <2>2, <2>3 DEF StoppedInv
  <2>5. BqlInv'
    BY <1>1, <2>1, <2>2, FrameBql
  <2>6. cb.idx \in Slots /\ slot \in RingWords /\ cb.failed \in BOOLEAN
    BY <1>1 DEF Types, CbRecs
  <2>7. \A i \in Slots : slot'[i].done = slot[i].done
    <3>1. \A i \in Slots : [slot EXCEPT ![cb.idx].failed = cb.failed][i].done = slot[i].done
      BY ONLY <2>6, SlotBits
    <3>2. slot' = [slot EXCEPT ![cb.idx].failed = cb.failed] \/ slot' = slot
      BY <2>1 DEF emz_tx_dma_done
    <3> QED  BY <3>1, <3>2
  <2>8. WalkInv'
    BY <1>1, <2>1, <2>7, FrameWalk
  <2>9. RoomInv'
    <3>1. tx_head % Ring \in Slots
      BY <1>1, RingNumbers
    <3>2. ~slot[tx_head % Ring].done => ~slot'[tx_head % Ring].done
      BY <2>7, <3>1
    <3> QED  BY <1>1, <2>1, <3>2 DEF RoomInv, Used
  <2>10. CbSlot' = CbSlot
    BY <2>1 DEF CbSlot, emz_tx_dma_done, CbIdle, IndInv, Shapes
  <2>11. Owned' = Owned
    BY <2>1, <2>10 DEF Owned, GivenUp, XmitSlot
  <2>12. OwnedInv'
    <3>1. Owns(Owned, tx_tail % Ring, Used, slot)
      BY <1>1, <2>3 DEF OwnedInv
    <3>2. Owned \in Seq(Slots) /\ tx_tail % Ring \in Slots /\ Used \in Nat
      BY <1>1, OwnedType, RingNumbers
    <3>3. Owns(Owned, tx_tail % Ring, Used, slot')
      BY <2>7, <3>1, <3>2, OwnsSame
    <3>4. Used' = Used
      BY <2>1 DEF Used
    <3> QED  BY <2>1, <2>11, <3>3, <3>4 DEF OwnedInv
  <2>13. CountInv'
    <3>1. CASE cb.at = "status" /\ cb.failed
      <4>1. tx_failed' = Next1(tx_failed) /\ cb'.at = "work"
        BY <3>1 DEF emz_tx_dma_done, IndInv, Shapes
      <4>2. Owing' = Owing + (-1) /\ Owing \in Nat
        BY <1>1, <2>1, <3>1, <4>1, OwingIs DEF Owing
      <4>3. tx_failed' \in {tx_failed + 1, tx_failed + 1 - Wrap}
        BY <1>1, <4>1, NextIs DEF Types
      <4>4. tx_head + 0 = tx_head /\ handed + 0 = handed
        BY <1>1, Sizes DEF Types, Indices
      <4> QED  BY <1>1, <2>1, <2>2, <4>2, <4>3, <4>4, CountStep
    <3>2. CASE ~(cb.at = "status" /\ cb.failed)
      <4>1. tx_failed' = tx_failed /\ cb'.at # "status"
        BY <2>1, <3>2 DEF emz_tx_dma_done, CbIdle, IndInv, Shapes
      <4>2. Owing' = Owing
        BY <2>1, <3>2, <4>1 DEF Owing
      <4> QED  BY <1>1, <2>1, <2>2, <4>1, <4>2, FrameCount
    <3> QED  BY <3>1, <3>2
  <2> QED  BY <2>4, <2>5, <2>8, <2>9, <2>12, <2>13 DEF RingParts
<1> QED  BY <1>2, <1>3

\* The ring: a descriptor completes.
LEMMA DmaCompleteRing ==
  ASSUME RingInv, IndInv, NEW starts \in BOOLEAN, DmaComplete(starts), Types'
  PROVE  RingParts'
<1>1. Types /\ OwnedInv /\ StoppedInv /\ RoomInv /\ WalkInv /\ BqlInv /\ CountInv
  BY DEF RingInv, RingParts
<1> DEFINE h == <<Head(active)>>
           t == Tail(active)
           s == submitted
<1>2. /\ UNCHANGED <<datapath_up, ctl, tx_head, tx_tail, slot, bql, tx_failed, napi, xmit>>
      /\ cb.at = "idle" /\ active # << >> /\ cb'.at = "status" /\ cb'.idx = Head(active)
      /\ cb'.failed = halted
      /\ handed' = IF halted THEN handed ELSE Next1(handed)
      /\ \/ active' = t \o s /\ submitted' = << >>
         \/ active' = t /\ submitted' = s
  BY DEF DmaComplete, DmaUnchanged, iface, chan, gate
<1>3. Live' = Live /\ (Live \/ ctl.at \in Opened)' = (Live \/ ctl.at \in Opened)
  BY <1>2, FrameLive
<1>4. Live
  BY <1>1, <1>2 DEF StoppedInv
<1>5. StoppedInv'
  BY <1>3, <1>4 DEF StoppedInv
<1>6. RoomInv' /\ WalkInv' /\ BqlInv'
  BY <1>1, <1>2, <1>3, FrameRoom, FrameWalk, FrameBql
<1>7. /\ h \in Seq(Slots) /\ t \in Seq(Slots) /\ s \in Seq(Slots) /\ active = h \o t
      /\ t \o s \in Seq(Slots) /\ active \o s \in Seq(Slots)
  <2>1. active \in Seq(Slots) /\ s \in Seq(Slots) /\ active \o s \in Seq(Slots)
    BY <1>1, OwnedType
  <2>2. Head(active) \in Slots /\ t \in Seq(Slots) /\ <<Head(active)>> \o t = active
    BY <1>2, <2>1, SlotSeqs
  <2> QED  BY <2>1, <2>2, SlotSeqs
<1>8. active' \o submitted' = t \o s
  <2>1. (t \o s) \o << >> = t \o s
    BY <1>7, SlotSeqs
  <2> QED  BY <1>2, <2>1
<1>9. Owned' = (h \o (t \o s)) \o GivenUp
  BY <1>2, <1>8 DEF Owned, CbSlot, GivenUp, XmitSlot
<1>10. Owned = ((h \o t) \o s) \o GivenUp
  <2>1. << >> \o (active \o s) = active \o s
    BY <1>7, SlotSeqs
  <2>2. Owned = (<< >> \o (active \o s)) \o GivenUp
    BY <1>2 DEF Owned, CbSlot
  <2> QED  BY <1>7, <2>1, <2>2
<1>a. Len(active) = Len(t) + 1 /\ Len(t) \in Nat /\ Len(s) \in Nat
  BY <1>1, <1>2, <1>7, OwnedType
<1>b. Len(active') + Len(submitted') = Len(t) + Len(s)
  <2>1. Len(t \o s) = Len(t) + Len(s) /\ Len(<< >>) = 0
    BY <1>7, SlotSeqs
  <2> QED  BY <1>2, <1>a, <2>1
<1> HIDE DEF h, t, s
<1>11. (h \o t) \o s = h \o (t \o s)
  BY ONLY <1>7, ConcatAssociative
<1>12. OwnedInv'
  <2>1. Owned' = Owned
    BY <1>9, <1>10, <1>11
  <2> QED  BY <1>1, <1>2, <1>3, <2>1, FrameOwned
<1>13. CountInv'
  <2> DEFINE f == IF halted THEN 1 ELSE 0
             g == IF xmit = "submit" THEN 1 ELSE 0
  <2>1. Owing = Len(t) + 1 + Len(s) + 0 + g
    BY <1>2, <1>a DEF Owing, s
  <2>2. Owing' = Len(t) + Len(s) + f + g
    BY <1>2, <1>b DEF Owing
  <2>3. f \in 0 .. 1 /\ g \in 0 .. 1 /\ f - 1 \in -1 .. 1 /\ 1 - f \in 0 .. 1
    OBVIOUS
  <2>4. handed' \in {handed + (1 - f), handed + (1 - f) - Wrap}
    <3>1. handed \in Indices /\ handed \in Int /\ Wrap \in Int
      BY <1>1, Sizes DEF Types, Indices
    <3>2. handed + 0 = handed
      BY <3>1
    <3> QED  BY <1>2, <3>1, <3>2, NextIs
  <2> HIDE DEF f, g
  <2>5. Owing' = Owing + (f - 1) /\ Owing \in Int /\ (f - 1) + 0 + (1 - f) = 0
    BY <1>a, <2>1, <2>2, <2>3
  <2>6. tx_head + 0 = tx_head /\ tx_failed + 0 = tx_failed
    BY <1>1, Sizes DEF Types, Indices
  <2> QED  BY <1>1, <1>2, <1>3, <2>3, <2>4, <2>5, <2>6, CountStep
<1> QED  BY <1>5, <1>6, <1>12, <1>13 DEF RingParts

\* The ring: the channel and its callback.
LEMMA DmaRing == RingInv /\ IndInv /\ Types' /\ Dma => RingParts'
<1> SUFFICES ASSUME RingInv, IndInv, Types', Dma PROVE RingParts'
  OBVIOUS
<1>0. RingParts /\ Types
  BY DEF RingInv
<1>1. CASE DmaHalt
  <2>1. StandsStill /\ napi' = napi /\ xmit' = xmit
    BY <1>1 DEF DmaHalt, StandsStill, DmaUnchanged, iface
  <2> QED  BY <1>0, <2>1, FrameAll
<1>2. CASE emz_tx_dma_done
  BY <1>2, CbRing
<1>3. CASE emz_rx_dma_failed
  <2>1. StandsStill /\ napi' = napi /\ xmit' = xmit
    BY <1>3 DEF emz_rx_dma_failed, StandsStill, DmaUnchanged, iface, chan
  <2> QED  BY <1>0, <2>1, FrameAll
<1>4. ASSUME NEW starts \in BOOLEAN, DmaComplete(starts) PROVE RingParts'
  BY <1>4, DmaCompleteRing
<1> QED BY <1>1, <1>2, <1>3, <1>4 DEF Dma

\* A step of the rtnl holder that leaves the ring and the channel alone.
CtlOnly == UNCHANGED <<tx_head, tx_tail, slot, bql, tx_failed, handed, cb, active, submitted,
                       napi, xmit>>

\* A step of the rebuild that leaves the ring alone.
LEMMA FrameCtl ==
  ASSUME RingParts, CtlOnly, Live' = Live,
         (Live \/ ctl.at \in Opened)' => Live \/ ctl.at \in Opened
  PROVE  RingParts'
<1>1. Owned' = Owned /\ Owing' = Owing
  BY FrameOwnedSeq DEF Owing, CtlOnly
<1> QED  BY <1>1, FrameOwned, FrameStopped, FrameRoom, FrameWalk, FrameBql, FrameCount
            DEF RingParts, CtlOnly

\* The end of a datapath.
LEMMA StopRing ==
  ASSUME RingParts, IndInv, emz_dma_stop
  PROVE  RingParts'
<1>1. OwnedInv /\ StoppedInv /\ RoomInv /\ WalkInv /\ BqlInv /\ CountInv
  BY DEF RingParts
<1>2. /\ UNCHANGED <<tx_head, tx_tail, slot, napi, xmit, datapath_up>>
      /\ cb' = cb /\ cb.at = "idle" /\ active' = << >> /\ submitted' = << >> /\ bql' = 0
      /\ ctl.at = "stop" /\ ctl'.at \in {"clear", "idle"}
  BY DEF emz_dma_stop, CtlUnchanged, Goto, iface
<1>3. ~Live' /\ ~(ctl.at \in Opened)'
  BY <1>2 DEF Live, Opened, IndInv, Phase
<1>4. RoomInv' /\ WalkInv'
  BY <1>1, <1>2, FrameRoom, FrameWalk
<1>5. OwnedInv' /\ StoppedInv' /\ BqlInv' /\ CountInv'
  BY <1>2, <1>3 DEF OwnedInv, StoppedInv, BqlInv, CountInv
<1> QED  BY <1>4, <1>5 DEF RingParts

\* emz_datapath_up starts from an empty ring.
LEMMA ClearRing ==
  ASSUME RingParts, IndInv, CtlClear
  PROVE  RingParts'
<1>1. OwnedInv /\ StoppedInv /\ RoomInv /\ WalkInv /\ BqlInv /\ CountInv
  BY DEF RingParts
<1>2. /\ UNCHANGED <<bql, cb, active, submitted, napi, xmit, datapath_up>>
      /\ tx_head' = 0 /\ tx_tail' = 0 /\ tx_failed' = 0 /\ handed' = 0
      /\ ctl.at = "clear" /\ ctl'.at = "alloc"
  BY DEF CtlClear, CtlUnchanged, Goto, iface, chan
<1>3. ~Live /\ ~Live'
  BY <1>2 DEF Live, IndInv, Phase
<1>4. xmit = "idle" /\ napi.at = "idle"
  BY <1>2, <1>3, DownIsQuiet
<1>5. active = << >> /\ submitted = << >> /\ cb.at = "idle" /\ bql = 0
  BY <1>1, <1>3 DEF StoppedInv, BqlInv
<1>6. Minus(0, 0) = 0 /\ 0 % Wrap = 0
  BY SmallFacts, IndexIs, Sizes
<1>7. RoomInv'
  BY <1>2, <1>4, <1>6, Sizes DEF RoomInv, Used
<1>8. WalkInv'
  BY <1>2, <1>4 DEF WalkInv
<1>9. OwnedInv' /\ StoppedInv' /\ BqlInv'
  BY <1>2, <1>3, <1>5 DEF OwnedInv, StoppedInv, BqlInv
<1>10. CountInv'
  <2>1. Owing' = 0
    BY <1>2, <1>4, <1>5 DEF Owing
  <2> QED  BY <1>2, <1>6, <2>1 DEF CountInv
<1> QED  BY <1>7, <1>8, <1>9, <1>10 DEF RingParts

\* The queue starts on an empty ring and an empty channel.
LEMMA WakeRing ==
  ASSUME RingInv, IndInv, CtlEnable, ctl.at = "wake"
  PROVE  RingParts'
<1>1. Types /\ OwnedInv /\ StoppedInv /\ RoomInv /\ WalkInv /\ BqlInv /\ CountInv
  BY DEF RingInv, RingParts
<1>2. CtlOnly /\ datapath_up' = TRUE
  BY DEF CtlEnable, CtlUnchanged, CtlOnly, ring, chan
<1>3. ~Live /\ Live' /\ ctl.at \in Opened
  BY <1>2 DEF Live, Opened, IndInv, Phase
<1>4. xmit = "idle" /\ napi.at # "release" /\ tx_head = tx_tail
  BY <1>3, DownIsQuiet
<1>5. active = << >> /\ submitted = << >> /\ cb.at = "idle" /\ bql = 0
  BY <1>1, <1>3 DEF StoppedInv, BqlInv
<1>6. Minus(tx_head, tx_tail) = 0 /\ Used = 0 /\ tx_tail % Ring \in Slots
  <2>1. tx_head \in Indices /\ tx_tail \in Indices /\ tx_tail % Ring \in Slots
    BY <1>1, RingNumbers
  <2> QED  BY <1>4, <2>1, IndexIs, Sizes DEF Indices, Used
<1>7. RoomInv' /\ WalkInv'
  BY <1>1, <1>2, FrameRoom, FrameWalk DEF CtlOnly
<1>8. StoppedInv'
  BY <1>3 DEF StoppedInv
<1>9. BqlInv'
  BY <1>2, <1>3, <1>4, <1>5, <1>6 DEF BqlInv, CtlOnly
<1>10. CountInv'
  <2>1. Owing' = Owing
    BY <1>2 DEF Owing, CtlOnly
  <2> QED  BY <1>1, <1>2, <1>3, <2>1, FrameCount DEF CtlOnly
<1>11. OwnedInv'
  <2>1. Owned = << >>
    <3>1. Owned = (<< >> \o (<< >> \o << >>)) \o << >>
      BY <1>4, <1>5 DEF Owned, CbSlot, GivenUp
    <3> QED  BY <3>1, SlotSeqs
  <2>2. Owned' = Owned
    BY <1>2, FrameOwnedSeq DEF CtlOnly
  <2>3. \A i \in Slots : ~(Ahead(i, tx_tail % Ring) < 0)
    <3>1. \A i \in Slots : Ahead(i, tx_tail % Ring) \in Slots
      BY <1>6, AheadIs
    <3> QED  BY <3>1, Sizes DEF Slots
  <2>4. Owns(<< >>, tx_tail % Ring, 0, slot)
    BY <2>3 DEF Owns
  <2> QED  BY <1>2, <1>6, <2>1, <2>2, <2>4 DEF OwnedInv, Used, CtlOnly
<1> QED  BY <1>7, <1>8, <1>9, <1>10, <1>11 DEF RingParts

\* The ring: the rebuild, open and stop.
LEMMA CtlRing == RingInv /\ IndInv /\ (CtlStart \/ CtlStep) => RingParts'
<1> SUFFICES ASSUME RingInv, IndInv, CtlStart \/ CtlStep PROVE RingParts'
  OBVIOUS
<1>0. RingParts /\ Types
  BY DEF RingInv
<1> DEFINE Kept == Live' = Live /\ ((Live \/ ctl.at \in Opened)' => Live \/ ctl.at \in Opened)
<1>a. datapath_up => ctl.at = "idle" /\ running
  BY DEF IndInv, Phase
<1> USE DEF ring, iface, chan, CtlUnchanged
<1>1. CASE emz_reset_work
  <2>1. CtlOnly
    BY <1>1 DEF emz_reset_work, CtlOnly
  <2>2. Kept
    BY <1>1, <1>a DEF emz_reset_work, Live, Opened
  <2> QED  BY <1>0, <2>1, <2>2, FrameCtl
<1>2. CASE emz_open
  <2>1. CtlOnly
    BY <1>2 DEF emz_open, CtlOnly
  <2>2. Kept
    BY <1>2, <1>a DEF emz_open, Live, Opened
  <2> QED  BY <1>0, <2>1, <2>2, FrameCtl
<1>3. CASE emz_stop
  <2>1. CtlOnly
    BY <1>3 DEF emz_stop, CtlOnly
  <2>2. Kept
    BY <1>3, <1>a DEF emz_stop, Live, Opened
  <2> QED  BY <1>0, <2>1, <2>2, FrameCtl
<1>4. CASE emz_csum_config
  <2>1. CtlOnly
    BY <1>4 DEF emz_csum_config, CtlOnly
  <2>2. Kept
    BY <1>4, <1>a DEF emz_csum_config, Live, Opened
  <2> QED  BY <1>0, <2>1, <2>2, FrameCtl
<1>5. CASE CtlQuiesce
  <2>1. CtlOnly
    BY <1>5 DEF CtlQuiesce, CtlOnly
  <2>2. Kept
    BY <1>5, <1>a DEF CtlQuiesce, Goto, Live, Opened
  <2> QED  BY <1>0, <2>1, <2>2, FrameCtl
<1>6. CASE emz_dma_stop
  BY <1>0, <1>6, StopRing
<1>7. CASE CtlClear
  BY <1>0, <1>7, ClearRing
<1>8. CASE CtlEnable
  <2>1. CASE ctl.at = "wake"
    BY <1>8, <2>1, WakeRing
  <2>2. CASE ctl.at # "wake"
    <3>1. CtlOnly
      BY <1>8, <2>2 DEF CtlEnable, CtlOnly
    <3>2. Kept
      BY <1>8, <1>a, <2>2 DEF CtlEnable, Goto, Live, Opened
    <3> QED  BY <1>0, <3>1, <3>2, FrameCtl
  <2> QED  BY <2>1, <2>2
<1>9. CASE CtlFail
  <2>1. CtlOnly
    BY <1>9 DEF CtlFail, CtlOnly
  <2>2. Kept
    BY <1>9, <1>a DEF CtlFail, Goto, Live, Opened
  <2> QED  BY <1>0, <2>1, <2>2, FrameCtl
<1>10. ASSUME NEW gives_up \in BOOLEAN, emz_tx_drain(gives_up) PROVE RingParts'
  <2>2. Kept
    BY <1>10, <1>a DEF emz_tx_drain, Goto, Live, Opened
  <2>3. CASE ctl.at = "drain"
    <3>1. /\ issue_pending /\ xmit' = xmit
          /\ UNCHANGED <<tx_head, tx_tail, slot, bql, tx_failed, handed, cb, napi>>
      BY <1>10, <2>3 DEF emz_tx_drain
    <3> QED  BY <2>2, <3>1, FrameIssue
  <2>4. CASE ctl.at # "drain"
    <3>1. CtlOnly
      BY <1>10, <2>4 DEF emz_tx_drain, CtlOnly
    <3> QED  BY <1>0, <2>2, <3>1, FrameCtl
  <2> QED  BY <2>3, <2>4
<1>11. ASSUME NEW failed \in CanFail, CtlPrepare(failed) PROVE RingParts'
  <2>1. ~Live
    BY <1>11, <1>a DEF CtlPrepare, Live
  <2>2. Kept
    BY <1>11, <1>a DEF CtlPrepare, Goto, Live, Opened
  <2>3. bql = 0
    BY <1>0, <2>1 DEF RingParts, BqlInv
  <2>4. CtlOnly
    BY <1>11, <2>3 DEF CtlPrepare, CtlOnly
  <2> QED  BY <1>0, <2>2, <2>4, FrameCtl
<1> QED BY <1>1, <1>2, <1>3, <1>4, <1>5, <1>6, <1>7, <1>8, <1>9, <1>10,
  <1>11 DEF CtlStart, CtlStep

\* The ring starts empty and down.
LEMMA RingInit == Init => RingInv
<1> SUFFICES ASSUME Init PROVE RingInv
  OBVIOUS
<1>1. ~Live /\ ctl.at \notin Opened /\ xmit = "idle" /\ napi.at = "idle" /\ cb.at = "idle"
  BY DEF Init, Live, Opened, NapiAt, CbIdle
<1>2. OwnedInv /\ StoppedInv /\ BqlInv /\ CountInv /\ WalkInv
  BY <1>1 DEF Init, OwnedInv, StoppedInv, BqlInv, CountInv, WalkInv
<1>3. Minus(0, 0) = 0
  BY SmallFacts, IndexIs, Sizes
<1>4. RoomInv
  BY <1>1, <1>3, Sizes DEF Init, RoomInv, Used
<1>5. napi \in NapiRecs /\ cb \in CbRecs /\ wd \in WdRecs /\ ctl \in CtlRecs
  BY PlaceTypes DEF Init, CtlPlaces
<1>6. slot \in RingWords /\ submitted \in Channels /\ active \in Channels
  BY DEF Init, RingWords, Channels
<1>7. Types
  BY <1>5, <1>6, SmallFacts DEF Init, Types, Queues, NapiStates, XmitPlaces
<1> QED  BY <1>2, <1>4, <1>7 DEF RingInv, RingParts

\* Every step keeps the invariant of the ring.
LEMMA RingNext == RingInv /\ IndInv /\ [Next]_vars => RingInv'
<1> SUFFICES ASSUME RingInv, IndInv, [Next]_vars PROVE RingInv'
  OBVIOUS
<1>1. Types'
  BY TypesStep DEF RingInv
<1>2. CASE Next
  BY <1>1, <1>2, NextSplit, XmitRing, NapiRing, DmaRing, CtlRing, TimerRing DEF RingInv
<1>3. CASE UNCHANGED vars
  <2>1. StandsStill /\ napi' = napi /\ xmit' = xmit
    BY <1>3 DEF vars, ring, chan, iface, StandsStill
  <2> QED  BY <1>1, <2>1, FrameAll DEF RingInv
<1> QED  BY <1>2, <1>3

\* Every reachable state satisfies the invariant of the ring.
LEMMA RingInductive == Spec => []RingInv
<1>1. Spec => []IndInv
  BY Inductive
<1> QED  BY <1>1, RingInit, RingNext, PTL DEF Spec

-----------------------------------------------------------------------------
(* What the invariant says. *)

\* The channel's descriptors are among the owned slots.
LEMMA OwnedHas ==
  ASSUME Types
  PROVE  /\ \A k \in 1 .. Len(active) : \E j \in 1 .. Len(Owned) : Owned[j] = active[k]
         /\ \A k \in 1 .. Len(submitted) : \E j \in 1 .. Len(Owned) : Owned[j] = submitted[k]
         /\ Len(CbSlot) \in Nat /\ Len(active) \in Nat /\ Len(submitted) \in Nat
         /\ Len(active) + Len(submitted) <= Len(Owned)
         /\ Owned = << >> => CbSlot = << >> /\ active = << >> /\ submitted = << >>
<1> DEFINE c == CbSlot
           a == active
           s == submitted
           g == GivenUp
           p == a \o s
           q == c \o p
<1>1. /\ c \in Seq(Slots) /\ a \in Seq(Slots) /\ s \in Seq(Slots) /\ g \in Seq(Slots)
      /\ p \in Seq(Slots) /\ q \in Seq(Slots) /\ Owned = q \o g
  BY OwnedType DEF Owned
<1>2. /\ Len(p) = Len(a) + Len(s)
      /\ \A k \in 1 .. Len(a) : p[k] = a[k]
      /\ \A k \in 1 .. Len(s) : p[Len(a) + k] = s[k]
  BY <1>1
<1> HIDE DEF p
<1>3. /\ Len(q) = Len(c) + Len(p)
      /\ \A k \in 1 .. Len(p) : q[Len(c) + k] = p[k]
  BY <1>1
<1> HIDE DEF q
<1>4. /\ Len(Owned) = Len(q) + Len(g)
      /\ \A k \in 1 .. Len(q) : Owned[k] = q[k]
  BY <1>1
<1>5. Len(c) \in Nat /\ Len(a) \in Nat /\ Len(s) \in Nat /\ Len(g) \in Nat
  BY <1>1
<1> HIDE DEF c, a, s, g
<1>6. ASSUME NEW k \in 1 .. Len(p)
      PROVE  Len(c) + k \in 1 .. Len(Owned) /\ Owned[Len(c) + k] = p[k]
  BY <1>2, <1>3, <1>4, <1>5
<1>7. ASSUME NEW k \in 1 .. Len(a)
      PROVE  \E j \in 1 .. Len(Owned) : Owned[j] = a[k]
  <2>1. k \in 1 .. Len(p) /\ p[k] = a[k]
    BY <1>2, <1>5
  <2> QED  BY <1>6, <2>1
<1>8. ASSUME NEW k \in 1 .. Len(s)
      PROVE  \E j \in 1 .. Len(Owned) : Owned[j] = s[k]
  <2>1. Len(a) + k \in 1 .. Len(p) /\ p[Len(a) + k] = s[k]
    BY <1>2, <1>5
  <2> QED  BY <1>6, <2>1
<1>9. Len(a) + Len(s) <= Len(Owned)
  BY <1>2, <1>3, <1>4, <1>5
<1>10. ASSUME Owned = << >>
       PROVE  c = << >> /\ a = << >> /\ s = << >>
  <2>1. Len(Owned) = 0
    BY <1>10
  <2>2. Len(c) = 0 /\ Len(a) = 0 /\ Len(s) = 0
    BY <1>2, <1>3, <1>4, <1>5, <2>1
  <2> QED  BY <1>1, <2>2
<1> QED  BY <1>5, <1>7, <1>8, <1>9, <1>10 DEF c, a, s

\* BQL is the ring's own count, and within it.
LEMMA BqlIs ==
  ASSUME RingInv, IndInv
  PROVE  bql \in 0 .. Ring /\ BqlMatchesRing
<1>1. Types /\ OwnedInv /\ StoppedInv /\ RoomInv /\ WalkInv /\ BqlInv /\ CountInv
  BY DEF RingInv, RingParts
<1>2. /\ Used \in Nat /\ Used <= Ring /\ Ring \in Nat /\ tx_head \in Indices /\ tx_tail \in Indices
      /\ xmit = "publish" => Used < Ring
  BY <1>1, RingNumbers DEF RoomInv
<1> DEFINE m == Minus(tx_head, IF napi.at = "release" THEN napi.tail ELSE tx_tail)
           b == IF xmit = "publish" THEN 1 ELSE 0
<1>3. m \in Nat /\ m <= Used
  <2>1. CASE napi.at = "release"
    <3>1. /\ m = Used - Minus(napi.tail, tx_tail)
          /\ Minus(napi.tail, tx_tail) \in Nat /\ Minus(napi.tail, tx_tail) <= Used
      BY <1>1, <2>1, WalkNumbers
    <3> QED  BY <1>2, <3>1
  <2>2. CASE napi.at # "release"
    BY <1>2, <2>2 DEF Used
  <2> QED  BY <2>1, <2>2
<1>4. CASE Live
  <2>1. bql = m + b
    BY <1>1, <1>4 DEF BqlInv
  <2>2. BqlMatchesRing
    BY <2>1 DEF BqlMatchesRing
  <2>3. bql \in 0 .. Ring
    BY <1>2, <1>3, <2>1
  <2> QED  BY <2>2, <2>3
<1>5. CASE ~Live
  <2>1. bql = 0
    BY <1>1, <1>5 DEF BqlInv
  <2>2. ASSUME napi_state # "off" PROVE m + b = 0
    <3>1. ctl.at = "wake"
      BY <1>5, <2>2 DEF IndInv, Quiet, Down, Live
    <3>2. tx_head = tx_tail /\ xmit = "idle" /\ napi.at # "release"
      BY <1>5, <3>1, DownIsQuiet DEF Opened
    <3> QED  BY <1>2, <3>2, IndexIs, Sizes DEF Indices
  <2> QED  BY <1>2, <2>1, <2>2 DEF BqlMatchesRing
<1> QED  BY <1>4, <1>5

\* The channel holds exactly slots between tail and head, none twice.
LEMMA ChannelIs ==
  ASSUME RingInv, IndInv
  PROVE  ChannelOwnsSlots /\ Len(submitted) + Len(active) <= Ring
<1>1. Types /\ OwnedInv /\ StoppedInv /\ RoomInv /\ WalkInv /\ BqlInv /\ CountInv
  BY DEF RingInv, RingParts
<1>2. Used \in Nat /\ Used <= Ring /\ Ring \in Nat /\ tx_tail \in Indices /\ tx_tail % Ring \in Slots
  BY <1>1, RingNumbers
<1>3. CASE Live
  <2>1. Owns(Owned, tx_tail % Ring, Used, slot) /\ Owned \in Seq(Slots)
    BY <1>1, <1>3, OwnedType DEF OwnedInv
  <2>2. /\ \A k \in 1 .. Len(active) : \E j \in 1 .. Len(Owned) : Owned[j] = active[k]
        /\ \A k \in 1 .. Len(submitted) : \E j \in 1 .. Len(Owned) : Owned[j] = submitted[k]
        /\ Len(active) \in Nat /\ Len(submitted) \in Nat
        /\ Len(active) + Len(submitted) <= Len(Owned)
    BY <1>1, OwnedHas
  <2>3. ASSUME NEW j \in 1 .. Len(Owned)
        PROVE  ~slot[Owned[j]].done /\ Owned[j] \in InFlight
    <3>1. Owned[j] \in Slots /\ Pos(Owned[j]) < Used /\ ~slot[Owned[j]].done
      BY <2>1 DEF Owns, Pos
    <3> QED  BY <1>2, <3>1, InFlightIs
  <2>4. ChannelOwnsSlots
    BY <2>2, <2>3 DEF ChannelOwnsSlots
  <2>5. Len(Owned) <= Used /\ Len(Owned) \in Nat
    BY <1>2, <2>1, OwnsLen
  <2>6. Len(submitted) + Len(active) <= Ring
    BY <1>2, <2>2, <2>5
  <2> QED  BY <2>4, <2>6
<1>4. CASE ~Live
  <2>1. active = << >> /\ submitted = << >> /\ ~datapath_up
    BY <1>1, <1>4 DEF StoppedInv, Live
  <2> QED  BY <1>2, <2>1 DEF ChannelOwnsSlots
<1> QED  BY <1>3, <1>4

\* Numbers that agree modulo Wrap.
LEMMA CountExact ==
  ASSUME NEW h \in Indices, NEW f \in Indices, NEW g \in Indices,
         (f + g - h) % Wrap = 0
  PROVE  Minus(h, f) = g
<1>1. /\ h \in 0 .. Wrap - 1 /\ f \in 0 .. Wrap - 1 /\ g \in 0 .. Wrap - 1
      /\ Wrap \in Nat \ {0}
  BY Sizes DEF Indices
<1> DEFINE x == f + g - h
<1>2. x \in Int /\ x % Wrap = 0
  BY <1>1
<1>3. ASSUME NEW y \in Int, NEW q \in Int, NEW r \in 0 .. Wrap - 1, y = Wrap * q + r,
             y % Wrap = 0
      PROVE  r = 0
  BY ONLY <1>1, <1>3, ModIs
<1>4. x = 0 \/ x = Wrap
  <2>1. CASE x < 0
    <3>1. x + Wrap \in 0 .. Wrap - 1 /\ x = Wrap * (-1) + (x + Wrap) /\ x + Wrap # 0
      BY <1>1, <2>1
    <3> QED  BY <1>2, <1>3, <3>1
  <2>2. CASE 0 <= x /\ x < Wrap
    <3>1. x \in 0 .. Wrap - 1 /\ x = Wrap * 0 + x
      BY <1>1, <2>2
    <3> QED  BY <1>2, <1>3, <3>1
  <2>3. CASE x >= Wrap
    <3>1. x - Wrap \in 0 .. Wrap - 1 /\ x = Wrap * 1 + (x - Wrap)
      BY <1>1, <2>3
    <3>2. x - Wrap = 0
      BY <1>2, <1>3, <3>1
    <3> QED  BY <1>1, <1>2, <3>2
  <2> QED  BY <1>1, <2>1, <2>2, <2>3
<1>5. Minus(h, f) = IF h >= f THEN h - f ELSE h - f + Wrap
  BY IndexIs
<1> QED  BY <1>1, <1>4, <1>5

\* The drain of a rebuild ends when every frame handed over is accounted for.
LEMMA DrainIs ==
  ASSUME RingInv, IndInv
  PROVE  DrainCountExact
<1> SUFFICES ASSUME ctl.at = "wait", \A i \in InFlight : slot[i].done
             PROVE  Minus(tx_head, tx_failed) = handed
  BY DEF DrainCountExact
<1>1. Types /\ OwnedInv /\ StoppedInv /\ RoomInv /\ WalkInv /\ BqlInv /\ CountInv
  BY DEF RingInv, RingParts
<1>2. Live /\ xmit = "idle"
  BY DEF Live, IndInv, Phase, Quiet, Down
<1>3. Used \in Nat /\ tx_tail \in Indices
  BY <1>1, RingNumbers
<1>4. Owns(Owned, tx_tail % Ring, Used, slot) /\ Owned \in Seq(Slots)
  BY <1>1, <1>2, OwnedType DEF OwnedInv
<1>5. Owned = << >>
  <2> SUFFICES ASSUME Owned # << >> PROVE FALSE
    OBVIOUS
  <2>1. 1 \in 1 .. Len(Owned) /\ Owned[1] \in Slots
    BY <1>4
  <2>2. Pos(Owned[1]) < Used /\ ~slot[Owned[1]].done
    BY <1>4, <2>1 DEF Owns, Pos
  <2>3. Owned[1] \in InFlight
    BY <1>3, <2>1, <2>2, InFlightIs
  <2> QED  BY <2>2, <2>3
<1>6. CbSlot = << >> /\ active = << >> /\ submitted = << >>
  BY <1>1, <1>5, OwnedHas
<1>7. cb.at # "status"
  BY <1>6 DEF CbSlot
<1>8. Owing = 0
  BY <1>2, <1>6, <1>7 DEF Owing
<1>9. tx_head \in Indices /\ tx_failed \in Indices /\ handed \in Indices
  BY <1>1 DEF Types
<1>10. (tx_failed + handed + 0 - tx_head) % Wrap = 0
  BY <1>1, <1>2, <1>8 DEF CountInv
<1>11. tx_failed + handed + 0 - tx_head = tx_failed + handed - tx_head
  BY <1>9, Sizes DEF Indices
<1>12. (tx_failed + handed - tx_head) % Wrap = 0
  BY ONLY <1>10, <1>11
<1> QED  BY <1>9, <1>12, CountExact

\* The slots, BQL and the channel agree between any two steps of emz_start_xmit,
\* NAPI, the callback and a rebuild, for every ring size and index range: the types
\* hold, BQL is the number of frames between netdev_sent_queue and
\* netdev_completed_queue, a slot the channel has is in flight and not done, and
\* after a complete drain tx_head - tx_failed is what the DMA handed on
\* (emaczero.c: emz_start_xmit, emz_tx_complete, emz_tx_dma_done, emz_tx_drain).
THEOREM RingStaysConsistent == Spec => []RingConsistent
<1>1. RingInv /\ IndInv => RingConsistent
  <2> SUFFICES ASSUME RingInv, IndInv PROVE RingConsistent
    OBVIOUS
  <2>1. bql \in 0 .. Ring /\ BqlMatchesRing
    BY BqlIs
  <2>2. ChannelOwnsSlots /\ Len(submitted) + Len(active) <= Ring
    BY ChannelIs
  <2>3. DrainCountExact
    BY DrainIs
  <2>4. TypeOK
    BY <2>1, <2>2 DEF RingInv, Types, TypeOK, RingWords, Queues, NapiStates, XmitPlaces,
       NapiRecs, CbRecs, CtlRecs, WdRecs, Channels
  <2> QED  BY <2>1, <2>2, <2>3, <2>4 DEF RingConsistent
<1>2. Spec => []IndInv
  BY Inductive
<1> QED  BY <1>1, <1>2, RingInductive, PTL

-----------------------------------------------------------------------------
(* Nobody waits for ever on a full ring. *)

\* A slot at index i that is done and that a poll past it has not seen.
Overlooked(i) == Minus(i, tx_tail) < Used /\ slot[i % Ring].done

\* Somebody has scheduled another poll, or is about to.
Told == napi_state = "missed" \/ cb.at = "napi" \/ xmit = "napi"

\* NAPI is enabled.
Watching == datapath_up \/ ctl.at = "wake"

\* No completion is overlooked: where the present poll, or none, is past a slot
\* that is done, another poll was asked for.
ToldInv ==
  Watching =>
    /\ napi_state # "off"
    /\ napi.at # "idle" => napi_state \in {"sched", "missed"}
    /\ (napi.at \in {"check", "wake", "rx", "complete"}
          \/ (napi.at = "idle" /\ napi_state = "idle"))
         => (Overlooked(tx_tail) => Told)
    /\ napi.at \in {"bql", "release"} => (Overlooked(napi.tail) => Told)
    /\ napi.at = "loop" => (Overlooked(napi.head) => Told)

\* A queue stopped because the ring was full: xmit has looked again, and found too
\* few slots free, or NAPI has freed some since and has yet to look.
FullInv ==
  queue = "full" =>
    /\ xmit \in {"issue", "recheck", "start", "idle"}
    /\ xmit # "issue" => submitted = << >>
    /\ xmit = "idle" /\ datapath_up =>
         emz_tx_free < Wake \/ napi.at \in {"check", "wake"}

\* A poll asked for.
Asks == \/ napi_state = "idle" /\ napi_state' = "sched"
        \/ napi_state \in {"sched", "missed"} /\ napi_state' = "missed"

\* While the queue is watched, napi_schedule is an answer.
LEMMA ScheduleAsks ==
  ASSUME Types, IndInv, ToldInv, Watching, napi_schedule
  PROVE  Asks
<1>1. ctl.at # "napi"
  BY DEF Watching, IndInv, Phase
<1>2. napi_state \in {"idle", "sched", "missed"}
  BY DEF ToldInv, Types, NapiStates
<1> QED  BY <1>1, <1>2 DEF napi_schedule, Asks

\* Steps that leave the poll where it is: what they overlook, they tell.
LEMMA FrameTold ==
  ASSUME Types, ToldInv, Watching' => Watching, UNCHANGED <<napi, tx_tail>>,
         napi_state' = napi_state \/ Asks,
         Watching => \A i \in Indices : Overlooked(i)' => Overlooked(i) \/ Told',
         Watching => (Told => Told' \/ Asks)
  PROVE  ToldInv'
<1> SUFFICES ASSUME Watching' PROVE ToldInv'
  BY DEF ToldInv
<1>1. Watching
  OBVIOUS
<1>2. tx_tail \in Indices /\ napi.tail \in Indices /\ napi.head \in Indices
  BY DEF Types, NapiRecs
<1>3. \A i \in Indices : Overlooked(i)' => Overlooked(i) \/ Told'
  BY <1>1
<1>4. /\ napi_state # "off"
      /\ napi.at # "idle" => napi_state \in {"sched", "missed"}
      /\ (napi.at \in {"check", "wake", "rx", "complete"}
            \/ (napi.at = "idle" /\ napi_state = "idle"))
           => (Overlooked(tx_tail) => Told)
      /\ napi.at \in {"bql", "release"} => (Overlooked(napi.tail) => Told)
      /\ napi.at = "loop" => (Overlooked(napi.head) => Told)
  BY <1>1 DEF ToldInv
<1>5. /\ Overlooked(tx_tail)' => Overlooked(tx_tail) \/ Told'
      /\ Overlooked(napi.tail)' => Overlooked(napi.tail) \/ Told'
      /\ Overlooked(napi.head)' => Overlooked(napi.head) \/ Told'
  <2>1. /\ Overlooked(tx_tail)' <=> Minus(tx_tail, tx_tail') < Used' /\ slot'[tx_tail % Ring].done
        /\ Overlooked(napi.tail)' <=> Minus(napi.tail, tx_tail') < Used' /\ slot'[napi.tail % Ring].done
        /\ Overlooked(napi.head)' <=> Minus(napi.head, tx_tail') < Used' /\ slot'[napi.head % Ring].done
    BY DEF Overlooked
  <2>2. \A i \in Indices : Minus(i, tx_tail') < Used' /\ slot'[i % Ring].done
                              => Overlooked(i) \/ Told'
    BY <1>3 DEF Overlooked
  <2> QED  BY <1>2, <2>1, <2>2
<1>6. CASE napi_state' = napi_state /\ (Told => Told')
  BY <1>4, <1>5, <1>6 DEF ToldInv
<1>7. CASE Asks
  <2>1. CASE napi_state' = "missed"
    BY <1>4, <2>1 DEF ToldInv, Told
  <2>2. CASE napi_state = "idle" /\ napi_state' = "sched"
    BY <1>4, <2>2 DEF ToldInv
  <2> QED  BY <1>7, <2>1, <2>2 DEF Asks
<1> QED  BY <1>1, <1>6, <1>7

\* Nothing is done that was not.
LEMMA FrameOverlooked ==
  ASSUME UNCHANGED <<tx_head, tx_tail>>, \A i \in Slots : slot'[i].done => slot[i].done
  PROVE  \A i \in Indices : Overlooked(i)' => Overlooked(i)
<1> SUFFICES ASSUME NEW i \in Indices PROVE Overlooked(i)' => Overlooked(i)
  OBVIOUS
<1>1. i % Ring \in Slots
  BY SlotNext
<1> QED  BY <1>1 DEF Overlooked, Used

\* No wake-up is lost: emz_start_xmit.
LEMMA XmitTold == RingInv /\ IndInv /\ ToldInv /\ (XmitEnter \/ Xmit) => ToldInv'
<1> SUFFICES ASSUME RingInv, IndInv, ToldInv, XmitEnter \/ Xmit PROVE ToldInv'
  OBVIOUS
<1>0. Types /\ RoomInv /\ slot \in RingWords
  BY DEF RingInv, RingParts, Types
<1> USE DEF ring, iface, chan, gate, XmitUnchanged
<1>a. UNCHANGED <<datapath_up, ctl, napi, tx_tail, cb>>
  BY DEF XmitEnter, Xmit, XmitBusy, XmitPublish, XmitFailed, XmitFull, XmitGate, XmitSubmit,
     XmitFlush
<1>b. Watching' = Watching
  BY <1>a DEF Watching
<1>1. ASSUME XmitEnter \/ XmitBusy \/ XmitFull \/ \E more \in BOOLEAN : XmitFlush(more)
      PROVE  ToldInv'
  <2>1. UNCHANGED <<tx_head, slot, napi_state>> /\ xmit # "napi"
    BY <1>1 DEF XmitEnter, XmitBusy, XmitFull, XmitFlush
  <2>2. \A i \in Indices : Overlooked(i)' => Overlooked(i)
    BY <1>a, <2>1, FrameOverlooked
  <2>3. Told => Told'
    BY <1>a, <2>1 DEF Told
  <2> QED  BY <1>0, <1>a, <1>b, <2>1, <2>2, <2>3, FrameTold
<1>2. CASE XmitPublish
  <2>1. /\ UNCHANGED <<slot, napi_state>> /\ xmit = "publish" /\ tx_head' = Next1(tx_head)
    BY <1>2 DEF XmitPublish
  <2>2. /\ tx_head \in Indices /\ tx_tail \in Indices /\ Used \in Nat /\ Ring \in Nat
        /\ Used < Ring /\ ~slot[tx_head % Ring].done
    BY <1>0, <2>1, RingNumbers DEF RoomInv
  <2>3. Used' = Used + 1
    <3>1. Minus(tx_tail, tx_tail) = 0
      BY <2>2, IndexIs, Sizes DEF Indices
    <3>2. Minus(Next1(tx_head), tx_tail) = Minus(tx_head, tx_tail) + 1
      BY <2>2, <3>1, IndexMoves DEF Used
    <3> QED  BY <1>a, <2>1, <3>2 DEF Used
  <2>4. ASSUME NEW i \in Indices, Overlooked(i)' PROVE Overlooked(i)
    <3>1. Minus(i, tx_tail) < Used + 1 /\ slot[i % Ring].done /\ Minus(i, tx_tail) \in Nat
      <4>1. Minus(i, tx_tail) \in Indices
        BY <2>2, IndexIs
      <4> QED  BY <1>a, <2>1, <2>3, <2>4, <4>1, Sizes DEF Overlooked, Indices
    <3>2. Minus(i, tx_tail) # Used
      <4>1. ASSUME Minus(i, tx_tail) = Used PROVE i = tx_head
        <5>1. Minus(i, tx_tail) = Minus(tx_head, tx_tail) /\ Minus(tx_head, tx_tail) <= Ring
          BY <2>2, <4>1 DEF Used
        <5>2. Minus(i, tx_tail) <= Minus(tx_head, tx_tail)
          BY <2>2, <5>1 DEF Used
        <5> QED  BY <2>2, <5>1, <5>2, IndexMoves
      <4> QED  BY <2>2, <3>1, <4>1
    <3> QED  BY <2>2, <3>1, <3>2 DEF Overlooked
  <2>5. Told => Told'
    BY <1>a, <2>1 DEF Told
  <2> QED  BY <1>0, <1>a, <1>b, <2>1, <2>4, <2>5, FrameTold
<1>3. CASE XmitFailed
  <2>1. CASE xmit = "work"
    <3>1. UNCHANGED <<tx_head, slot, napi_state>>
      BY <1>3, <2>1 DEF XmitFailed
    <3>2. \A i \in Indices : Overlooked(i)' => Overlooked(i)
      BY <1>a, <3>1, FrameOverlooked
    <3>3. Told => Told'
      BY <1>a, <2>1, <3>1 DEF Told
    <3> QED  BY <1>0, <1>a, <1>b, <3>1, <3>2, <3>3, FrameTold
  <2>2. CASE xmit = "done"
    <3>1. napi_state' = napi_state /\ xmit' = "napi"
      BY <1>3, <2>2 DEF XmitFailed
    <3>2. Told'
      BY <3>1 DEF Told
    <3> QED  BY <1>0, <1>a, <1>b, <3>1, <3>2, FrameTold
  <2>3. CASE xmit = "napi"
    <3>1. UNCHANGED <<tx_head, slot>> /\ napi_schedule
      BY <1>3, <2>3 DEF XmitFailed
    <3>2. \A i \in Indices : Overlooked(i)' => Overlooked(i)
      BY <1>a, <3>1, FrameOverlooked
    <3>3. Watching => Asks
      BY <1>0, <3>1, ScheduleAsks
    <3>4. ASSUME ~Watching PROVE ToldInv'
      BY <1>b, <3>4 DEF ToldInv
    <3>5. ASSUME Watching PROVE ToldInv'
      BY <1>0, <1>a, <1>b, <3>2, <3>3, <3>5, FrameTold
    <3> QED  BY <3>4, <3>5
  <2> QED  BY <1>3, <2>1, <2>2, <2>3 DEF XmitFailed
<1>4. ASSUME NEW dropped \in CanFail, XmitGate(dropped) PROVE ToldInv'
  <2>1. /\ UNCHANGED <<tx_head, napi_state>> /\ xmit # "napi"
        /\ slot' = slot \/ slot' = [slot EXCEPT ![tx_head % Ring] = [done |-> FALSE, failed |-> FALSE]]
    BY <1>4 DEF XmitGate
  <2>2. \A i \in Slots : slot'[i].done => slot[i].done
    <3>1. tx_head % Ring \in Slots
      BY <1>0, RingNumbers
    <3>2. /\ [slot EXCEPT ![tx_head % Ring] = [done |-> FALSE, failed |-> FALSE]][tx_head % Ring].done = FALSE
          /\ \A i \in Slots : i # tx_head % Ring =>
               [slot EXCEPT ![tx_head % Ring] = [done |-> FALSE, failed |-> FALSE]][i].done = slot[i].done
      BY ONLY <1>0, <3>1, TRUE \in BOOLEAN, SlotBits
    <3> QED  BY <2>1, <3>2
  <2>3. \A i \in Indices : Overlooked(i)' => Overlooked(i)
    BY <1>a, <2>1, <2>2, FrameOverlooked
  <2>4. Told => Told'
    BY <1>a, <2>1 DEF Told
  <2> QED  BY <1>0, <1>a, <1>b, <2>1, <2>3, <2>4, FrameTold
<1>5. ASSUME NEW refused \in CanFail, XmitSubmit(refused) PROVE ToldInv'
  <2>1. /\ UNCHANGED <<tx_head, napi_state>> /\ xmit # "napi"
        /\ slot' = slot \/ slot' = [slot EXCEPT ![XmitSlot].failed = TRUE]
    BY <1>5 DEF XmitSubmit
  <2>2. \A i \in Slots : slot'[i].done => slot[i].done
    <3>1. XmitSlot \in Slots
      BY <1>0, XmitSlotType
    <3>2. \A i \in Slots : [slot EXCEPT ![XmitSlot].failed = TRUE][i].done = slot[i].done
      BY ONLY <1>0, <3>1, TRUE \in BOOLEAN, SlotBits
    <3> QED  BY <2>1, <3>2
  <2>3. \A i \in Indices : Overlooked(i)' => Overlooked(i)
    BY <1>a, <2>1, <2>2, FrameOverlooked
  <2>4. Told => Told'
    BY <1>a, <2>1 DEF Told
  <2> QED  BY <1>0, <1>a, <1>b, <2>1, <2>3, <2>4, FrameTold
<1> QED BY <1>1, <1>2, <1>3, <1>4, <1>5 DEF Xmit

\* No wake-up is lost: the poll.
LEMMA NapiTold == RingInv /\ IndInv /\ ToldInv /\ Napi => ToldInv'
<1> SUFFICES ASSUME RingInv, IndInv, ToldInv, Napi PROVE ToldInv'
  OBVIOUS
<1>0. Types /\ RoomInv /\ WalkInv
  BY DEF RingInv, RingParts
<1> USE DEF ring, iface, chan, NapiUnchanged
<1>a. UNCHANGED <<datapath_up, ctl, tx_head, slot, cb, xmit>>
  BY DEF Napi, NapiStart, NapiLoop, NapiBql, NapiRelease, NapiWake, NapiRx, NapiComplete
<1>b. Watching' = Watching
  BY <1>a DEF Watching
<1> SUFFICES ASSUME Watching PROVE ToldInv'
  BY <1>b DEF ToldInv
<1>c. /\ napi_state # "off"
      /\ napi.at # "idle" => napi_state \in {"sched", "missed"}
      /\ (napi.at \in {"check", "wake", "rx", "complete"}
            \/ (napi.at = "idle" /\ napi_state = "idle"))
           => (Overlooked(tx_tail) => Told)
      /\ napi.at \in {"bql", "release"} => (Overlooked(napi.tail) => Told)
      /\ napi.at = "loop" => (Overlooked(napi.head) => Told)
  BY DEF ToldInv
<1>d. napi = [at |-> napi.at, tail |-> napi.tail, head |-> napi.head]
  BY DEF IndInv, Shapes
<1>e. tx_head \in Indices /\ tx_tail \in Indices /\ Used \in Nat /\ Used <= Ring
  BY <1>0, RingNumbers
<1> DEFINE Same == UNCHANGED <<tx_tail, napi_state>>
<1>f. ASSUME Same
      PROVE  /\ Told' = Told
             /\ \A i \in Indices : Overlooked(i)' => Overlooked(i)
  BY <1>a, <1>f, FrameOverlooked DEF Told
<1>g. ASSUME Same, NEW i \in Indices
      PROVE  /\ Minus(i, tx_tail) < Used /\ slot[i % Ring].done => Overlooked(i)
             /\ Minus(i, tx_tail') = Minus(i, tx_tail) /\ Used' = Used /\ slot' = slot
  BY <1>a, <1>g DEF Overlooked, Used
<1>1. CASE NapiStart
  <2>1. /\ Same /\ napi'.at = "loop" /\ napi'.head = tx_head
        /\ napi_state \in {"sched", "missed"}
    BY <1>1 DEF NapiStart
  <2>2. ~Overlooked(napi.head)'
    <3>1. ~(Minus(tx_head, tx_tail) < Used)
      BY <1>e DEF Used
    <3> QED  BY <1>a, <2>1, <3>1 DEF Overlooked, Used
  <2> QED  BY <2>1, <2>2 DEF ToldInv
<1>2. CASE NapiLoop
  <2>1. Same /\ napi.at = "loop"
    BY <1>2 DEF NapiLoop
  <2>2. Told' = Told /\ slot' = slot /\ tx_tail' = tx_tail /\ Used' = Used
    BY <1>a, <1>f, <2>1 DEF Used
  <2>3. CASE napi.tail # napi.head /\ slot[napi.tail % Ring].done
    <3>1. napi'.at = "loop" /\ napi'.head = napi.head
      BY <1>2, <1>d, <2>3 DEF NapiLoop
    <3>2. Overlooked(napi.head)' => Told'
      BY <1>c, <2>1, <2>2, <3>1 DEF Overlooked
    <3> QED  BY <1>c, <2>1, <3>1, <3>2 DEF ToldInv
  <2>4. CASE ~(napi.tail # napi.head /\ slot[napi.tail % Ring].done)
    <3>1. Overlooked(napi.tail) => Told
      BY <1>c, <2>1, <2>4 DEF Overlooked
    <3>2. CASE napi.tail = tx_tail
      <4>1. napi'.at = "rx"
        BY <1>2, <2>4, <3>2 DEF NapiLoop, NapiAt
      <4>2. Overlooked(tx_tail)' => Told'
        BY <2>2, <3>1, <3>2 DEF Overlooked
      <4> QED  BY <1>c, <2>1, <4>1, <4>2 DEF ToldInv
    <3>3. CASE napi.tail # tx_tail
      <4>1. napi'.at = "bql" /\ napi'.tail = napi.tail
        BY <1>2, <1>d, <2>4, <3>3 DEF NapiLoop
      <4>2. Overlooked(napi.tail)' => Told'
        BY <2>2, <3>1, <4>1 DEF Overlooked
      <4> QED  BY <1>c, <2>1, <4>1, <4>2 DEF ToldInv
    <3> QED  BY <3>2, <3>3
  <2> QED  BY <2>3, <2>4
<1>3. CASE NapiBql
  <2>1. Same /\ napi.at = "bql" /\ napi'.at = "release" /\ napi'.tail = napi.tail
    BY <1>3, <1>d DEF NapiBql
  <2>2. Told' = Told /\ slot' = slot /\ tx_tail' = tx_tail /\ Used' = Used
    BY <1>a, <1>f, <2>1 DEF Used
  <2>3. Overlooked(napi.tail)' => Told'
    BY <1>c, <2>1, <2>2 DEF Overlooked
  <2> QED  BY <1>c, <2>1, <2>3 DEF ToldInv
<1>4. CASE NapiRelease
  <2>1. /\ napi_state' = napi_state /\ napi.at = "release" /\ napi'.at = "check"
        /\ tx_tail' = napi.tail
    BY <1>4 DEF NapiRelease, NapiAt
  <2>2. Told' = Told
    BY <1>a, <2>1 DEF Told
  <2> DEFINE e == Minus(napi.tail, tx_tail)
  <2>3. napi.tail \in Indices /\ e \in Nat /\ Minus(tx_head, napi.tail) = Used - e
    BY <1>0, <2>1, WalkNumbers
  <2>4. Used' = Used - e
    BY <1>a, <2>1, <2>3 DEF Used
  <2>5. Minus(napi.tail, napi.tail) = 0
    <3>1. \A i \in Indices : Minus(i, i) = 0
      BY IndexIs, Sizes DEF Indices
    <3> QED  BY <2>3, <3>1
  <2>6. Overlooked(tx_tail)' => Overlooked(napi.tail)
    <3>1. Overlooked(tx_tail)' => 0 < Used - e /\ slot[napi.tail % Ring].done
      BY <1>a, <2>1, <2>4, <2>5 DEF Overlooked
    <3>2. 0 < Used - e => e < Used
      BY <1>e, <2>3
    <3> QED  BY <3>1, <3>2 DEF Overlooked
  <2> QED  BY <1>c, <2>1, <2>2, <2>6 DEF ToldInv
<1>5. ASSUME NapiWake \/ \E failed \in CanFail : NapiRx(failed)
      PROVE  ToldInv'
  <2>1. /\ Same /\ napi.at \in {"check", "wake", "rx"}
        /\ napi'.at \in {"wake", "rx", "complete"}
    BY <1>5 DEF NapiWake, NapiRx, NapiAt
  <2>2. Told' = Told /\ slot' = slot /\ tx_tail' = tx_tail /\ Used' = Used
    BY <1>a, <1>f, <2>1 DEF Used
  <2>3. Overlooked(tx_tail)' => Told'
    BY <1>c, <2>1, <2>2 DEF Overlooked
  <2> QED  BY <1>c, <2>1, <2>3 DEF ToldInv
<1>6. ASSUME NEW left \in BOOLEAN, NapiComplete(left) PROVE ToldInv'
  <2>1. /\ napi.at = "complete" /\ napi'.at = "idle" /\ tx_tail' = tx_tail
        /\ \/ napi_state' = napi_state
           \/ napi_state' = IF napi_state = "missed" THEN "sched" ELSE "idle"
    BY <1>6 DEF NapiComplete, NapiAt
  <2>2. napi_state \in {"sched", "missed"}
    BY <1>c, <2>1
  <2>3. CASE napi_state' # "idle"
    BY <1>c, <2>1, <2>2, <2>3 DEF ToldInv
  <2>4. CASE napi_state' = "idle"
    <3>1. napi_state = "sched"
      BY <2>1, <2>2, <2>4
    <3>2. Overlooked(tx_tail)' => Overlooked(tx_tail)
      BY <1>a, <2>1 DEF Overlooked, Used
    <3>3. Told => Told'
      BY <1>a, <3>1 DEF Told
    <3> QED  BY <1>c, <2>1, <2>4, <3>2, <3>3 DEF ToldInv
  <2> QED  BY <2>3, <2>4
<1> QED BY <1>1, <1>2, <1>3, <1>4, <1>5, <1>6 DEF Napi

\* No wake-up is lost: the channel and its callback.
LEMMA DmaTold == RingInv /\ IndInv /\ ToldInv /\ Dma => ToldInv'
<1> SUFFICES ASSUME RingInv, IndInv, ToldInv, Dma PROVE ToldInv'
  OBVIOUS
<1>0. Types /\ slot \in RingWords
  BY DEF RingInv, RingParts, Types
<1> USE DEF ring, iface, chan, gate, DmaUnchanged
<1>a. UNCHANGED <<datapath_up, ctl, napi, tx_head, tx_tail, xmit>>
  BY DEF Dma, DmaHalt, emz_tx_dma_done, emz_rx_dma_failed, DmaComplete
<1>b. Watching' = Watching
  BY <1>a DEF Watching
<1>c. cb = [at |-> cb.at, idx |-> cb.idx, failed |-> cb.failed]
  BY DEF IndInv, Shapes
<1>1. ASSUME DmaHalt \/ \E starts \in BOOLEAN : DmaComplete(starts)
      PROVE  ToldInv'
  <2>1. UNCHANGED <<slot, napi_state>> /\ (cb' = cb \/ cb.at = "idle")
    BY <1>1 DEF DmaHalt, DmaComplete
  <2>2. \A i \in Indices : Overlooked(i)' => Overlooked(i)
    BY <1>a, <2>1, FrameOverlooked
  <2>3. Told => Told'
    BY <1>a, <2>1 DEF Told
  <2> QED  BY <1>0, <1>a, <1>b, <2>1, <2>2, <2>3, FrameTold
<1>2. CASE emz_tx_dma_done
  <2>1. CASE cb.at \in {"status", "work"}
    <3>1. /\ napi_state' = napi_state
          /\ slot' = slot \/ slot' = [slot EXCEPT ![cb.idx].failed = cb.failed]
      BY <1>2, <2>1 DEF emz_tx_dma_done
    <3>2. \A i \in Slots : slot'[i].done => slot[i].done
      <4>1. cb.idx \in Slots /\ cb.failed \in BOOLEAN
        BY <1>0 DEF Types, CbRecs
      <4>2. \A i \in Slots : [slot EXCEPT ![cb.idx].failed = cb.failed][i].done = slot[i].done
        BY ONLY <1>0, <4>1, SlotBits
      <4> QED  BY <3>1, <4>2
    <3>3. \A i \in Indices : Overlooked(i)' => Overlooked(i)
      BY <1>a, <3>2, FrameOverlooked
    <3>4. Told => Told'
      BY <1>a, <2>1, <3>1 DEF Told
    <3> QED  BY <1>0, <1>a, <1>b, <3>1, <3>3, <3>4, FrameTold
  <2>2. CASE cb.at = "done"
    <3>1. napi_state' = napi_state /\ cb'.at = "napi"
      BY <1>2, <1>c, <2>2 DEF emz_tx_dma_done
    <3>2. Told'
      BY <3>1 DEF Told
    <3> QED  BY <1>0, <1>a, <1>b, <3>1, <3>2, FrameTold
  <2>3. CASE cb.at = "napi"
    <3>1. slot' = slot /\ napi_schedule
      BY <1>2, <2>3 DEF emz_tx_dma_done
    <3>2. \A i \in Indices : Overlooked(i)' => Overlooked(i)
      BY <1>a, <3>1, FrameOverlooked
    <3>3. Watching => Asks
      BY <1>0, <3>1, ScheduleAsks
    <3>4. ASSUME ~Watching PROVE ToldInv'
      BY <1>b, <3>4 DEF ToldInv
    <3>5. ASSUME Watching PROVE ToldInv'
      BY <1>0, <1>a, <1>b, <3>2, <3>3, <3>5, FrameTold
    <3> QED  BY <3>4, <3>5
  <2> QED  BY <1>2, <2>1, <2>2, <2>3 DEF emz_tx_dma_done
<1>3. CASE emz_rx_dma_failed
  <2>1. slot' = slot /\ napi_schedule
    BY <1>3 DEF emz_rx_dma_failed
  <2>2. \A i \in Indices : Overlooked(i)' => Overlooked(i)
    BY <1>a, <2>1, FrameOverlooked
  <2>3. Watching => Asks
    BY <1>0, <2>1, ScheduleAsks
  <2>4. ASSUME ~Watching PROVE ToldInv'
    BY <1>b, <2>4 DEF ToldInv
  <2>5. ASSUME Watching PROVE ToldInv'
    BY <1>0, <1>a, <1>b, <2>2, <2>3, <2>5, FrameTold
  <2> QED  BY <2>4, <2>5
<1> QED BY <1>1, <1>2, <1>3 DEF Dma

\* No wake-up is lost: the rebuild and the timers.
LEMMA CtlTold == RingInv /\ IndInv /\ ToldInv /\ (CtlStart \/ CtlStep \/ Timers) => ToldInv'
<1> SUFFICES ASSUME RingInv, IndInv, ToldInv, CtlStart \/ CtlStep \/ Timers PROVE ToldInv'
  OBVIOUS
<1>0. Types
  BY DEF RingInv
<1> USE DEF ring, iface, chan, CtlUnchanged, WdUnchanged
<1>a. datapath_up => ctl.at = "idle"
  BY DEF IndInv, Phase
<1>1. CASE CtlEnable /\ ctl.at = "enable"
  <2>1. napi_state' = "sched" /\ napi' = napi /\ napi.at = "idle"
    BY <1>1, <1>a DEF CtlEnable, IndInv, Quiet, Down
  <2> QED  BY <2>1 DEF ToldInv
<1>2. CASE ~(CtlEnable /\ ctl.at = "enable")
  <2>1. ASSUME Watching'
        PROVE  Watching /\ UNCHANGED <<napi, tx_tail, tx_head, slot, napi_state, cb, xmit>>
    <3>1. CASE Timers
      BY <2>1, <3>1 DEF Timers, emz_tx_timeout, emz_watchdog, Watching
    <3>2. CASE CtlStart
      BY <2>1, <3>2, <1>a DEF CtlStart, emz_reset_work, emz_open, emz_stop, emz_csum_config, Watching
    <3>3. CASE CtlStep
      BY <1>2, <2>1, <3>3, <1>a DEF CtlStep, CtlQuiesce, emz_dma_stop, CtlClear, CtlEnable, CtlFail,
         emz_tx_drain, CtlPrepare, Goto, Watching
    <3> QED  BY <3>1, <3>2, <3>3
  <2>2. ASSUME Watching' PROVE ToldInv'
    <3>1. Watching /\ UNCHANGED <<napi, tx_tail, tx_head, slot, napi_state, cb, xmit>>
      BY <2>1, <2>2
    <3>2. \A i \in Indices : Overlooked(i)' => Overlooked(i)
      BY <3>1, FrameOverlooked
    <3>3. Told' = Told
      BY <3>1 DEF Told
    <3> QED  BY <1>0, <3>1, <3>2, <3>3, FrameTold
  <2>3. ASSUME ~Watching' PROVE ToldInv'
    BY <2>3 DEF ToldInv
  <2> QED  BY <2>2, <2>3
<1> QED  BY <1>1, <1>2

\* No wake-up is lost: every step.
LEMMA ToldNext == RingInv /\ IndInv /\ ToldInv /\ [Next]_vars => ToldInv'
<1> SUFFICES ASSUME RingInv, IndInv, ToldInv, [Next]_vars PROVE ToldInv'
  OBVIOUS
<1>1. CASE Next
  BY <1>1, NextSplit, XmitTold, NapiTold, DmaTold, CtlTold
<1>2. CASE UNCHANGED vars
  <2>1. UNCHANGED <<napi, tx_tail, tx_head, slot, napi_state, cb, xmit, datapath_up, ctl>>
    BY <1>2 DEF vars, ring, chan, iface
  <2>2. \A i \in Indices : Overlooked(i)' => Overlooked(i)
    BY <2>1, FrameOverlooked
  <2>3. Told' = Told /\ Watching' = Watching
    BY <2>1 DEF Told, Watching
  <2> QED  BY <2>1, <2>2, <2>3, FrameTold DEF RingInv
<1> QED  BY <1>1, <1>2

\* A stopped queue is a full one, or is about to be looked at again: every step.
LEMMA FullNext == Types /\ IndInv /\ FullInv /\ [Next]_vars => FullInv'
<1> SUFFICES ASSUME Types, IndInv, FullInv, [Next]_vars PROVE FullInv'
  OBVIOUS
<1> USE DEF ring, iface, chan, gate
<1> DEFINE Words == <<queue, xmit, submitted, tx_head, tx_tail>>
<1>0. ASSUME UNCHANGED Words, datapath_up' => datapath_up,
             napi' = napi \/ napi.at \notin {"check", "wake"}
      PROVE  FullInv'
  BY <1>0 DEF FullInv, emz_tx_free
<1>1. CASE XmitEnter \/ Xmit
  <2> USE DEF XmitUnchanged
  <2>1. ASSUME XmitEnter \/ XmitBusy
        PROVE  FullInv'
    BY <2>1 DEF XmitEnter, XmitBusy, FullInv, queue_stopped
  <2>2. ASSUME XmitPublish \/ XmitFailed \/ (\E d \in CanFail : XmitGate(d))
                 \/ (\E r \in CanFail : XmitSubmit(r)) \/ (\E m \in BOOLEAN : XmitFlush(m))
        PROVE  FullInv'
    <3>1. queue' = queue /\ xmit \in {"publish", "work", "done", "napi", "gate", "submit", "flush"}
      BY <2>2 DEF XmitPublish, XmitFailed, XmitGate, XmitSubmit, XmitFlush
    <3> QED  BY <3>1 DEF FullInv
  <2>3. CASE XmitFull
    <3>1. CASE xmit = "full"
      BY <2>3, <3>1 DEF XmitFull, FullInv
    <3>2. CASE xmit = "stop"
      BY <2>3, <3>2 DEF XmitFull, FullInv
    <3>3. CASE xmit = "issue"
      BY <2>3, <3>3 DEF XmitFull, FullInv, issue_pending
    <3>4. CASE xmit = "recheck"
      <4>1. /\ UNCHANGED <<queue, submitted, tx_head, tx_tail>>
            /\ xmit' = IF emz_tx_free >= Wake THEN "start" ELSE "idle"
        BY <2>3, <3>4 DEF XmitFull
      <4>2. emz_tx_free' = emz_tx_free
        BY <4>1 DEF emz_tx_free
      <4>3. CASE emz_tx_free >= Wake
        BY <3>4, <4>1, <4>3 DEF FullInv
      <4>4. CASE ~(emz_tx_free >= Wake)
        <5>1. emz_tx_free < Wake
          <6>1. Minus(tx_head, tx_tail) \in Int
            BY IndexIs, Sizes DEF Types, Indices
          <6> QED  BY <4>4, <6>1, Sizes DEF emz_tx_free
        <5> QED  BY <3>4, <4>1, <4>2, <4>4, <5>1 DEF FullInv
      <4> QED  BY <4>3, <4>4
    <3>5. CASE xmit = "start"
      BY <2>3, <3>5 DEF XmitFull, FullInv
    <3> QED  BY <2>3, <3>1, <3>2, <3>3, <3>4, <3>5 DEF XmitFull
  <2> QED  BY <1>1, <2>1, <2>2, <2>3 DEF Xmit
<1>2. CASE Napi
  <2> USE DEF NapiUnchanged
  <2>1. ASSUME NapiStart \/ NapiLoop \/ NapiBql \/ (\E f \in CanFail : NapiRx(f))
                 \/ (\E b \in BOOLEAN : NapiComplete(b))
        PROVE  FullInv'
    <3>1. UNCHANGED Words /\ datapath_up' = datapath_up /\ napi.at \notin {"check", "wake"}
      BY <2>1 DEF NapiStart, NapiLoop, NapiBql, NapiRx, NapiComplete
    <3> QED  BY <1>0, <3>1
  <2>2. CASE NapiRelease
    <3>1. UNCHANGED <<queue, xmit, submitted, datapath_up>> /\ napi'.at = "check"
      BY <2>2 DEF NapiRelease, NapiAt
    <3> QED  BY <3>1 DEF FullInv
  <2>3. CASE NapiWake
    <3>1. CASE napi.at = "check" /\ queue = "full"
      <4>1. UNCHANGED Words /\ datapath_up' = datapath_up
        BY <2>3, <3>1 DEF NapiWake
      <4>2. napi' = NapiAt(IF emz_tx_free >= Wake THEN "wake" ELSE "rx")
        BY <2>3, <3>1 DEF NapiWake, queue_stopped
      <4>3. emz_tx_free' = emz_tx_free
        BY <4>1 DEF emz_tx_free
      <4>4. CASE emz_tx_free >= Wake
        <5>1. napi'.at = "wake"
          BY <4>2, <4>4 DEF NapiAt
        <5> QED  BY <4>1, <5>1 DEF FullInv
      <4>5. CASE ~(emz_tx_free >= Wake)
        <5>1. emz_tx_free < Wake
          <6>1. Minus(tx_head, tx_tail) \in Int
            BY IndexIs, Sizes DEF Types, Indices
          <6> QED  BY <4>5, <6>1, Sizes DEF emz_tx_free
        <5> QED  BY <4>1, <4>3, <5>1 DEF FullInv
      <4> QED  BY <4>4, <4>5
    <3>2. CASE napi.at = "check" /\ queue # "full"
      BY <2>3, <3>2 DEF NapiWake, FullInv
    <3>3. CASE napi.at = "wake"
      BY <2>3, <3>3 DEF NapiWake, FullInv
    <3> QED  BY <2>3, <3>1, <3>2, <3>3 DEF NapiWake
  <2> QED  BY <1>2, <2>1, <2>2, <2>3 DEF Napi
<1>3. CASE Dma
  <2> USE DEF DmaUnchanged
  <2>1. /\ UNCHANGED <<queue, xmit, tx_head, tx_tail, datapath_up, napi>>
        /\ submitted' \in {submitted, << >>}
    BY <1>3 DEF Dma, DmaHalt, emz_tx_dma_done, emz_rx_dma_failed, DmaComplete
  <2> QED  BY <2>1 DEF FullInv, emz_tx_free
<1>4. CASE CtlStart \/ CtlStep
  <2> USE DEF CtlUnchanged
  <2>1. ASSUME CtlEnable, ctl.at = "wake"
        PROVE  FullInv'
    BY <2>1 DEF CtlEnable, FullInv
  <2>2. ASSUME emz_dma_stop \/ CtlClear \/ (\E g \in BOOLEAN : emz_tx_drain(g))
                 \/ (\E f \in CanFail : CtlPrepare(f))
        PROVE  FullInv'
    <3>1. /\ UNCHANGED <<queue, xmit, datapath_up>> /\ ctl.at # "idle"
          /\ submitted' \in {submitted, << >>}
      BY <2>2 DEF emz_dma_stop, CtlClear, emz_tx_drain, CtlPrepare, issue_pending
    <3>2. ~datapath_up
      BY <3>1 DEF IndInv, Phase
    <3> QED  BY <3>1, <3>2 DEF FullInv
  <2>3. ASSUME CtlStart \/ CtlFail \/ (CtlEnable /\ ctl.at # "wake")
        PROVE  FullInv'
    <3>1. UNCHANGED Words /\ (datapath_up' => datapath_up) /\ napi' = napi
      BY <2>3 DEF CtlStart, emz_reset_work, emz_open, emz_stop, emz_csum_config, CtlFail, CtlEnable
    <3> QED  BY <1>0, <3>1
  <2>4. CASE CtlQuiesce
    BY <2>4 DEF CtlQuiesce, FullInv, emz_tx_free
  <2> QED  BY <1>4, <2>1, <2>2, <2>3, <2>4 DEF CtlStep
<1>5. CASE Timers
  <2>1. UNCHANGED Words /\ datapath_up' = datapath_up /\ napi' = napi
    BY <1>5 DEF Timers, emz_tx_timeout, emz_watchdog, WdUnchanged
  <2> QED  BY <1>0, <2>1
<1>6. CASE UNCHANGED vars
  BY <1>0, <1>6 DEF vars
<1> QED  BY <1>1, <1>2, <1>3, <1>4, <1>5, <1>6, NextSplit

\* A queue stopped because the last slot was filled is woken without the stack's
\* timeout: the second look of emz_start_xmit and the one of emz_tx_complete miss no
\* slot between them, and no completion is lost between the callback's done flag and
\* NAPI, for every ring size and wake threshold (emaczero.c: emz_start_xmit,
\* emz_tx_complete, emz_tx_dma_done).
THEOREM FullQueueIsWoken == Spec => []FullQueueHasWaker
<1>1. RingInv /\ IndInv /\ ToldInv /\ FullInv => FullQueueHasWaker
  <2> SUFFICES ASSUME RingInv, IndInv, ToldInv, FullInv, queue = "full", datapath_up,
                      xmit \notin {"issue", "recheck", "start"}, napi.at \notin {"check", "wake"}
               PROVE  /\ emz_tx_free < Wake
                      /\ active # << >> \/ cb.at # "idle" \/ PollToCome
    BY DEF FullQueueHasWaker
  <2>1. Types /\ OwnedInv /\ RoomInv
    BY DEF RingInv, RingParts
  <2>2. xmit = "idle" /\ submitted = << >> /\ emz_tx_free < Wake
    BY DEF FullInv
  <2>3. /\ Used \in Nat /\ tx_tail \in Indices /\ tx_tail % Ring \in Slots
        /\ Ring \in Nat /\ Wake \in Nat /\ Wake <= Ring
    BY <2>1, RingNumbers, Sizes
  <2>4. Used > 0
    BY <2>2, <2>3 DEF emz_tx_free, Used
  <2>5. CASE slot[tx_tail % Ring].done
    <3>1. Minus(tx_tail, tx_tail) = 0
      BY <2>3, IndexIs, Sizes DEF Indices
    <3>2. Overlooked(tx_tail)
      BY <2>3, <2>4, <2>5, <3>1 DEF Overlooked
    <3>3. napi_state \in NapiStates /\ napi.at \in {"idle", "loop", "bql", "release", "check",
                                                   "wake", "rx", "complete"}
      BY <2>1 DEF Types, NapiRecs
    <3> QED  BY <2>2, <3>2, <3>3 DEF ToldInv, Watching, Told, PollToCome, NapiStates
  <2>6. CASE ~slot[tx_tail % Ring].done
    <3>1. Owns(Owned, tx_tail % Ring, Used, slot)
      BY <2>1 DEF OwnedInv, Live
    <3>2. Ahead(tx_tail % Ring, tx_tail % Ring) = 0
      BY <2>3 DEF Ahead, Slots
    <3>3. PICK k \in 1 .. Len(Owned) : Owned[k] = tx_tail % Ring
      BY <2>3, <2>4, <2>6, <3>1, <3>2 DEF Owns
    <3>4. Owned # << >>
      BY <3>3
    <3>5. ASSUME CbSlot = << >>, active = << >> PROVE FALSE
      <4>1. Owned = (<< >> \o (<< >> \o << >>)) \o << >>
        BY <2>2, <3>5 DEF Owned, GivenUp
      <4> QED  BY <3>4, <4>1, SlotSeqs
    <3> QED  BY <2>2, <3>5 DEF CbSlot
  <2> QED  BY <2>2, <2>5, <2>6
<1>2. Init => ToldInv /\ FullInv
  BY DEF Init, ToldInv, Watching, FullInv
<1>3. Spec => []IndInv
  BY Inductive
<1>4. Spec => [](ToldInv /\ FullInv)
  <2>1. RingInv => Types
    BY DEF RingInv
  <2> QED  BY <1>2, <1>3, <2>1, RingInductive, ToldNext, FullNext, PTL DEF Spec
<1> QED  BY <1>1, <1>3, <1>4, RingInductive, PTL
=============================================================================
