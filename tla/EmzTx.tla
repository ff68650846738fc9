------------------------------- MODULE EmzTx --------------------------------
(***************************************************************************)
(* sw/linux/emaczero/emaczero.c: the transmit ring of the Linux driver and *)
(* what stops, rebuilds and watches over it.  Five activities share it:    *)
(* emz_start_xmit (one at a time, under the queue's lock), the NAPI poll,  *)
(* the DMA provider's callback, the reset work and the other callers of    *)
(* emz_datapath_down/up (one at a time, under rtnl), and the watchdog.     *)
(* Every access to a shared word that the code orders with a barrier or a  *)
(* lock is a step of its own.                                              *)
(*                                                                         *)
(* External, as the code uses it: the stack's queue state and its TX       *)
(* timeout, NAPI's scheduling states, BQL, the dmaengine provider.  The    *)
(* kernel (6.12 or later) restarts the TX timeout when a queue is stopped, *)
(* so no timeout falls into a rebuild.                                     *)
(***************************************************************************)
EXTENDS Integers, Sequences

CONSTANTS Ring,         \* EMZ_TX_RING
          Wake,         \* EMZ_TX_WAKE
          Wrap,         \* range of the free-running indices: 2^32
          StallTicks,   \* EMZ_TX_STALL_TICKS
          Carriers,     \* bound: the carrier states the watchdog may see
          CanFail       \* bound: TRUE is in it if a submit, an allocation or
                        \* the DMA may fail

ASSUME EmzTxAssumption ==
  /\ Ring \in Nat /\ Wake \in 1 .. Ring
  /\ StallTicks \in Nat \ {0}
  /\ Wrap \in Nat /\ Wrap >= 2 * Ring /\ Wrap % Ring = 0
  /\ Carriers \subseteq BOOLEAN /\ FALSE \in CanFail /\ CanFail \subseteq BOOLEAN

VARIABLES
  tx_head, tx_tail,     \* next slot to fill, next slot to complete
  slot,                 \* slot[i]: done, and failed for status -EIO
  tx_failed,            \* TX frames since up the DMA did not send
  queue,                \* __QUEUE_STATE_DRV_XOFF: running, or why it is stopped
  bql,                  \* frames BQL believes in flight
  reset_pending,        \* the gate
  work_queued,          \* reset_work is on the workqueue
  datapath_up, running, \* running: netif_running
  napi_state,           \* off, idle, sched, missed
  submitted, active,    \* descriptors given to the channel, not started/started
  halted,               \* the channel stopped on an error
  xmit, batch,          \* emz_start_xmit: where it is; more frames follow
  napi,                 \* emz_tx_complete: where it is and its locals
  cb,                   \* the running DMA callback
  ctl,                  \* the rtnl holder: where it is, and up again or not
  wd,                   \* the watchdog: armed, tail, stuck
  handed                \* history: frames the DMA sent since up

ring  == <<tx_head, tx_tail, slot, bql>>
gate  == <<reset_pending, work_queued>>
chan  == <<submitted, active, halted>>
iface == <<datapath_up, running>>
vars  == <<ring, tx_failed, queue, gate, iface, napi_state, chan, xmit,
           batch, napi, cb, ctl, wd, handed>>

-----------------------------------------------------------------------------
Indices == 0 .. Wrap - 1
Slots   == 0 .. Ring - 1
Next1(i)    == (i + 1) % Wrap
Minus(i, j) == (i - j) % Wrap

queue_stopped == queue # "running"   \* netif_queue_stopped

emz_tx_free == Ring - Minus(tx_head, tx_tail)

CtlPlaces == {"idle", "watchdog", "napi", "disable", "drain", "wait", "stop",
              "clear", "alloc", "post", "flush", "enable", "wake", "fail"}

TypeOK ==
  /\ tx_head \in Indices /\ tx_tail \in Indices /\ tx_failed \in Indices
  /\ slot \in [Slots -> [done : BOOLEAN, failed : BOOLEAN]]
  /\ queue \in {"running", "full", "busy", "disabled"}
  /\ bql \in 0 .. Ring
  /\ reset_pending \in BOOLEAN /\ work_queued \in BOOLEAN
  /\ datapath_up \in BOOLEAN /\ running \in BOOLEAN
  /\ napi_state \in {"off", "idle", "sched", "missed"}
  /\ submitted \in Seq(Slots) /\ active \in Seq(Slots)
  /\ Len(submitted) + Len(active) <= Ring
  /\ halted \in BOOLEAN /\ batch \in BOOLEAN
  /\ xmit \in {"idle", "busy", "gate", "publish", "submit", "work", "done",
               "napi", "full", "stop", "issue", "recheck", "start", "flush"}
  /\ napi \in [at : {"idle", "loop", "bql", "release", "check", "wake", "rx",
                     "complete"}, tail : Indices, head : Indices]
  /\ cb \in [at : {"idle", "status", "work", "done", "napi"}, idx : Slots,
             failed : BOOLEAN]
  /\ ctl \in [at : CtlPlaces, again : BOOLEAN]
  /\ wd \in [armed : BOOLEAN, tail : Indices, stuck : 0 .. StallTicks - 1]
  /\ handed \in Indices

\* Locals that are not in use are 0.
NapiAt(place) == [at |-> place, tail |-> 0, head |-> 0]
CbIdle == [at |-> "idle", idx |-> 0, failed |-> FALSE]
WdOff  == [armed |-> FALSE, tail |-> 0, stuck |-> 0]

Init ==   \* after probe: the interface is closed
  /\ tx_head = 0 /\ tx_tail = 0 /\ tx_failed = 0
  /\ slot = [i \in Slots |-> [done |-> FALSE, failed |-> FALSE]]
  /\ queue = "disabled" /\ bql = 0
  /\ reset_pending = FALSE /\ work_queued = FALSE
  /\ datapath_up = FALSE /\ running = FALSE
  /\ napi_state = "off"
  /\ submitted = << >> /\ active = << >> /\ halted = FALSE
  /\ xmit = "idle" /\ batch = FALSE
  /\ napi = NapiAt("idle")
  /\ cb = CbIdle
  /\ ctl = [at |-> "idle", again |-> FALSE]
  /\ wd = WdOff
  /\ handed = 0

-----------------------------------------------------------------------------
\* napi_schedule: refused once napi_disable has set its bit; a schedule during
\* a poll makes the poll run again.
napi_schedule ==
  napi_state' = IF ctl.at = "napi" THEN napi_state
                ELSE [off |-> "off", idle |-> "sched", sched |-> "missed",
                      missed |-> "missed"][napi_state]

\* dma_async_issue_pending
issue_pending ==
  /\ active' = active \o submitted
  /\ submitted' = << >>
  /\ UNCHANGED halted

\* emz_request_reset where nothing can come between its two steps.
emz_request_reset == reset_pending' = TRUE /\ work_queued' = TRUE

-----------------------------------------------------------------------------
(* emz_start_xmit *)

XmitUnchanged == UNCHANGED <<iface, napi, cb, ctl, wd, handed>>

\* The stack calls with the queue running and its lock held, which it keeps for
\* the frames of a batch.
XmitEnter ==
  /\ xmit = "idle" /\ (running \/ batch) /\ ~queue_stopped
  /\ xmit' = IF emz_tx_free = 0 THEN "busy" ELSE "gate"
  /\ XmitUnchanged
  /\ UNCHANGED <<ring, tx_failed, queue, gate, napi_state, chan, batch>>

\* NETDEV_TX_BUSY: the stack keeps the frame.
XmitBusy ==
  /\ xmit = "busy"
  /\ queue' = "busy"
  /\ xmit' = "idle" /\ batch' = FALSE
  /\ XmitUnchanged
  /\ UNCHANGED <<ring, tx_failed, gate, napi_state, chan>>

\* A closed gate, a frame that is too long, a failed copy and a missing
\* descriptor drop the frame; otherwise the slot is filled.
XmitGate(dropped) ==
  /\ xmit = "gate"
  /\ IF reset_pending \/ dropped
     THEN xmit' = "flush" /\ UNCHANGED <<slot, bql>>
     ELSE /\ xmit' = "publish"
          /\ slot' = [slot EXCEPT ![tx_head % Ring] =
                        [done |-> FALSE, failed |-> FALSE]]
          /\ bql' = bql + 1
  /\ XmitUnchanged
  /\ UNCHANGED <<tx_head, tx_tail, tx_failed, queue, gate, napi_state,
                 chan, batch>>

XmitPublish ==
  /\ xmit = "publish"
  /\ tx_head' = Next1(tx_head)
  /\ xmit' = "submit"
  /\ XmitUnchanged
  /\ UNCHANGED <<tx_tail, slot, bql, tx_failed, queue, gate,
                 napi_state, chan, batch>>

\* head as emz_start_xmit read it at its start.
XmitSlot == (tx_head - 1) % Ring

\* A refused submit marks the slot failed and closes the gate.
XmitSubmit(refused) ==
  /\ xmit = "submit"
  /\ IF refused
     THEN /\ xmit' = "work"
          /\ slot' = [slot EXCEPT ![XmitSlot].failed = TRUE]
          /\ tx_failed' = Next1(tx_failed)
          /\ reset_pending' = TRUE
          /\ UNCHANGED submitted
     ELSE /\ xmit' = "full"
          /\ submitted' = Append(submitted, XmitSlot)
          /\ UNCHANGED <<slot, tx_failed, reset_pending>>
  /\ XmitUnchanged
  /\ UNCHANGED <<tx_head, tx_tail, bql, queue, work_queued, napi_state,
                 active, halted, batch>>

\* emz_request_reset's schedule_work, the done flag, napi_schedule.
XmitFailed ==
  /\ \/ /\ xmit = "work" /\ xmit' = "done"
        /\ work_queued' = TRUE
        /\ UNCHANGED <<slot, napi_state>>
     \/ /\ xmit = "done" /\ xmit' = "napi"
        /\ slot' = [slot EXCEPT ![XmitSlot].done = TRUE]
        /\ UNCHANGED <<work_queued, napi_state>>
     \/ /\ xmit = "napi" /\ xmit' = "full"
        /\ napi_schedule
        /\ UNCHANGED <<work_queued, slot>>
  /\ XmitUnchanged
  /\ UNCHANGED <<tx_head, tx_tail, bql, tx_failed, queue, reset_pending,
                 chan, batch>>

\* Mutant: the queue is stopped without looking at the ring again.
XmitFullNoRecheck ==
  /\ \/ /\ xmit = "full"
        /\ xmit' = IF emz_tx_free = 0 THEN "stop" ELSE "flush"
        /\ UNCHANGED <<queue, chan>>
     \/ /\ xmit = "stop" /\ xmit' = "issue"
        /\ queue' = "full"
        /\ UNCHANGED chan
     \/ /\ xmit = "issue" /\ xmit' = "idle"
        /\ issue_pending
        /\ UNCHANGED queue
  /\ batch' = (batch /\ xmit' # "idle")
  /\ XmitUnchanged
  /\ UNCHANGED <<ring, tx_failed, gate, napi_state>>

\* Was that the last free slot?  Then stop the queue, start the channel, and
\* look again: NAPI may have freed slots before it could see the queue stopped.
XmitFull ==
  /\ \/ /\ xmit = "full"
        /\ xmit' = IF emz_tx_free = 0 THEN "stop" ELSE "flush"
        /\ UNCHANGED <<queue, chan>>
     \/ /\ xmit = "stop" /\ xmit' = "issue"
        /\ queue' = "full"
        /\ UNCHANGED chan
     \/ /\ xmit = "issue" /\ xmit' = "recheck"
        /\ issue_pending
        /\ UNCHANGED queue
     \/ /\ xmit = "recheck"
        /\ xmit' = IF emz_tx_free >= Wake THEN "start" ELSE "idle"
        /\ UNCHANGED <<queue, chan>>
     \/ /\ xmit = "start" /\ xmit' = "idle"
        /\ queue' = "running"
        /\ UNCHANGED chan
  \* dev_hard_start_xmit gives up the rest of a batch on a stopped queue
  /\ batch' = (batch /\ (xmit' = "idle" => queue' = "running"))
  /\ XmitUnchanged
  /\ UNCHANGED <<ring, tx_failed, gate, napi_state>>

\* netdev_xmit_more: the stack promises another frame before it lets go.
XmitFlush(more) ==
  /\ xmit = "flush" /\ xmit' = "idle"
  /\ batch' = more
  /\ IF more THEN UNCHANGED chan ELSE issue_pending
  /\ XmitUnchanged
  /\ UNCHANGED <<ring, tx_failed, queue, gate, napi_state>>

Xmit ==
  \/ XmitBusy \/ XmitPublish \/ XmitFailed \/ XmitFull
  \/ \E dropped \in CanFail : XmitGate(dropped)
  \/ \E refused \in CanFail : XmitSubmit(refused)
  \/ \E more \in BOOLEAN : XmitFlush(more)

-----------------------------------------------------------------------------
(* emz_poll: emz_tx_complete, then emz_rx_poll. *)

NapiUnchanged == UNCHANGED <<iface, chan, xmit, batch, cb, ctl, wd, handed,
                             tx_failed>>

NapiStart ==
  /\ napi.at = "idle" /\ napi_state \in {"sched", "missed"}
  /\ napi' = [at |-> "loop", tail |-> tx_tail, head |-> tx_head]
  /\ NapiUnchanged
  /\ UNCHANGED <<ring, queue, gate, napi_state>>

NapiLoop ==
  /\ napi.at = "loop"
  /\ napi' = IF napi.tail # napi.head /\ slot[napi.tail % Ring].done
             THEN [napi EXCEPT !.tail = Next1(@)]
             ELSE IF napi.tail = tx_tail THEN NapiAt("rx")
                                         ELSE [napi EXCEPT !.at = "bql"]
  /\ NapiUnchanged
  /\ UNCHANGED <<ring, queue, gate, napi_state>>

\* Mutant: everything up to head is reported to BQL.
NapiBqlToHead ==
  /\ napi.at = "bql"
  /\ bql' = bql - Minus(napi.head, tx_tail)
  /\ napi' = [napi EXCEPT !.at = "release"]
  /\ NapiUnchanged
  /\ UNCHANGED <<tx_head, tx_tail, slot, queue, gate, napi_state>>

\* netdev_completed_queue
NapiBql ==
  /\ napi.at = "bql"
  /\ bql' = bql - Minus(napi.tail, tx_tail)
  /\ napi' = [napi EXCEPT !.at = "release"]
  /\ NapiUnchanged
  /\ UNCHANGED <<tx_head, tx_tail, slot, queue, gate, napi_state>>

NapiRelease ==
  /\ napi.at = "release"
  /\ tx_tail' = napi.tail
  /\ napi' = NapiAt("check")
  /\ NapiUnchanged
  /\ UNCHANGED <<tx_head, slot, bql, queue, gate, napi_state>>

\* Between the check and the wake, xmit may start the queue itself.
NapiWake ==
  /\ \/ /\ napi.at = "check"
        /\ napi' = NapiAt(IF queue_stopped /\ emz_tx_free >= Wake
                          THEN "wake" ELSE "rx")
        /\ UNCHANGED queue
     \/ /\ napi.at = "wake"
        /\ napi' = NapiAt("rx")
        /\ queue' = "running"
  /\ NapiUnchanged
  /\ UNCHANGED <<ring, gate, napi_state>>

\* emz_rx_poll: a slot that cannot be posted again asks for a rebuild.
NapiRx(failed) ==
  /\ napi.at = "rx"
  /\ IF failed THEN emz_request_reset ELSE UNCHANGED gate
  /\ napi' = NapiAt("complete")
  /\ NapiUnchanged
  /\ UNCHANGED <<ring, queue, napi_state>>

\* napi_complete_done.  A poll that used up its budget stays scheduled, unless
\* NAPI is being disabled.
NapiComplete(budget_left) ==
  /\ napi.at = "complete"
  /\ napi_state' = IF ~budget_left /\ ctl.at # "napi" THEN napi_state
                   ELSE IF napi_state = "missed" THEN "sched" ELSE "idle"
  /\ napi' = NapiAt("idle")
  /\ NapiUnchanged
  /\ UNCHANGED <<ring, queue, gate>>

Napi ==
  \/ NapiStart \/ NapiLoop \/ NapiBql \/ NapiRelease \/ NapiWake
  \/ \E failed \in CanFail : NapiRx(failed)
  \/ \E budget_left \in BOOLEAN : NapiComplete(budget_left)

-----------------------------------------------------------------------------
(* The dmaengine provider and emz_tx_dma_done. *)

DmaUnchanged == UNCHANGED <<tx_head, tx_tail, bql, queue, iface, xmit,
                            batch, napi, ctl, wd>>

\* The channel stops on an error.
DmaHalt ==
  /\ TRUE \in CanFail
  /\ active # << >> /\ ~halted
  /\ halted' = TRUE
  /\ DmaUnchanged
  /\ UNCHANGED <<slot, tx_failed, gate, napi_state, submitted, active, cb,
                 handed>>

\* A descriptor completes, with success or, on a stopped channel, with an error.
\* The completion interrupt may also start what was only submitted.
DmaComplete(starts) ==
  /\ cb.at = "idle" /\ active # << >>
  /\ ctl.at # "stop"                     \* the interrupts are off
  /\ cb' = [at |-> "status", idx |-> Head(active), failed |-> halted]
  /\ active' = IF starts THEN Tail(active) \o submitted ELSE Tail(active)
  /\ submitted' = IF starts THEN << >> ELSE submitted
  /\ handed' = IF halted THEN handed ELSE Next1(handed)
  /\ DmaUnchanged
  /\ UNCHANGED <<slot, tx_failed, gate, napi_state, halted>>

\* Mutant: done is published before the gate is closed.
emz_tx_dma_done_gate_last ==
  /\ \/ /\ cb.at = "status"
        /\ slot' = [slot EXCEPT ![cb.idx] = [done |-> TRUE, failed |-> cb.failed]]
        /\ cb' = [cb EXCEPT !.at = "done"]
        /\ UNCHANGED <<gate, tx_failed, napi_state>>
     \/ /\ cb.at = "done"
        /\ IF cb.failed
           THEN emz_request_reset /\ tx_failed' = Next1(tx_failed)
           ELSE UNCHANGED <<gate, tx_failed>>
        /\ cb' = [cb EXCEPT !.at = "napi"]
        /\ UNCHANGED <<slot, napi_state>>
     \/ /\ cb.at = "napi" /\ cb' = CbIdle
        /\ napi_schedule
        /\ UNCHANGED <<gate, slot, tx_failed>>
  /\ DmaUnchanged
  /\ UNCHANGED <<chan, handed>>

\* Status, the gate, done, then NAPI.
emz_tx_dma_done ==
  /\ \/ /\ cb.at = "status"
        /\ slot' = [slot EXCEPT ![cb.idx].failed = cb.failed]
        /\ IF cb.failed
           THEN /\ tx_failed' = Next1(tx_failed)
                /\ reset_pending' = TRUE
                /\ cb' = [cb EXCEPT !.at = "work"]
           ELSE /\ cb' = [cb EXCEPT !.at = "done"]
                /\ UNCHANGED <<tx_failed, reset_pending>>
        /\ UNCHANGED <<work_queued, napi_state>>
     \/ /\ cb.at = "work" /\ cb' = [cb EXCEPT !.at = "done"]
        /\ work_queued' = TRUE
        /\ UNCHANGED <<reset_pending, slot, tx_failed, napi_state>>
     \/ /\ cb.at = "done" /\ cb' = [cb EXCEPT !.at = "napi"]
        /\ slot' = [slot EXCEPT ![cb.idx].done = TRUE]
        /\ UNCHANGED <<gate, tx_failed, napi_state>>
     \/ /\ cb.at = "napi" /\ cb' = CbIdle
        /\ napi_schedule
        /\ UNCHANGED <<gate, slot, tx_failed>>
  /\ DmaUnchanged
  /\ UNCHANGED <<chan, handed>>

\* emz_rx_dma_done reports a failed RX descriptor, while the RX ring is posted.
emz_rx_dma_failed ==
  /\ TRUE \in CanFail
  /\ datapath_up \/ ctl.at \in {"flush", "enable", "wake", "watchdog", "napi",
                                "disable", "drain", "wait"}
  /\ emz_request_reset
  /\ napi_schedule
  /\ DmaUnchanged
  /\ UNCHANGED <<slot, tx_failed, chan, cb, handed>>

-----------------------------------------------------------------------------
(* emz_datapath_down and emz_datapath_up, under rtnl. *)

CtlUnchanged == UNCHANGED <<xmit, batch, napi, cb>>
Goto(place)  == ctl' = [at |-> place,
                        again |-> ctl.again /\ place # "clear"]

\* emz_reset_work: a request whose rebuild has already happened finds the gate
\* open and does nothing.
emz_reset_work ==
  /\ ctl.at = "idle" /\ work_queued
  /\ work_queued' = FALSE
  /\ IF running /\ datapath_up /\ reset_pending
     THEN datapath_up' = FALSE /\ ctl' = [at |-> "watchdog", again |-> TRUE]
     ELSE UNCHANGED <<datapath_up, ctl>>
  /\ CtlUnchanged
  /\ UNCHANGED <<ring, tx_failed, queue, reset_pending, running,
                 napi_state, chan, wd, handed>>

\* emz_open, emz_stop, and emz_csum_config with a changed setting.
emz_open ==
  /\ ctl.at = "idle" /\ ~running
  /\ running' = TRUE
  /\ ctl' = [at |-> "clear", again |-> FALSE]
  /\ CtlUnchanged
  /\ UNCHANGED <<ring, tx_failed, queue, gate, datapath_up, napi_state,
                 chan, wd, handed>>

emz_stop ==
  /\ ctl.at = "idle" /\ running /\ datapath_up
  /\ running' = FALSE /\ datapath_up' = FALSE
  /\ ctl' = [at |-> "watchdog", again |-> FALSE]
  /\ CtlUnchanged
  /\ UNCHANGED <<ring, tx_failed, queue, gate, napi_state, chan, wd,
                 handed>>

emz_csum_config ==
  /\ ctl.at = "idle" /\ running /\ datapath_up
  /\ datapath_up' = FALSE
  /\ ctl' = [at |-> "watchdog", again |-> TRUE]
  /\ CtlUnchanged
  /\ UNCHANGED <<ring, tx_failed, queue, gate, running, napi_state,
                 chan, wd, handed>>

\* cancel_delayed_work_sync(watchdog), then napi_disable, which waits for the
\* poll, then netif_tx_disable, which takes the queue's lock.
CtlQuiesce ==
  /\ \/ /\ ctl.at = "watchdog" /\ Goto("napi")
        /\ wd' = WdOff
        /\ UNCHANGED <<napi_state, queue>>
     \/ /\ ctl.at = "napi" /\ Goto("disable")
        /\ napi.at = "idle" /\ napi_state = "idle"
        /\ napi_state' = "off"
        /\ UNCHANGED <<wd, queue>>
     \/ /\ ctl.at = "disable" /\ Goto("drain")
        /\ xmit = "idle" /\ ~batch
        /\ queue' = "disabled"
        /\ UNCHANGED <<wd, napi_state>>
  /\ CtlUnchanged
  /\ UNCHANGED <<ring, tx_failed, gate, iface, chan, handed>>

InFlight == {i \in Slots : Minus(i, tx_tail % Ring) % Ring
                             < Minus(tx_head, tx_tail)}

\* emz_tx_drain starts the channel and waits for every slot in flight, or gives
\* up after EMZ_DRAIN_MS.
emz_tx_drain(gives_up) ==
  /\ \/ ctl.at = "drain" /\ Goto("wait") /\ issue_pending
     \/ /\ ctl.at = "wait" /\ Goto("stop")
        /\ gives_up \/ \A i \in InFlight : slot[i].done
        /\ UNCHANGED chan
  /\ CtlUnchanged
  /\ UNCHANGED <<ring, tx_failed, queue, gate, iface, napi_state, wd,
                 handed>>

\* emz_dma_stop: both terminates wait for a callback that is running.
emz_dma_stop ==
  /\ ctl.at = "stop" /\ cb.at = "idle"
  /\ Goto(IF ctl.again THEN "clear" ELSE "idle")
  /\ submitted' = << >> /\ active' = << >> /\ halted' = FALSE
  /\ bql' = 0
  /\ CtlUnchanged
  /\ UNCHANGED <<tx_head, tx_tail, slot, tx_failed, queue, gate, iface,
                 napi_state, wd, handed>>

CtlClear ==
  /\ ctl.at = "clear" /\ Goto("alloc")
  /\ tx_head' = 0 /\ tx_tail' = 0 /\ tx_failed' = 0 /\ handed' = 0
  /\ slot' = [i \in Slots |-> [done |-> FALSE, failed |-> FALSE]]
  /\ reset_pending' = FALSE
  /\ CtlUnchanged
  /\ UNCHANGED <<bql, queue, work_queued, iface, napi_state, chan, wd>>

\* Channels and buffers, netdev_reset_queue, posting the RX ring (refused by a
\* closed gate), and emz_rx_flush, which a failed RX slot ends.
CtlPrepare(failed) ==
  /\ \/ ctl.at = "alloc" /\ Goto(IF failed THEN "fail" ELSE "post")
     \/ ctl.at = "post"  /\ Goto(IF failed \/ reset_pending THEN "fail"
                                                            ELSE "flush")
     \/ /\ ctl.at = "flush"
        /\ failed => reset_pending
        /\ Goto(IF failed THEN "fail" ELSE "enable")
  /\ bql' = 0
  /\ CtlUnchanged
  /\ UNCHANGED <<tx_head, tx_tail, slot, tx_failed, queue, gate, iface,
                 napi_state, chan, wd, handed>>

\* Mutant: requests left over at the end of a rebuild are cancelled.
CtlEnableCancels ==
  /\ \/ /\ ctl.at = "enable" /\ Goto("wake")
        /\ napi_state' = "sched"
        /\ UNCHANGED <<datapath_up, queue, work_queued, wd>>
     \/ /\ ctl.at = "wake" /\ Goto("idle")
        /\ datapath_up' = TRUE
        /\ queue' = "running" /\ work_queued' = FALSE
        /\ wd' = [armed |-> TRUE, tail |-> 0, stuck |-> 0]
        /\ UNCHANGED napi_state
  /\ CtlUnchanged
  /\ UNCHANGED <<ring, tx_failed, reset_pending, running, chan, handed>>

\* napi_enable and a first napi_schedule; then the queue and the watchdog.
CtlEnable ==
  /\ \/ /\ ctl.at = "enable" /\ Goto("wake")
        /\ napi_state' = "sched"
        /\ UNCHANGED <<datapath_up, queue, wd>>
     \/ /\ ctl.at = "wake" /\ Goto("idle")
        /\ datapath_up' = TRUE
        /\ queue' = "running"
        /\ wd' = [armed |-> TRUE, tail |-> 0, stuck |-> 0]
        /\ UNCHANGED napi_state
  /\ CtlUnchanged
  /\ UNCHANGED <<ring, tx_failed, gate, running, chan, handed>>

\* The error path of emz_datapath_up; its callers close the interface.
CtlFail ==
  /\ ctl.at = "fail" /\ Goto("idle")
  /\ running' = FALSE
  /\ CtlUnchanged
  /\ UNCHANGED <<ring, tx_failed, queue, gate, datapath_up, napi_state,
                 chan, wd, handed>>

CtlStep ==
  \/ CtlQuiesce \/ emz_dma_stop \/ CtlClear \/ CtlEnable \/ CtlFail
  \/ \E gives_up \in BOOLEAN : emz_tx_drain(gives_up)
  \/ \E failed \in CanFail : CtlPrepare(failed)

-----------------------------------------------------------------------------
WdUnchanged == UNCHANGED <<ring, tx_failed, queue, iface, napi_state,
                           chan, xmit, batch, napi, cb, ctl, handed>>

\* Mutant: the watchdog is re-armed only when it finds nothing in flight.
WatchdogOnce(carrier, rx_stalled) ==
  LET stuck == tx_head # tx_tail /\ tx_tail = wd.tail /\ carrier
      n     == IF stuck THEN wd.stuck + 1 ELSE 0
      fires == rx_stalled \/ n >= StallTicks
  IN  /\ wd.armed
      /\ wd' = IF fires \/ tx_head # tx_tail THEN WdOff
               ELSE [armed |-> TRUE, tail |-> tx_tail, stuck |-> n]
      /\ IF fires THEN emz_request_reset ELSE UNCHANGED gate
      /\ WdUnchanged

\* RX drops without progress, or TX frames in flight with no completion for
\* EMZ_TX_STALL_TICKS periods, ask for a rebuild and leave the watchdog off.
emz_watchdog(carrier, rx_stalled) ==
  LET stuck == tx_head # tx_tail /\ tx_tail = wd.tail /\ carrier
      n     == IF stuck THEN wd.stuck + 1 ELSE 0
  IN  /\ wd.armed
      /\ IF rx_stalled \/ n >= StallTicks
         THEN wd' = WdOff /\ emz_request_reset
         ELSE /\ wd' = [armed |-> TRUE, tail |-> tx_tail, stuck |-> n]
              /\ UNCHANGED gate
      /\ WdUnchanged

\* The stack's timeout of a stopped queue.
emz_tx_timeout ==
  /\ running /\ queue_stopped /\ datapath_up /\ xmit = "idle"
  /\ emz_request_reset
  /\ UNCHANGED wd
  /\ WdUnchanged

Next ==
  \/ XmitEnter \/ Xmit \/ Napi
  \/ DmaHalt \/ emz_tx_dma_done \/ emz_rx_dma_failed
  \/ \E starts \in BOOLEAN : DmaComplete(starts)
  \/ emz_reset_work \/ emz_open \/ emz_stop \/ emz_csum_config \/ CtlStep
  \/ \E carrier \in Carriers, rx_stalled \in CanFail :
       emz_watchdog(carrier, rx_stalled)
  \/ emz_tx_timeout

Spec == Init /\ [][Next]_vars

\* Code that has started runs on; the workqueue, NAPI and the watchdog's timer
\* run what is scheduled; a channel that has not stopped completes.  The queue's
\* lock is a queued spinlock and a batch has a last frame: netif_tx_disable gets
\* the lock although frames keep coming, hence SF.
Fairness ==
  /\ WF_vars(Xmit) /\ WF_vars(batch /\ XmitEnter) /\ SF_vars(XmitFlush(FALSE))
  /\ WF_vars(Napi)
  /\ WF_vars(emz_tx_dma_done)
  /\ WF_vars(~halted /\ \E starts \in BOOLEAN : DmaComplete(starts))
  /\ WF_vars(emz_reset_work) /\ WF_vars(CtlStep) /\ SF_vars(CtlQuiesce)
  /\ WF_vars(\E carrier \in Carriers : emz_watchdog(carrier, FALSE))

LiveSpec == Spec /\ Fairness

-----------------------------------------------------------------------------
\* What BQL holds is what is between netdev_sent_queue and
\* netdev_completed_queue: it never goes below zero, which the kernel treats as
\* a bug.
BqlMatchesRing ==
  (napi_state # "off") =>
     bql = Minus(tx_head, IF napi.at = "release" THEN napi.tail ELSE tx_tail)
             + (IF xmit = "publish" THEN 1 ELSE 0)

\* "whoever sees the failed slot sees the gate": a slot whose frame failed is not
\* filled again before the rings are rebuilt.
FailedSlotNotReused ==
  [][(xmit = "gate" /\ xmit' = "publish") => ~slot[tx_head % Ring].failed]_vars

\* A slot the channel still has to read or report is neither filled nor freed.
ChannelOwnsSlots ==
  /\ \A k \in 1 .. Len(submitted) : ~slot[submitted[k]].done
  /\ \A k \in 1 .. Len(active) : ~slot[active[k]].done
  /\ datapath_up =>
       \A i \in {submitted[k] : k \in 1 .. Len(submitted)}
                 \cup {active[k] : k \in 1 .. Len(active)} : i \in InFlight

\* A closed gate on a running datapath has a rebuild coming: frames are not
\* dropped for ever.
GateIsServed ==
  (reset_pending /\ datapath_up) =>
     work_queued \/ xmit = "work" \/ cb.at = "work"

\* While the datapath is up the watchdog is armed or has asked for a rebuild.
WatchdogKept == datapath_up => wd.armed \/ reset_pending

\* From netif_tx_disable to the end of the rebuild no frame enters the driver
\* and nothing wakes the queue.
QuietDuringRebuild ==
  ctl.at \in {"drain", "wait", "stop", "clear", "alloc", "post", "flush",
              "enable", "wake", "fail"} =>
     queue_stopped /\ xmit = "idle" /\ (ctl.at # "wake" => napi.at = "idle")

\* When the drain has seen every slot done, tx_head - tx_failed is the number of
\* frames the DMA handed on: the count the MAC's own is compared with.
DrainCountExact ==
  (ctl.at = "wait" /\ \A i \in InFlight : slot[i].done) =>
     Minus(tx_head, tx_failed) = handed

\* The slots, BQL and the channel agree on what is in flight, at every point
\* between two steps of xmit, NAPI, the callback and a rebuild.
RingConsistent ==
  TypeOK /\ BqlMatchesRing /\ ChannelOwnsSlots /\ DrainCountExact

\* No failure is forgotten: a closed gate has its rebuild queued, and a datapath
\* that is up has its watchdog.
RecoveryKept == GateIsServed /\ WatchdogKept

\* A rebuild comes whenever it is needed, and nothing disturbs it while it runs
\* (emaczero.c 389-413, 1218-1401).
RebuildSound == RecoveryKept /\ QuietDuringRebuild

\* A poll that has yet to look at the ring.
PollToCome ==
  \/ napi_state = "missed"
  \/ napi_state = "sched" /\ napi.at \in {"idle", "loop", "bql", "release"}

\* A queue stopped because the last slot was filled always has somebody who will
\* wake it without the help of the stack's timeout: xmit has yet to look again, or
\* NAPI is at its own look, or too few slots are free and a descriptor, a callback
\* or a poll is under way to free more.
FullQueueHasWaker ==
  (queue = "full" /\ datapath_up /\ ctl.at = "idle") =>
     \/ xmit \in {"issue", "recheck", "start"}
     \/ napi.at \in {"check", "wake"}
     \/ /\ emz_tx_free < Wake
        /\ active # << >> \/ cb.at # "idle" \/ PollToCome

\* A channel that stopped is rebuilt, with or without a failed completion.
HaltRecovered == halted ~> ~halted

\* However it was stopped, the queue of a running datapath runs again without the
\* help of the stack's timeout, as the barrier comments of emz_tx_complete and
\* emz_start_xmit have it: "pairs with the barrier in emz_start_xmit() after it
\* stops the queue".
EveryStopIsPaired ==
  (queue_stopped /\ datapath_up) ~> (~queue_stopped \/ ~datapath_up)
=============================================================================
