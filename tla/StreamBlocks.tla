---------------------------- MODULE StreamBlocks ----------------------------
(***************************************************************************)
(* The blocks that live in one clock domain and end in a stream - the      *)
(* enable gates, the transmit framer and the synchronous FIFO - side by    *)
(* side: they share no state, so each behaviour is one of them running in  *)
(* an environment that does what its interface allows.                     *)
(***************************************************************************)
EXTENDS StreamGate, EthMacTxParams, RingPointers, Sequences

VARIABLES block,      \* the one that runs
          state, count, data_cnt, stall_cnt, first, frame_ended, crc_accum, crc_saved,
          tready, gmii, src, wire, gap, tx_taken, er_seen, cut,
          mem, wr_ptr, rd_ptr, dout_r, dout_valid_r

Tx   == INSTANCE EthMacTx WITH taken <- tx_taken
Fifo == INSTANCE SyncFifo

txVars   == <<state, count, data_cnt, stall_cnt, first, frame_ended, crc_accum, crc_saved,
              tready, gmii, src, wire, gap, tx_taken, er_seen, cut>>
fifoVars == <<mem, wr_ptr, rd_ptr, dout_r, dout_valid_r>>

BlocksInit == /\ block \in {"gate", "tx", "fifo"}
              /\ Init /\ Tx!Init /\ Fifo!Init
              /\ block # "gate" => ~drains /\ ~down_ready

RunGate == block = "gate" /\ Next /\ UNCHANGED <<block, txVars, fifoVars>>
RunTx   == block = "tx" /\ Tx!Next /\ UNCHANGED <<block, vars, fifoVars>>
RunFifo == block = "fifo" /\ Fifo!Next /\ UNCHANGED <<block, vars, txVars>>

BlocksNext == RunGate \/ RunTx \/ RunFifo

allVars == <<block, vars, txVars, fifoVars>>

(* The clock runs; the stream upstream of the gate finishes the frames it *)
(* starts and its downstream is ready again and again.                    *)
BlocksSpec == /\ BlocksInit /\ [][BlocksNext]_allVars
              /\ WF_allVars(RunGate) /\ WF_allVars(RunTx)
              /\ SF_allVars(RunGate /\ offered'.valid /\ offered'.last)
              /\ SF_allVars(RunGate /\ down_ready')

(* The promises of the framer and the FIFO, as their modules state them: a  *)
(* frame without tx_er is its source frame whole, with padding and FCS      *)
(* (eth_mac_tx.v 113-268),                                                  *)
WireFrameExact == Tx!WireFrameExact

(* it starts after the full gap (eth_mac_tx.v 250-264),                     *)
GapKept == Tx!GapKept

(* the framer comes back whatever the source does (eth_mac_tx.v 211-219),   *)
FrameEnds == Tx!FrameEnds

(* and the pointer FIFO is the queue its users rely on (sync_fifo.v 54-98). *)
ImplementsQueue == Fifo!ImplementsQueue
=============================================================================
