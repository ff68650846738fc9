---------------------------- MODULE CrossingFifo ----------------------------
(***************************************************************************)
(* The FIFO between two clock domains as a part of its own, beside the     *)
(* FIFO of one domain: what its coding has to satisfy, how its two clocks  *)
(* run and what it promises.                                               *)
(***************************************************************************)
EXTENDS RingPointers

CONSTANTS Block, Gray(_), Bin(_), FullCode(_), Torn(_, _)

ASSUME BlockAssumption == Block \in BOOLEAN

\* Consecutive pointers differ in one bit, so that a torn sample is the old or the
\* new code, and inverting the two top bits is adding Depth.
ASSUME GrayAssumption ==
  \A p \in Ptr :
    /\ Bin(Gray(p)) = p
    /\ FullCode(Gray(p)) = Gray(Plus(p, Depth))
    /\ Torn(Gray(p), Gray(p)) = {Gray(p)}
    /\ Torn(Gray(p), Gray(Inc(p))) = {Gray(p), Gray(Inc(p))}

VARIABLES cdc_mem, cdc_wr_ptr, cdc_rd_ptr,
          rd_sync1, rd_sync2, wr_sync1, wr_sync2, head_q, head_valid

Cdc == INSTANCE AsyncFifo
         WITH mem <- cdc_mem, wr_ptr <- cdc_wr_ptr, rd_ptr <- cdc_rd_ptr

\* Both clocks run; an edge that coincides with one of the other domain counts.
CrossingSpec == /\ Cdc!Spec
                /\ WF_(Cdc!vars)(Cdc!WrTick \/ Cdc!Tick)
                /\ WF_(Cdc!vars)(Cdc!RdTick \/ Cdc!Tick)

\* The promises of the FIFO, as its module states them: one queue seen from two
\* sides, each with a lagging view of the other (async_fifo.v 47-174),
ImplementsFifo == Cdc!ImplementsFifo

\* and neither side waits for the other's traffic (async_fifo.v 76-86, 163-172).
NothingStuck == Cdc!NothingStuck
=============================================================================
