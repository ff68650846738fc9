------------------------------ MODULE SyncFifo ------------------------------
(***************************************************************************)
(* rtl/sync_fifo.v: the single-clock FIFO behind the receive path, with    *)
(* its memory, its two wrapping pointers of ADDR_WIDTH+1 bits and its      *)
(* output register.                                                        *)
(***************************************************************************)
EXTENDS RingPointers, Sequences

VARIABLES mem, wr_ptr, rd_ptr, dout_r, dout_valid_r

vars == <<mem, wr_ptr, rd_ptr, dout_r, dout_valid_r>>

Occ == Dist(rd_ptr, wr_ptr)

Empty == Occ = 0
Full  == Occ = Depth

Pop(rd_en) == dout_valid_r /\ rd_en

IssueRead(rd_en) == ~Empty /\ (~dout_valid_r \/ Pop(rd_en))

\* Mutant: a push into a full memory is not refused.
PushOkUnchecked(wr_en, rd_en) == wr_en

PushOk(wr_en, rd_en) == wr_en /\ (~Full \/ IssueRead(rd_en))

Init ==
  /\ mem = [a \in 0 .. Depth - 1 |-> Garbage]
  /\ wr_ptr = 0
  /\ rd_ptr = 0
  /\ dout_r = Garbage
  /\ dout_valid_r = FALSE

Clock(wr_en, w, rd_en) ==
  /\ mem' = IF PushOk(wr_en, rd_en) THEN [mem EXCEPT ![Addr(wr_ptr)] = w]
                                    ELSE mem
  /\ wr_ptr' = IF PushOk(wr_en, rd_en) THEN Inc(wr_ptr) ELSE wr_ptr
  /\ rd_ptr' = IF IssueRead(rd_en) THEN Inc(rd_ptr) ELSE rd_ptr
  /\ dout_r' = IF IssueRead(rd_en) THEN mem[Addr(rd_ptr)] ELSE dout_r
  /\ dout_valid_r' = (IssueRead(rd_en) \/ (dout_valid_r /\ ~Pop(rd_en)))

Next == \E wr_en, rd_en \in BOOLEAN, w \in Word : Clock(wr_en, w, rd_en)

Spec == Init /\ [][Next]_vars

-----------------------------------------------------------------------------
\* The memory between the pointers, oldest word first.
Stored == [i \in 1 .. Occ |-> mem[Addr(Plus(rd_ptr, i - 1))]]

Abstract == INSTANCE FwftFifo
              WITH q <- Stored, dout <- dout_r, dout_valid <- dout_valid_r

\* The pointer machine is the promised queue: words leave in the order they
\* were pushed, none is lost while the FIFO accepts it, none is duplicated when
\* the pointers wrap, and a push into a full FIFO succeeds exactly when a slot
\* is freed in the same cycle (push_ok).
ImplementsQueue == Abstract!Spec

=============================================================================
