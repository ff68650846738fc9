----------------------------- MODULE AsyncFifo ------------------------------
(***************************************************************************)
(* rtl/async_fifo.v: the FIFO between two clock domains.  Each side owns   *)
(* one pointer and sees the other through a Gray code and two synchroniser *)
(* flip-flops, so it always works with an old value of it.                 *)
(*                                                                         *)
(* One step is a write-clock edge, a read-clock edge, or both at once.  In *)
(* the last case the first flip-flop samples a register while it changes,  *)
(* and each bit that changes may be caught before or after: the value it   *)
(* settles to is any member of Torn(old, new).  The coding is a parameter, *)
(* of which CrossingFifo states what is needed; GrayCode gives the one of  *)
(* the source.                                                             *)
(***************************************************************************)
EXTENDS RingPointers, Sequences

CONSTANTS Block,          \* RAM_STYLE = "BLOCK"
          Gray(_),        \* bin2gray
          Bin(_),         \* gray2bin
          FullCode(_),    \* a code with its two top bits inverted
          Torn(_, _)      \* what a flip-flop catches of a changing code

VARIABLES
  mem,
  wr_ptr, rd_ptr,         \* wr_ptr_bin, rd_ptr_bin; the _gray registers are
                          \* loaded with them and hold Gray of them
  rd_sync1, rd_sync2,     \* rd_ptr_gray_sync1, 2 in the write domain
  wr_sync1, wr_sync2,     \* wr_ptr_gray_sync1, 2 in the read domain
  head_q, head_valid      \* the output stage (Block only)

wrSide == <<mem, wr_ptr, rd_sync1, rd_sync2>>
rdSide == <<rd_ptr, wr_sync1, wr_sync2, head_q, head_valid>>
vars   == <<wrSide, rdSide>>

Code == {Gray(p) : p \in Ptr}

-----------------------------------------------------------------------------
WrFull == Gray(wr_ptr) = FullCode(rd_sync2)

WrDataCount == Dist(Bin(rd_sync2), wr_ptr)

MemEmpty == Gray(rd_ptr) = wr_sync2

\* Mutant: the output stage is refilled only by a pop.
MemRdOnPop(rd_en) == ~MemEmpty /\ rd_en /\ (Block => head_valid)

MemRd(rd_en) == ~MemEmpty /\ (IF Block THEN ~head_valid \/ rd_en ELSE rd_en)

RdEmpty == IF Block THEN ~head_valid ELSE MemEmpty

RdData == IF Block THEN head_q ELSE mem[Addr(rd_ptr)]

Init ==
  /\ mem = [a \in 0 .. Depth - 1 |-> Garbage]
  /\ wr_ptr = 0 /\ rd_ptr = 0
  /\ rd_sync1 = Gray(0) /\ rd_sync2 = Gray(0)
  /\ wr_sync1 = Gray(0) /\ wr_sync2 = Gray(0)
  /\ head_q = Garbage /\ head_valid = FALSE

\* A write-clock edge at which the first synchroniser catches `seen'.
WrEdge(wr_en, w, seen) ==
  /\ rd_sync1' = seen
  /\ rd_sync2' = rd_sync1
  /\ IF wr_en /\ ~WrFull
     THEN /\ mem' = [mem EXCEPT ![Addr(wr_ptr)] = w]
          /\ wr_ptr' = Inc(wr_ptr)
     ELSE UNCHANGED <<mem, wr_ptr>>

\* Mutant: the second flip-flop is bypassed.
RdEdgeOneFlop(rd_en, seen) ==
  /\ wr_sync1' = seen
  /\ wr_sync2' = seen
  /\ rd_ptr' = IF MemRd(rd_en) THEN Inc(rd_ptr) ELSE rd_ptr
  /\ IF Block
     THEN /\ head_q' = IF MemRd(rd_en) THEN mem[Addr(rd_ptr)] ELSE head_q
          /\ head_valid' = (MemRd(rd_en) \/ (head_valid /\ ~rd_en))
     ELSE UNCHANGED <<head_q, head_valid>>

\* A read-clock edge at which the first synchroniser catches `seen'.
RdEdge(rd_en, seen) ==
  /\ wr_sync1' = seen
  /\ wr_sync2' = wr_sync1
  /\ rd_ptr' = IF MemRd(rd_en) THEN Inc(rd_ptr) ELSE rd_ptr
  /\ IF Block
     THEN /\ head_q' = IF MemRd(rd_en) THEN mem[Addr(rd_ptr)] ELSE head_q
          /\ head_valid' = (MemRd(rd_en) \/ (head_valid /\ ~rd_en))
     ELSE UNCHANGED <<head_q, head_valid>>

WrClock(wr_en, w) == WrEdge(wr_en, w, Gray(rd_ptr)) /\ UNCHANGED rdSide

RdClock(rd_en) == RdEdge(rd_en, Gray(wr_ptr)) /\ UNCHANGED wrSide

BothClocks(wr_en, w, rd_en) ==
  /\ \E c \in Torn(Gray(rd_ptr), Gray(IF MemRd(rd_en) THEN Inc(rd_ptr)
                                                      ELSE rd_ptr)) :
       WrEdge(wr_en, w, c)
  /\ \E c \in Torn(Gray(wr_ptr), Gray(IF wr_en /\ ~WrFull THEN Inc(wr_ptr)
                                                          ELSE wr_ptr)) :
       RdEdge(rd_en, c)

\* A clock edge of one side, and of both at once; din matters only to a write.
WrTick == \/ WrClock(FALSE, Garbage)
          \/ \E w \in Word : WrClock(TRUE, w)
RdTick == \E rd_en \in BOOLEAN : RdClock(rd_en)
Tick   == \E rd_en \in BOOLEAN : \/ BothClocks(FALSE, Garbage, rd_en)
                                 \/ \E w \in Word : BothClocks(TRUE, w, rd_en)

Next == WrTick \/ RdTick \/ Tick

Spec == Init /\ [][Next]_vars

-----------------------------------------------------------------------------
MemOcc == Dist(rd_ptr, wr_ptr)

\* The words in the memory, and all the words the FIFO holds, oldest first.
InMemory == [i \in 1 .. MemOcc |-> mem[Addr(Plus(rd_ptr, i - 1))]]
OutStage == IF head_valid THEN <<head_q>> ELSE << >>
Contents == OutStage \o InMemory

Queue == INSTANCE BoundedQueue
           WITH q <- Contents, Capacity <- IF Block THEN Depth + 1 ELSE Depth

\* Through stale and torn pointers both sides still see one bounded queue: every
\* word written while not full comes out once and in order.
ImplementsQueue == Queue!Spec

Crossing == INSTANCE CdcFifo
              WITH q <- InMemory, head <- OutStage,
                   seen1 <- Dist(rd_ptr, Bin(wr_sync1)),
                   seen2 <- Dist(rd_ptr, Bin(wr_sync2)),
                   lag1 <- Dist(Bin(rd_sync1), rd_ptr),
                   lag2 <- Dist(Bin(rd_sync2), rd_ptr)

\* The Gray-coded pointers and their synchronisers are exactly the queue with
\* lagging views that the crossings of the MAC are modelled with: neither side
\* ever sees the other ahead of the truth, nor more than its two flip-flops late.
ImplementsCrossing == Crossing!Spec

\* One FIFO, seen in both ways: what its two users rely on (async_fifo.v 47-174).
ImplementsFifo == ImplementsQueue /\ ImplementsCrossing

\* Neither side waits for the other's traffic: a word written becomes visible to
\* the reader without any further write, and space freed by the reader becomes
\* visible to the writer without any further read.
NothingStuck ==
  /\ (MemOcc > 0) ~> ~RdEmpty
  /\ (MemOcc < Depth) ~> ~WrFull
=============================================================================
