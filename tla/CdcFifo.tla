------------------------------ MODULE CdcFifo -------------------------------
(***************************************************************************)
(* async_fifo as its two clock domains see it, without pointers: a queue,  *)
(* and how far behind the truth each side is.  AsyncFifo implements it;    *)
(* the crossings of the MAC are built on it.                               *)
(*                                                                         *)
(* One Edge is a write-clock edge, a read-clock edge or both at once; in   *)
(* the last case a synchroniser catches the other side before or after its *)
(* change.                                                                 *)
(***************************************************************************)
EXTENDS Naturals, Sequences

CONSTANTS Depth, Word, Block

VARIABLES q,              \* the words in the memory, oldest first
          head,           \* the output stage (Block): at most one word
          seen1, seen2,   \* words of q the reader's synchronisers know of
          lag1, lag2      \* words taken that the writer's do not know of yet

vars == <<q, head, seen1, seen2, lag1, lag2>>

WrCount == Len(q) + lag2

WrFull == WrCount = Depth

MemRd(rd_en) == seen2 > 0 /\ (IF Block THEN head = << >> \/ rd_en ELSE rd_en)

RdEmpty == IF Block THEN head = << >> ELSE seen2 = 0

RdData == IF Block THEN head[1] ELSE q[1]

Edge(wrclk, wr_en, w, rdclk, rd_en) ==
  LET put  == wrclk /\ wr_en /\ ~WrFull
      take == rdclk /\ MemRd(rd_en)
      t    == IF take THEN 1 ELSE 0
      rest == IF take THEN Tail(q) ELSE q
  IN  /\ q' = IF put THEN Append(rest, w) ELSE rest
      /\ head' = IF Block /\ take THEN <<Head(q)>>
                 ELSE IF rdclk /\ rd_en THEN << >> ELSE head
      /\ seen2' = IF rdclk THEN seen1 - t ELSE seen2
      /\ seen1' \in IF rdclk THEN {Len(rest), Len(q')} ELSE {seen1}
      /\ lag2' = t + (IF wrclk THEN lag1 ELSE lag2)
      /\ lag1' \in IF wrclk THEN {0, t} ELSE {lag1 + t}

Init ==
  /\ q = << >> /\ head = << >>
  /\ seen1 = 0 /\ seen2 = 0
  /\ lag1 = 0 /\ lag2 = 0

Next ==
  \/ \E rd_en \in BOOLEAN, w \in Word : Edge(FALSE, FALSE, w, TRUE, rd_en)
  \/ \E wr_en, rdclk, rd_en \in BOOLEAN, w \in Word :
       Edge(TRUE, wr_en, w, rdclk, rd_en)

Spec == Init /\ [][Next]_vars
=============================================================================
