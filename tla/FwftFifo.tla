------------------------------ MODULE FwftFifo ------------------------------
(***************************************************************************)
(* What sync_fifo promises its user: a queue of at most Depth words in     *)
(* front of one first-word-fall-through output register.  One Clock step   *)
(* is one rising edge.  `count' is Len(q): the output register is not      *)
(* counted.                                                                *)
(***************************************************************************)
EXTENDS Naturals, Sequences

CONSTANTS Depth,      \* words held by the storage
          Word        \* the words a user may push

VARIABLES q,          \* the stored words, oldest first
          dout,       \* the output register
          dout_valid

vars == <<q, dout, dout_valid>>

IssueRead(rd_en) == q # << >> /\ (~dout_valid \/ rd_en)

PushOk(rd_en) == Len(q) # Depth \/ IssueRead(rd_en)

\* A push that finds no room is lost, and only then.
Overflow(wr_en, rd_en) == wr_en /\ ~PushOk(rd_en)

Clock(wr_en, w, rd_en) ==
  LET rest == IF IssueRead(rd_en) THEN Tail(q) ELSE q
  IN  /\ q' = IF wr_en /\ PushOk(rd_en) THEN Append(rest, w) ELSE rest
      /\ dout' = IF IssueRead(rd_en) THEN Head(q) ELSE dout
      /\ dout_valid' = (IssueRead(rd_en) \/ (dout_valid /\ ~rd_en))

Init == q = << >> /\ dout_valid = FALSE

Next == \E wr_en, rd_en \in BOOLEAN, w \in Word : Clock(wr_en, w, rd_en)

Spec == Init /\ [][Next]_vars
=============================================================================
