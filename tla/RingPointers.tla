---------------------------- MODULE RingPointers ----------------------------
(***************************************************************************)
(* The pointers of the FIFOs: ADDR_WIDTH+1 bit counters over a memory of   *)
(* Depth = 2^ADDR_WIDTH words.  They count modulo 2*Depth, and their low   *)
(* bits address the memory, so that full and empty can be told apart.      *)
(***************************************************************************)
EXTENDS Naturals

CONSTANTS Depth,      \* 1 << ADDR_WIDTH
          Word,       \* the words a user may write
          Garbage     \* what a cell holds before its first write

ASSUME FifoAssumption == Depth \in Nat \ {0} /\ Word # {} /\ Garbage \notin Word

Ptr == 0 .. 2 * Depth - 1

Inc(p) == IF p = 2 * Depth - 1 THEN 0 ELSE p + 1

Plus(p, n) == IF p + n >= 2 * Depth THEN p + n - 2 * Depth ELSE p + n

\* How far b is ahead of a: the ADDR_WIDTH+1 bit difference b - a.
Dist(a, b) == IF b >= a THEN b - a ELSE b + 2 * Depth - a

Addr(p) == IF p >= Depth THEN p - Depth ELSE p
=============================================================================
