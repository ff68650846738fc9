------------------------------ MODULE GrayCode ------------------------------
(***************************************************************************)
(* The coding functions of rtl/async_fifo.v over codes of Width bits, and  *)
(* the definition of a Gray code they are checked against.                 *)
(***************************************************************************)
EXTENDS Naturals, Bitwise

CONSTANT Width      \* ADDR_WIDTH + 1

Codes == 0 .. 2 ^ Width - 1

bin2gray(b) == b ^^ shiftR(b, 1)

\* b ^ (g >> 1) ^ ... ^ (g >> ADDR_WIDTH), folded from the most shifted term.
gray2bin(g) ==
  LET b[i \in 0 .. Width - 1] ==
        IF i = 0 THEN g ELSE b[i - 1] ^^ shiftR(g, i)
  IN  b[Width - 1]

\* {~g[ADDR_WIDTH:ADDR_WIDTH-1], g[ADDR_WIDTH-2:0]}
invertTop2(g) == g ^^ (2 ^ (Width - 1) + 2 ^ (Width - 2))

\* A bank of flip-flops that samples a register as it goes from `old' to `new'
\* gets each changing bit from before or from after.
Mixed(old, new) ==
  IF old = new THEN {old}
  ELSE {c \in Codes : (c ^^ old) & (old ^^ new) = (c ^^ old)}
=============================================================================
