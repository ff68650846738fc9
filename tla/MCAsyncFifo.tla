---------------------------- MODULE MCAsyncFifo -----------------------------
(* CrossingFifo with the Gray code of the source, tabulated once. *)
EXTENDS CrossingFifo

CONSTANTS MCWidth, MaxWidth

Coding(w) == INSTANCE GrayCode WITH Width <- w

\* What GrayAssumption asks of a coding, asked of the source's for every pointer width up
\* to MaxWidth, whatever the depth of the FIFO in the run.
ASSUME SourceCodesAreGray ==
  \A w \in 2 .. MaxWidth :
    LET Gr(p) == Coding(w)!bin2gray(p)
        n     == 2 ^ w
    IN  \A p \in 0 .. n - 1 :
          /\ Coding(w)!gray2bin(Gr(p)) = p
          /\ Coding(w)!invertTop2(Gr(p)) = Gr((p + n \div 2) % n)
          /\ Coding(w)!Mixed(Gr(p), Gr((p + 1) % n)) = {Gr(p), Gr((p + 1) % n)}

G == INSTANCE GrayCode WITH Width <- MCWidth

GrayTable == [p \in G!Codes |-> G!bin2gray(p)]
BinTable  == [c \in G!Codes |-> G!gray2bin(c)]
FullTable == [c \in G!Codes |-> G!invertTop2(c)]
TornTable == [c \in G!Codes \X G!Codes |-> G!Mixed(c[1], c[2])]

MCGray(p)        == GrayTable[p]
MCBin(c)         == BinTable[c]
MCFullCode(c)    == FullTable[c]
MCTorn(old, new) == TornTable[<<old, new>>]
=============================================================================
