--------------------------- MODULE EthMacTxParams ---------------------------
(***************************************************************************)
(* The parameters of rtl/eth_mac_tx.v and of its source.                   *)
(***************************************************************************)
EXTENDS Integers

CONSTANTS PreambleLen,  \* 7
          MinFrame,     \* 60
          MaxFrame,     \* MAX_FRAME
          IfgBytes,     \* 12
          StallMax,     \* 7: underrun cycles before the frame is given up
          MaxLen,       \* bound: longest frame of the source
          Bubbles       \* TRUE is in it if the source may pause inside a frame

ASSUME TxAssumption ==
  /\ PreambleLen \in Nat \ {0} /\ MinFrame \in Nat /\ MinFrame >= 2
  /\ MaxFrame \in Nat /\ IfgBytes \in Nat /\ IfgBytes >= 3
  /\ StallMax \in Nat /\ MaxLen \in Nat \ {0}
  /\ FALSE \in Bubbles /\ Bubbles \subseteq BOOLEAN
=============================================================================
