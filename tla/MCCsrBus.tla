------------------------------ MODULE MCCsrBus ------------------------------
(***************************************************************************)
(* Instances of CsrBus for TLC.                                            *)
(***************************************************************************)
EXTENDS CsrBus

\* Register 0 for the processor, 2 for the bridge, none before the first command:
\* an answer tells which command it is for.
MCPhyRegs == {{0}}

\* The bridge writes part of CTRL and starts MDIO transactions of its own.
MCWrites == {Item("CTRL", {0, 8}, {0}), Item("MDIO_CMD", {2, 11}, 0 .. 3)}
MCReads  == {"CTRL"}

\* The bridge acknowledges tx_done while frames come and go.
MCAck  == {Item("IRQ_STATUS", {0}, {0})}
MCTxRx == {0, 1}
MCNone == {}
=============================================================================
