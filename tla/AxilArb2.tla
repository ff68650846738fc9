------------------------------ MODULE AxilArb2 ------------------------------
(***************************************************************************)
(* rtl/axil_arb2.v: two AXI4-Lite masters on one slave.  Writes and reads  *)
(* are granted independently; a grant is registered, taken by AWVALID (or  *)
(* ARVALID), master 0 first, and held until the B (or R) handshake.        *)
(***************************************************************************)
EXTENDS Naturals

VARIABLES arbitrated,           \* FALSE: no arbiter, master 0 is wired to the slave
          w_busy, w_sel, r_busy, r_sel

arb == <<arbitrated, w_busy, w_sel, r_busy, r_sel>>

Masters == IF arbitrated THEN {0, 1} ELSE {0}

ArbInit ==
  /\ arbitrated \in BOOLEAN
  /\ w_busy = FALSE /\ w_sel = 0 /\ r_busy = FALSE /\ r_sel = 0

\* w_g0 / w_g1 and r_g0 / r_g1.
WGrant(m) == arbitrated => w_busy /\ w_sel = m
RGrant(m) == arbitrated => r_busy /\ r_sel = m

\* The master whose signals the slave sees.
WMux == IF arbitrated /\ WGrant(1) THEN 1 ELSE 0
RMux == IF arbitrated /\ RGrant(1) THEN 1 ELSE 0

\* Mutant: a grant is not released by the response.
GrantKept(busy, sel, request, handshake) ==
  IF ~busy /\ request # {} /\ arbitrated
  THEN <<TRUE, IF 0 \in request THEN 0 ELSE 1>>
  ELSE <<busy, sel>>

\* One channel's <<busy, sel>> after a clock: request is the set of masters
\* with AWVALID (ARVALID), handshake the slave's B (R) handshake.
Grant(busy, sel, request, handshake) ==
  IF ~busy /\ request # {} /\ arbitrated
  THEN <<TRUE, IF 0 \in request THEN 0 ELSE 1>>
  ELSE IF busy /\ handshake THEN <<FALSE, sel>>
  ELSE <<busy, sel>>

ArbStep(awvalid, b_handshake, arvalid, r_handshake) ==
  LET w == Grant(w_busy, w_sel, awvalid, b_handshake)
      r == Grant(r_busy, r_sel, arvalid, r_handshake) IN
  /\ w_busy' = w[1] /\ w_sel' = w[2]
  /\ r_busy' = r[1] /\ r_sel' = r[2]
  /\ UNCHANGED arbitrated
=============================================================================
