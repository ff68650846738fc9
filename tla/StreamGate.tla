------------------------------ MODULE StreamGate ------------------------------
(***************************************************************************)
(* The CTRL.tx_en and CTRL.rx_en gates of eth_mac_sys.v (lines 255-322 and *)
(* 325-362).  The two are the same circuit: en_eff is the enable bit as    *)
(* applied to the current frame, mid says that a frame is part-way across. *)
(* They differ in what a closed gate does with its upstream stream: the    *)
(* transmit gate holds the source back (s_axis_tready low), the receive    *)
(* gate swallows what the MAC sends (m_axis_tready_mac high): drains says  *)
(* which of the two this is.                                               *)
(*                                                                         *)
(* A beat is its number in its frame.  One step is one rising edge of clk; *)
(* the offered beat, the downstream ready and the CSR bit are registers of *)
(* the neighbours, so the values they take are chosen at each edge.        *)
(***************************************************************************)
EXTENDS Naturals

CONSTANTS TXRX_EN_AT_RESET,  \* the reset value of the enable bit
          MaxBeats           \* bound on the beats of a frame

ASSUME GateAssumption == /\ TXRX_EN_AT_RESET \in BOOLEAN
                         /\ MaxBeats \in Nat \ {0}

VARIABLES drains,     \* the gate drains its upstream when closed (RX) or holds it (TX)
          cfg_en,     \* the CTRL bit
          en_eff,     \* tx_en_eff / rx_en_eff
          mid,        \* tx_mid / rx_mid
          offered,    \* the upstream beat: valid, its number, tlast
          taken,      \* beats of the current frame the gate took from upstream
          down_ready, \* downstream tready
          passed      \* beats of the current frame that downstream received

vars == <<drains, cfg_en, en_eff, mid, offered, taken, down_ready, passed>>

Beats == [valid : BOOLEAN, beat : 1 .. MaxBeats, last : BOOLEAN]
Idle  == [valid |-> FALSE, beat |-> 1, last |-> FALSE]

Init == /\ drains \in BOOLEAN
        /\ cfg_en = TXRX_EN_AT_RESET
        /\ en_eff = TXRX_EN_AT_RESET
        /\ mid = FALSE
        /\ offered = Idle
        /\ taken = 0
        /\ down_ready \in BOOLEAN
        /\ passed = 0

(* What the gate shows on its two sides. *)
down_valid == offered.valid /\ en_eff
up_ready   == IF en_eff THEN down_ready ELSE drains

Takes    == offered.valid /\ up_ready
Delivers == down_valid /\ down_ready

(* tx_mid_next / rx_mid_next, tx_hold / rx_hold *)
mid_next == IF Takes THEN ~offered.last ELSE mid
hold     == offered.valid /\ en_eff /\ ~down_ready

(* Mutant: only a part-way frame keeps the gate as it is. *)
FollowWithoutHold == en_eff' = IF mid_next THEN en_eff ELSE cfg_en

(* Mutant: the gate looks at mid before the edge. *)
FollowLate == en_eff' = IF mid \/ hold THEN en_eff ELSE cfg_en

(* Mutant: the gate opens between frames and never closes again. *)
FollowOpenOnly == en_eff' = (en_eff \/ (~mid_next /\ ~hold /\ cfg_en))

Follow == en_eff' = IF mid_next \/ hold THEN en_eff ELSE cfg_en

(* The stream upstream of the gate: a beat stays until it is taken and     *)
(* beats follow in order; the last beat the bound allows closes its frame. *)
NextBeat == IF ~Takes THEN taken
            ELSE IF offered.last THEN 0 ELSE taken + 1

Upstream ==
  /\ taken' = NextBeat
  /\ \/ /\ offered.valid /\ ~Takes
        /\ UNCHANGED offered
     \/ /\ Takes \/ ~offered.valid
        /\ \/ offered' = Idle
           \/ \E last \in BOOLEAN :
                /\ NextBeat + 1 = MaxBeats => last
                /\ offered' = [valid |-> TRUE, beat |-> NextBeat + 1, last |-> last]

Downstream ==
  /\ down_ready' \in BOOLEAN
  /\ passed' = IF ~Delivers THEN passed
               ELSE IF offered.last THEN 0 ELSE offered.beat

Next == /\ cfg_en' \in BOOLEAN
        /\ mid' = mid_next
        /\ Follow
        /\ Upstream
        /\ Downstream
        /\ UNCHANGED drains

Spec == Init /\ [][Next]_vars

(***************************************************************************)
(* The clock runs, the upstream finishes the frames it starts and the      *)
(* downstream is ready again and again.                                    *)
(***************************************************************************)
LiveSpec == /\ Spec
            /\ WF_vars(Next)
            /\ SF_vars(Next /\ offered'.valid /\ offered'.last)
            /\ SF_vars(Next /\ down_ready')

-----------------------------------------------------------------------------
TypeOK == /\ drains \in BOOLEAN
          /\ cfg_en \in BOOLEAN
          /\ en_eff \in BOOLEAN
          /\ mid \in BOOLEAN
          /\ offered \in Beats
          /\ taken \in 0 .. MaxBeats - 1
          /\ down_ready \in BOOLEAN
          /\ passed \in 0 .. MaxBeats - 1

(* The inductive invariant: mid is what the gate took, the offered beat is *)
(* the next one, and downstream has of the current frame all or nothing.   *)
GateInv == /\ TypeOK
           /\ mid <=> taken # 0
           /\ offered.valid => /\ offered.beat = taken + 1
                               /\ offered.beat = MaxBeats => offered.last
           /\ en_eff => passed = taken
           /\ ~en_eff => passed = 0

(* Downstream sees whole frames only, however the CTRL bit moves: the beat  *)
(* it is shown is the one after the last it received, so no frame misses    *)
(* its start, and a frame that has begun finds the gate open until its      *)
(* tlast, so the cut-through framer never starves because software cleared  *)
(* tx_en and the consumer never waits for a tlast that was swallowed        *)
(* (eth_mac_sys.v 258-266, 325-332).                                        *)
WholeFrames == /\ down_valid => offered.beat = passed + 1
               /\ passed # 0 => en_eff

(* A beat shown and not taken is still shown, the same, after the edge: the *)
(* AXI-Stream rule that tx_hold and rx_hold are for.                        *)
ValidKept == [][down_valid /\ ~down_ready => down_valid' /\ offered' = offered]_vars

(* A bit that software leaves alone is applied in the end, on and off, with *)
(* frames queued back to back the whole time.                               *)
SettingApplied == /\ <>[](~cfg_en) => <>[](~en_eff)
                  /\ <>[]cfg_en => <>[]en_eff
=============================================================================
