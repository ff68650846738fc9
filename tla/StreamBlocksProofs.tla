------------------------- MODULE StreamBlocksProofs -------------------------
(***************************************************************************)
(* Proofs about the stream blocks as they stand side by side: the CTRL     *)
(* gates show whole frames downstream, cut no frame and withdraw no valid, *)
(* for both kinds of gate and frames of any length; the transmit framer    *)
(* sends source frames whole and keeps the gap; the FIFO of one clock      *)
(* domain is the queue it promises; and so is the FIFO between two.        *)
(***************************************************************************)
EXTENDS StreamBlocks, CrossingFifo, Integers, FiniteSets, SequenceTheorems,
        FiniteSetTheorems, TLAPS

-----------------------------------------------------------------------------
(* The gates *)

\* Each step of the whole is a step of one block and leaves the others alone: what
\* a block does in it is a behaviour of the block alone.
LEMMA GateRuns == BlocksSpec => Spec
<1>1. BlocksInit => Init
  BY DEF BlocksInit
<1>2. [BlocksNext]_allVars => [Next]_vars
  BY DEF BlocksNext, RunGate, RunTx, RunFifo, allVars
<1> QED  BY <1>1, <1>2, PTL DEF BlocksSpec, Spec

\* The gate starts closed, with nothing offered.
LEMMA InitInv == Init => GateInv
<1> SUFFICES ASSUME Init PROVE GateInv
  OBVIOUS
<1>1. offered \in Beats /\ ~offered.valid
  BY GateAssumption DEF Init, Beats, Idle
<1>2. /\ taken = 0 /\ passed = 0
      /\ mid \in BOOLEAN /\ ~mid
      /\ drains \in BOOLEAN /\ cfg_en \in BOOLEAN /\ en_eff \in BOOLEAN /\ down_ready \in BOOLEAN
  BY GateAssumption DEF Init
<1>3. 0 \in 0 .. MaxBeats - 1
  BY GateAssumption
<1> QED BY <1>1, <1>2, <1>3 DEF GateInv, TypeOK

(* How the beat counters move at an edge. *)
LEMMA UpstreamKeeps ==
  ASSUME GateInv, Next
  PROVE  /\ taken' \in 0 .. MaxBeats - 1
         /\ offered' \in Beats
         /\ offered'.valid => /\ offered'.beat = taken' + 1
                              /\ offered'.beat = MaxBeats => offered'.last
<1> USE GateAssumption DEF GateInv, TypeOK, Beats
<1>1. NextBeat \in 0 .. MaxBeats - 1
  BY DEF NextBeat, Takes
<1>2. CASE offered.valid /\ ~Takes /\ UNCHANGED offered
  BY <1>1, <1>2 DEF Next, Upstream, NextBeat
<1>3. CASE offered' = Idle
  BY <1>1, <1>3 DEF Next, Upstream, Idle
<1>4. CASE \E last \in BOOLEAN :
             /\ NextBeat + 1 = MaxBeats => last
             /\ offered' = [valid |-> TRUE, beat |-> NextBeat + 1, last |-> last]
  <2>1. PICK last \in BOOLEAN :
             /\ NextBeat + 1 = MaxBeats => last
             /\ offered' = [valid |-> TRUE, beat |-> NextBeat + 1, last |-> last]
    BY <1>4
  <2>2. offered' \in Beats
    BY <1>1, <2>1
  <2>3. offered'.beat = NextBeat + 1 /\ offered'.last = last
    BY <2>1
  <2>4. taken' = NextBeat
    BY DEF Next, Upstream
  <2> QED BY <1>1, <2>1, <2>2, <2>3, <2>4
<1> QED BY <1>2, <1>3, <1>4 DEF Next, Upstream

(* mid follows the frame of the stream upstream of the gate. *)
LEMMA MidIsPartWay ==
  ASSUME GateInv, Next
  PROVE  mid' \in BOOLEAN /\ (mid' <=> taken' # 0)
<1> USE GateAssumption DEF GateInv, TypeOK, Beats
<1>1. taken' = NextBeat /\ mid' = mid_next
  BY DEF Next, Upstream
<1>2. CASE Takes
  <2>1. mid' = ~offered.last
    BY <1>1, <1>2 DEF mid_next
  <2>2. taken' = IF offered.last THEN 0 ELSE taken + 1
    BY <1>1, <1>2 DEF NextBeat
  <2>3. CASE offered.last
    BY <2>1, <2>2, <2>3
  <2>4. CASE ~offered.last
    <3>1. taken' # 0
      BY <2>2, <2>4
    <3>2. mid' = TRUE
      BY <2>1, <2>4, Zenon
    <3> QED BY <3>1, <3>2
  <2> QED BY <2>3, <2>4
<1>3. CASE ~Takes
  BY <1>1, <1>3 DEF mid_next, NextBeat
<1> QED BY <1>2, <1>3

(* Downstream has all of the current frame while the gate is open and      *)
(* nothing of it while the gate is closed.                                 *)
LEMMA AllOrNothing ==
  ASSUME GateInv, Next
  PROVE  /\ en_eff' \in BOOLEAN
         /\ en_eff' => passed' = taken'
         /\ ~en_eff' => passed' = 0
<1> USE GateAssumption DEF GateInv, TypeOK, Beats
<1>1. taken' = NextBeat /\ Follow /\ Downstream
  BY DEF Next, Upstream
<1>2. mid_next => taken' # 0
  BY MidIsPartWay DEF Next
<1>3. ~mid_next => taken' = 0
  BY MidIsPartWay DEF Next
<1>4. CASE en_eff
  <2>1. Takes <=> Delivers
    BY <1>4 DEF Takes, Delivers, up_ready, down_valid
  <2>2. passed' = taken'
    BY <1>1, <1>4, <2>1 DEF Downstream, NextBeat, Takes
  <2>3. hold => en_eff' = en_eff
    BY <1>1 DEF Follow
  <2>4. mid_next => en_eff' = en_eff
    BY <1>1 DEF Follow
  <2>5. ~mid_next /\ ~hold => en_eff' = cfg_en
    BY <1>1 DEF Follow
  <2>6. CASE hold
    BY <1>4, <2>2, <2>3, <2>6
  <2>7. CASE ~hold /\ mid_next
    BY <1>4, <2>2, <2>4, <2>7
  <2>8. CASE ~hold /\ ~mid_next
    BY <1>3, <2>2, <2>5, <2>8
  <2> QED BY <2>6, <2>7, <2>8
<1>5. CASE ~en_eff
  <2>1. passed' = 0
    BY <1>1, <1>5 DEF Downstream, Delivers, down_valid
  <2>2. ~hold
    BY <1>5 DEF hold
  <2>3. CASE mid_next
    BY <1>1, <1>5, <2>1, <2>3 DEF Follow
  <2>4. CASE ~mid_next
    <3>1. en_eff' = cfg_en
      BY <1>1, <2>2, <2>4 DEF Follow
    <3> QED BY <1>3, <2>1, <2>4, <3>1
  <2> QED BY <2>3, <2>4
<1> QED BY <1>4, <1>5

\* Every edge keeps the invariant of the gate.
LEMMA StepInv == GateInv /\ [Next]_vars => GateInv'
<1> SUFFICES ASSUME GateInv, [Next]_vars PROVE GateInv'
  OBVIOUS
<1>1. CASE Next
  <2>1. cfg_en' \in BOOLEAN /\ down_ready' \in BOOLEAN /\ drains' \in BOOLEAN
    BY <1>1 DEF Next, Downstream, GateInv, TypeOK
  <2>2. passed' \in 0 .. MaxBeats - 1
    BY <1>1, UpstreamKeeps, AllOrNothing, GateAssumption
  <2> QED BY <1>1, <2>1, <2>2, UpstreamKeeps, MidIsPartWay, AllOrNothing
          DEF GateInv, TypeOK
<1>2. CASE UNCHANGED vars
  BY <1>2 DEF vars, GateInv, TypeOK, Beats
<1> QED BY <1>1, <1>2

\* Every reachable state satisfies it.
LEMMA Invariant == Spec => []GateInv
BY InitInv, StepInv, PTL DEF Spec

(* For both gates of eth_mac_sys and frames of every length, downstream is *)
(* only ever shown the beat that follows what it has, and a frame it has   *)
(* begun finds the gate open, whenever software writes the CTRL bit.       *)
THEOREM GateShowsWholeFrames == BlocksSpec => []WholeFrames
<1>1. GateInv => WholeFrames
  BY DEF GateInv, TypeOK, WholeFrames, down_valid
<1> QED BY <1>1, Invariant, GateRuns, PTL

(* For both gates, a beat that is shown and not taken stays: tx_hold and   *)
(* rx_hold are enough to keep the AXI-Stream rule.                         *)
THEOREM GateKeepsValid == BlocksSpec => ValidKept
<1>1. GateInv /\ [Next]_vars =>
        [down_valid /\ ~down_ready => down_valid' /\ offered' = offered]_vars
  <2> SUFFICES ASSUME GateInv, Next, down_valid, ~down_ready
               PROVE  down_valid' /\ offered' = offered
    OBVIOUS
  <2>1. hold /\ ~Takes
    BY DEF hold, Takes, up_ready, down_valid
  <2>2. en_eff' = en_eff
    BY <2>1 DEF Next, Follow
  <2>3. offered' = offered
    BY <2>1 DEF Next, Upstream, down_valid
  <2> QED BY <2>2, <2>3 DEF down_valid
<1> QED BY <1>1, Invariant, GateRuns, PTL DEF Spec, ValidKept

-----------------------------------------------------------------------------
(* The blocks side by side *)

\* The framer of the whole runs as the framer alone.
LEMMA TxRuns == BlocksSpec => Tx!Spec
<1>1. BlocksInit => Tx!Init
  BY DEF BlocksInit
<1>2. [BlocksNext]_allVars => [Tx!Next]_(Tx!vars)
  BY DEF BlocksNext, RunGate, RunTx, RunFifo, allVars, txVars, Tx!vars, Tx!fsm
<1> QED  BY <1>1, <1>2, PTL DEF BlocksSpec, Tx!Spec

\* So does the FIFO.
LEMMA FifoRuns == BlocksSpec => Fifo!Spec
<1>1. BlocksInit => Fifo!Init
  BY DEF BlocksInit
<1>2. [BlocksNext]_allVars => [Fifo!Next]_(Fifo!vars)
  BY DEF BlocksNext, RunGate, RunTx, RunFifo, allVars, fifoVars, Fifo!vars
<1> QED  BY <1>1, <1>2, PTL DEF BlocksSpec, Fifo!Spec

-----------------------------------------------------------------------------
(* The transmit framer (rtl/eth_mac_tx.v), for every length of preamble,    *)
(* minimum and maximum frame, gap and source frame.                         *)

Positions == 0 .. MaxLen - 1
Kinds == {"none", "pre", "sfd", "data", "pad", "crc"}
Symbols == [kind : Kinds, n : Nat]

-----------------------------------------------------------------------------
(* Control: the FSM, the kept byte and the source *)

SourceInv ==
  /\ src \in [valid : BOOLEAN, last : BOOLEAN, pos : Positions]
  /\ src.last => src.valid
  /\ src.valid /\ src.pos = MaxLen - 1 => src.last

FsmTypes ==
  /\ state \in Tx!States
  /\ count \in Nat /\ data_cnt \in Nat
  /\ first \in [have : BOOLEAN, last : BOOLEAN, pos : Positions]
  /\ frame_ended \in BOOLEAN /\ tready \in BOOLEAN
  /\ crc_accum \in Nat /\ crc_saved \in Nat
  /\ gmii.en \in BOOLEAN /\ gmii.er \in BOOLEAN

HistoryTypes ==
  /\ gap \in 0 .. IfgBytes /\ tx_taken \in Nat
  /\ er_seen \in BOOLEAN /\ cut \in BOOLEAN

\* A byte is kept from S_IDLE to the first cycle of S_DATA and nowhere else; the
\* source is only told ready in S_IDLE and inside a frame.
ControlInv ==
  /\ first.have => ~tready /\ state \in {"IDLE", "PREAMBLE", "SFD", "DATA"}
  /\ state \in {"PREAMBLE", "SFD"} => first.have /\ ~frame_ended
  /\ state = "DATA" /\ first.have => data_cnt = 0 /\ ~frame_ended
  /\ tready => state \in {"IDLE", "DATA"}
  /\ state = "DATA" /\ frame_ended => ~tready
  /\ state = "PREAMBLE" => count < PreambleLen
  /\ state = "CRC" => count < 4
  /\ state = "IFG" => count <= IfgBytes - 3
  /\ state \in {"PREAMBLE", "SFD"} => crc_accum = 0
  /\ state \in {"DATA", "PAD"} => crc_accum = data_cnt

\* Where the line is driven, and for how long it has not been.
GapInv ==
  /\ state = "IDLE" => ~gmii.en /\ gap >= IfgBytes - 2
  /\ state = "IDLE" /\ tready => gap >= IfgBytes - 1
  /\ state = "IDLE" /\ first.have => gap = IfgBytes
  /\ state = "PREAMBLE" => (gmii.en <=> count # 0) /\ (count = 0 => gap = IfgBytes)
  /\ state \in {"SFD", "DATA", "PAD", "CRC"} => gmii.en
  /\ state = "IFG" => (gmii.en <=> count = 0) /\ gap = count
  /\ gmii.en => gap = 0

LineInv == SourceInv /\ FsmTypes /\ HistoryTypes /\ ControlInv /\ GapInv

\* What the source does at an edge: it moves to the next byte exactly if its byte was
\* accepted, and keeps to the longest frame.
LEMMA SourceMoves ==
  ASSUME SourceInv, tready \in BOOLEAN,
         NEW valid \in BOOLEAN, NEW last \in BOOLEAN, NEW bubble \in Bubbles,
         Tx!Source(valid, last, bubble)
  PROVE  /\ SourceInv'
         /\ ~Tx!Handshake => src'.pos = src.pos
         /\ Tx!Handshake => src'.pos = IF src.last THEN 0 ELSE src.pos + 1
PROOF
<1>0. /\ MaxLen \in Nat /\ MaxLen > 0
      /\ src.pos \in 0 .. MaxLen - 1 /\ src.valid \in BOOLEAN /\ src.last \in BOOLEAN
  BY TxAssumption DEF SourceInv, Positions
<1> DEFINE pos == IF ~Tx!Handshake THEN src.pos ELSE IF src.last THEN 0 ELSE src.pos + 1
<1>1. CASE src.valid /\ ~tready
  <2>1. src' = src  BY <1>1 DEF Tx!Source
  <2>2. ~Tx!Handshake  BY <1>1 DEF Tx!Handshake
  <2> QED  BY <2>1, <2>2 DEF SourceInv
<1>2. CASE ~(src.valid /\ ~tready)
  <2>1. /\ last => valid
        /\ (valid /\ pos = MaxLen - 1) => last
        /\ src' = [valid |-> valid, last |-> last, pos |-> pos]
    BY <1>2 DEF Tx!Source
  <2>2. pos \in Positions
    <3>1. CASE Tx!Handshake /\ ~src.last
      <4>1. src.pos # MaxLen - 1  BY <3>1 DEF SourceInv, Tx!Handshake
      <4>2. src.pos + 1 \in 0 .. MaxLen - 1  BY <4>1, <1>0
      <4> QED  BY <4>2, <3>1 DEF Positions
    <3>2. CASE Tx!Handshake /\ src.last
      <4>1. 0 \in 0 .. MaxLen - 1  BY <1>0
      <4> QED  BY <4>1, <3>2 DEF Positions
    <3>3. CASE ~Tx!Handshake  BY <3>3, <1>0 DEF Positions
    <3> QED  BY <3>1, <3>2, <3>3
  <2> HIDE DEF pos
  <2>3. src'.valid = valid /\ src'.last = last /\ src'.pos = pos  BY <2>1
  <2>4. SourceInv'  BY <2>1, <2>2, <2>3 DEF SourceInv
  <2> QED  BY <2>3, <2>4 DEF pos
<1> QED  BY <1>1, <1>2

\* What the histories do at an edge.
LEMMA ObserveKeepsTypes ==
  ASSUME HistoryTypes, Tx!Observe, gmii'.en \in BOOLEAN, gmii'.er \in BOOLEAN
  PROVE  /\ HistoryTypes'
         /\ gmii'.en => gap' = 0
         /\ ~gmii'.en => gap' = IF gap < IfgBytes THEN gap + 1 ELSE gap
PROOF
<1>0. /\ IfgBytes \in Nat /\ gap \in 0 .. IfgBytes /\ tx_taken \in Nat
      /\ er_seen \in BOOLEAN /\ cut \in BOOLEAN
  BY TxAssumption DEF HistoryTypes
<1>1. /\ gap' = IF gmii'.en THEN 0 ELSE IF gap < IfgBytes THEN gap + 1 ELSE gap
      /\ tx_taken' = IF wire # << >> /\ ~gmii'.en THEN 0
                  ELSE IF Tx!Handshake THEN tx_taken + 1 ELSE tx_taken
      /\ er_seen' = (gmii'.en /\ (er_seen \/ gmii'.er))
      /\ cut' = IF wire # << >> /\ ~gmii'.en THEN er_seen ELSE cut
  BY DEF Tx!Observe
<1>2. gap' \in 0 .. IfgBytes
  <2>1. gap < IfgBytes => gap + 1 \in 0 .. IfgBytes  BY <1>0
  <2>2. 0 \in 0 .. IfgBytes  BY <1>0
  <2> QED  BY <2>1, <2>2, <1>0, <1>1
<1>3. tx_taken' \in Nat
  <2>1. tx_taken + 1 \in Nat /\ 0 \in Nat  BY <1>0
  <2> QED  BY <2>1, <1>0, <1>1
<1>4. er_seen' \in BOOLEAN  BY <1>1
<1>5. cut' \in BOOLEAN  BY <1>0, <1>1
<1>6. /\ gmii'.en => gap' = 0
      /\ ~gmii'.en => gap' = IF gap < IfgBytes THEN gap + 1 ELSE gap
  BY <1>1
<1> QED  BY <1>2, <1>3, <1>4, <1>5, <1>6 DEF HistoryTypes

-----------------------------------------------------------------------------
(* One lemma per state of the FSM *)

\* Each state's step keeps the FSM's ranges, the control and the gap; the histories
\* follow from the line.
StepKeeps == FsmTypes' /\ HistoryTypes' /\ ControlInv' /\ GapInv'

\* S_IDLE.
LEMMA IdleKeeps ==
  ASSUME LineInv, Tx!Observe, NEW tx_start_ok \in BOOLEAN, Tx!Idle(tx_start_ok)
  PROVE  StepKeeps
PROOF
<1> DEFINE pending == first.have \/ Tx!Handshake
           starting == pending /\ tx_start_ok
<1>0. /\ FsmTypes /\ HistoryTypes /\ ControlInv /\ GapInv
      /\ IfgBytes \in Nat /\ IfgBytes >= 3 /\ gap \in 0 .. IfgBytes
      /\ PreambleLen \in Nat /\ PreambleLen > 0
      /\ src.valid \in BOOLEAN /\ src.last \in BOOLEAN /\ src.pos \in Positions
      /\ tready \in BOOLEAN /\ first.have \in BOOLEAN
      /\ state = "IDLE"
  BY TxAssumption DEF LineInv, HistoryTypes, FsmTypes, SourceInv, Tx!Idle
<1>1. /\ gmii'.en = FALSE /\ gmii'.er = FALSE
      /\ frame_ended' = FALSE
      /\ first' = IF Tx!Handshake /\ ~first.have
                  THEN [have |-> TRUE, last |-> src.last, pos |-> src.pos]
                  ELSE first
      /\ state' = IF starting THEN "PREAMBLE" ELSE "IDLE"
      /\ count' = IF starting THEN 0 ELSE count
      /\ crc_accum' = IF starting THEN 0 ELSE crc_accum
      /\ data_cnt' = data_cnt /\ crc_saved' = crc_saved
  BY DEF Tx!Idle, Tx!Silent
<1>2. tready' = (~pending /\ tx_start_ok)  BY DEF Tx!Idle
<1>3. Tx!Handshake \in BOOLEAN /\ pending \in BOOLEAN /\ starting \in BOOLEAN
  BY <1>0 DEF Tx!Handshake
<1>4. tready' \in BOOLEAN /\ (tready' => ~pending)  BY <1>2
<1>5. /\ first' \in [have : BOOLEAN, last : BOOLEAN, pos : Positions]
      /\ first'.have = pending
  BY <1>0, <1>1, <1>3 DEF FsmTypes
<1> HIDE DEF starting
<1>6. FsmTypes'
  <2>1. state' \in Tx!States  BY <1>1 DEF Tx!States
  <2>2. count' \in Nat /\ crc_accum' \in Nat  BY <1>0, <1>1 DEF FsmTypes
  <2> QED  BY <2>1, <2>2, <1>0, <1>1, <1>4, <1>5 DEF FsmTypes
<1>7. /\ HistoryTypes'
      /\ gap' = IF gap < IfgBytes THEN gap + 1 ELSE gap
  BY <1>0, <1>1, ObserveKeepsTypes
<1>8. ControlInv'
  <2>1. starting => pending  BY DEF starting
  <2>2. first'.have => ~tready' /\ state' \in {"IDLE", "PREAMBLE"}  BY <1>1, <1>4, <1>5
  <2>3. state' \in {"PREAMBLE", "SFD"} => starting  BY <1>1
  <2>4. starting => count' = 0 /\ crc_accum' = 0 /\ first'.have
    BY <2>1, <1>1, <1>5
  <2>5. tready' => state' = "IDLE"  BY <1>1, <1>4, <2>1
  <2>6. state' \in {"IDLE", "PREAMBLE"}  BY <1>1
  <2> QED  BY <2>2, <2>3, <2>4, <2>5, <2>6, <1>0, <1>1 DEF ControlInv
<1>9. GapInv'
  <2>1. gap >= IfgBytes - 2 /\ (tready => gap >= IfgBytes - 1)
        /\ (first.have => gap = IfgBytes)
    BY <1>0 DEF GapInv
  <2>2. gap' >= IfgBytes - 1  BY <2>1, <1>0, <1>7
  <2>3. pending => gap' = IfgBytes
    <3>1. pending => gap >= IfgBytes - 1  BY <2>1, <1>0 DEF Tx!Handshake
    <3> QED  BY <3>1, <1>0, <1>7
  <2>4. gap' >= IfgBytes - 2 /\ gap' \in Nat  BY <2>2, <1>0, <1>7
  <2>5. state' \in {"IDLE", "PREAMBLE"} /\ (state' = "PREAMBLE" => pending /\ count' = 0)
    BY <1>1 DEF starting
  <2> QED  BY <2>2, <2>3, <2>4, <2>5, <1>1, <1>5 DEF GapInv
<1> QED  BY <1>6, <1>7, <1>8, <1>9 DEF StepKeeps

\* S_PREAMBLE.
LEMMA PreambleKeeps ==
  ASSUME LineInv, Tx!Observe, Tx!Preamble
  PROVE  StepKeeps
PROOF
<1>0. /\ FsmTypes /\ HistoryTypes /\ ControlInv /\ GapInv
      /\ PreambleLen \in Nat /\ PreambleLen > 0
      /\ count \in Nat /\ count < PreambleLen /\ first.have /\ crc_accum = 0
      /\ ~frame_ended
  BY TxAssumption DEF LineInv, FsmTypes, ControlInv, Tx!Preamble
<1>1. /\ gmii'.en = TRUE /\ gmii'.er = FALSE
      /\ count' = count + 1
      /\ state' = IF count = PreambleLen - 1 THEN "SFD" ELSE "PREAMBLE"
      /\ tready' = FALSE
      /\ data_cnt' = data_cnt /\ first' = first /\ frame_ended' = frame_ended
      /\ crc_accum' = crc_accum /\ crc_saved' = crc_saved
  BY DEF Tx!Preamble, Tx!Drive
<1>2. FsmTypes'
  <2>1. state' \in Tx!States  BY <1>1 DEF Tx!States
  <2>2. count' \in Nat /\ data_cnt' \in Nat /\ crc_accum' \in Nat /\ crc_saved' \in Nat
    BY <1>0, <1>1 DEF FsmTypes
  <2> QED  BY <2>1, <2>2, <1>0, <1>1 DEF FsmTypes
<1>3. HistoryTypes' /\ gap' = 0  BY <1>0, <1>1, ObserveKeepsTypes
<1>4. ControlInv'
  <2>1. state' = "PREAMBLE" => count' < PreambleLen  BY <1>0, <1>1
  <2>2. state' \in {"PREAMBLE", "SFD"}  BY <1>1
  <2> QED  BY <2>1, <2>2, <1>0, <1>1 DEF ControlInv
<1>5. GapInv'
  <2>1. count' # 0  BY <1>0, <1>1
  <2>2. state' \in {"PREAMBLE", "SFD"}  BY <1>1
  <2> QED  BY <2>1, <2>2, <1>1, <1>3 DEF GapInv
<1> QED  BY <1>2, <1>3, <1>4, <1>5 DEF StepKeeps

\* S_SFD.
LEMMA SfdKeeps ==
  ASSUME LineInv, Tx!Observe, Tx!Sfd
  PROVE  StepKeeps
PROOF
<1>0. /\ FsmTypes /\ HistoryTypes /\ ControlInv /\ GapInv
      /\ first.have /\ crc_accum = 0 /\ frame_ended = FALSE
  BY DEF LineInv, FsmTypes, ControlInv, Tx!Sfd
<1>1. /\ gmii'.en = TRUE /\ gmii'.er = FALSE
      /\ state' = "DATA" /\ data_cnt' = 0 /\ tready' = FALSE
      /\ count' = count /\ first' = first /\ frame_ended' = frame_ended
      /\ crc_accum' = crc_accum /\ crc_saved' = crc_saved
  BY DEF Tx!Sfd, Tx!Drive
<1>2. FsmTypes'
  <2>1. state' \in Tx!States  BY <1>1 DEF Tx!States
  <2>2. count' \in Nat /\ data_cnt' \in Nat /\ crc_accum' \in Nat /\ crc_saved' \in Nat
    BY <1>0, <1>1 DEF FsmTypes
  <2> QED  BY <2>1, <2>2, <1>0, <1>1 DEF FsmTypes
<1>3. HistoryTypes' /\ gap' = 0  BY <1>0, <1>1, ObserveKeepsTypes
<1>4. ControlInv'  BY <1>0, <1>1 DEF ControlInv
<1>5. GapInv'  BY <1>1, <1>3 DEF GapInv
<1> QED  BY <1>2, <1>3, <1>4, <1>5 DEF StepKeeps

\* S_DATA after the last byte.
LEMMA DataEndKeeps ==
  ASSUME LineInv, Tx!Observe, Tx!DataEnd
  PROVE  StepKeeps
PROOF
<1>0. /\ FsmTypes /\ HistoryTypes /\ ControlInv /\ GapInv
      /\ data_cnt \in Nat /\ crc_accum \in Nat /\ crc_accum = data_cnt
      /\ state = "DATA" /\ frame_ended /\ ~first.have
  BY DEF LineInv, FsmTypes, ControlInv, Tx!DataEnd
<1>1. /\ tready' = FALSE /\ first' = first /\ frame_ended' = frame_ended
      /\ gmii'.en = TRUE /\ gmii'.er = FALSE
      /\ \/ state' = "PAD" /\ crc_accum' = crc_accum + 1 /\ data_cnt' = data_cnt + 1
            /\ count' = count /\ crc_saved' = crc_saved
         \/ state' = "CRC" /\ count' = 0 /\ crc_saved' = crc_accum + 1
            /\ data_cnt' = data_cnt + 1 /\ crc_accum' = crc_accum
         \/ state' = "CRC" /\ count' = 1 /\ crc_accum' = crc_accum
            /\ crc_saved' = crc_saved /\ data_cnt' = data_cnt
  BY DEF Tx!DataEnd, Tx!Drive
<1>2. FsmTypes'
  <2>1. state' \in Tx!States  BY <1>1 DEF Tx!States
  <2>2. count' \in Nat /\ data_cnt' \in Nat /\ crc_accum' \in Nat /\ crc_saved' \in Nat
    BY <1>0, <1>1 DEF FsmTypes
  <2> QED  BY <2>1, <2>2, <1>0, <1>1 DEF FsmTypes
<1>3. HistoryTypes' /\ gap' = 0  BY <1>0, <1>1, ObserveKeepsTypes
<1>4. ControlInv'  BY <1>0, <1>1 DEF ControlInv
<1>5. GapInv'  BY <1>1, <1>3 DEF GapInv
<1> QED  BY <1>2, <1>3, <1>4, <1>5 DEF StepKeeps

\* A byte goes out.
LEMMA SendByteKeeps ==
  ASSUME LineInv, Tx!Observe, state = "DATA", ~frame_ended,
         NEW pos \in Positions, NEW last \in BOOLEAN, Tx!SendByte(pos, last),
         first' \in [have : BOOLEAN, last : BOOLEAN, pos : Positions], ~first'.have
  PROVE  StepKeeps
PROOF
<1> DEFINE aborted == ~last /\ data_cnt >= MaxFrame - 1
<1>0. /\ FsmTypes /\ HistoryTypes /\ ControlInv /\ GapInv
      /\ data_cnt \in Nat /\ crc_accum \in Nat /\ crc_accum = data_cnt
      /\ IfgBytes \in Nat /\ IfgBytes >= 3
  BY TxAssumption DEF LineInv, FsmTypes, ControlInv
<1>1. /\ data_cnt' = data_cnt + 1 /\ crc_accum' = crc_accum + 1
      /\ gmii' = [en |-> TRUE, er |-> aborted, sym |-> Tx!Symbol("data", pos)]
      /\ frame_ended' = last
      /\ crc_saved' = IF last THEN crc_accum + 1 ELSE crc_saved
      /\ state' = IF aborted THEN "IFG" ELSE "DATA"
      /\ count' = IF aborted THEN 0 ELSE count
      /\ tready' = (~last /\ ~aborted)
  BY DEF Tx!SendByte, Tx!Drive
<1>2. aborted \in BOOLEAN /\ (aborted => ~last)  OBVIOUS
<1> HIDE DEF aborted
<1>3. gmii'.en = TRUE /\ gmii'.er \in BOOLEAN  BY <1>1, <1>2
<1>4. tready' \in BOOLEAN /\ (tready' => ~last /\ ~aborted)  BY <1>1
<1>5. FsmTypes'
  <2>1. state' \in Tx!States  BY <1>1 DEF Tx!States
  <2>2. count' \in Nat /\ data_cnt' \in Nat /\ crc_accum' \in Nat /\ crc_saved' \in Nat
    BY <1>0, <1>1 DEF FsmTypes
  <2> QED  BY <2>1, <2>2, <1>1, <1>3, <1>4 DEF FsmTypes
<1>6. HistoryTypes' /\ gap' = 0  BY <1>0, <1>3, ObserveKeepsTypes
<1>7. ControlInv'
  <2>1. state' \in {"IFG", "DATA"} /\ (state' = "IFG" => aborted /\ count' = 0)  BY <1>1
  <2>2. tready' => state' = "DATA" /\ ~frame_ended'  BY <1>1, <1>4
  <2>3. 0 <= IfgBytes - 3 /\ crc_accum' = data_cnt'  BY <1>0, <1>1
  <2> QED  BY <2>1, <2>2, <2>3 DEF ControlInv
<1>8. GapInv'
  <2>1. state' \in {"IFG", "DATA"} /\ (state' = "IFG" => count' = 0)  BY <1>1
  <2> QED  BY <2>1, <1>3, <1>6 DEF GapInv
<1> QED  BY <1>5, <1>6, <1>7, <1>8 DEF StepKeeps

\* S_DATA with a byte to send.
LEMMA DataByteKeeps ==
  ASSUME LineInv, Tx!Observe, Tx!DataByte
  PROVE  StepKeeps
PROOF
<1>0. /\ state = "DATA" /\ ~frame_ended
      /\ first \in [have : BOOLEAN, last : BOOLEAN, pos : Positions]
      /\ src.last \in BOOLEAN /\ src.pos \in Positions
  BY DEF Tx!DataByte, LineInv, FsmTypes, SourceInv
<1>1. CASE first.have /\ Tx!SendByte(first.pos, first.last) /\ first' = Tx!NoFirst
  <2>1. Tx!NoFirst \in [have : BOOLEAN, last : BOOLEAN, pos : Positions] /\ ~Tx!NoFirst.have
    <3>1. 0 \in Positions  BY TxAssumption DEF Positions
    <3> QED  BY <3>1 DEF Tx!NoFirst
  <2>2. first.pos \in Positions /\ first.last \in BOOLEAN  BY <1>0
  <2> QED  BY <2>1, <2>2, <1>0, <1>1, SendByteKeeps
<1>2. CASE ~first.have /\ src.valid /\ Tx!SendByte(src.pos, src.last) /\ UNCHANGED first
  BY <1>0, <1>2, SendByteKeeps
<1> QED  BY <1>1, <1>2 DEF Tx!DataByte

\* S_DATA without one.
LEMMA UnderrunKeeps ==
  ASSUME LineInv, Tx!Observe, Tx!Underrun
  PROVE  StepKeeps
PROOF
<1>0. /\ FsmTypes /\ HistoryTypes /\ ControlInv /\ GapInv
      /\ IfgBytes \in Nat /\ IfgBytes >= 3
      /\ state = "DATA" /\ ~frame_ended /\ ~first.have
  BY TxAssumption DEF LineInv, Tx!Underrun
<1>1. /\ gmii'.en = TRUE /\ gmii'.er = TRUE
      /\ tready' = FALSE
      /\ \/ state' = "IFG" /\ count' = 0
         \/ state' = "DATA" /\ count' = count
      /\ data_cnt' = data_cnt /\ first' = first /\ frame_ended' = frame_ended
      /\ crc_accum' = crc_accum /\ crc_saved' = crc_saved
  BY DEF Tx!Underrun, Tx!Drive
<1>2. FsmTypes'
  <2>1. state' \in Tx!States  BY <1>1 DEF Tx!States
  <2>2. count' \in Nat /\ data_cnt' \in Nat /\ crc_accum' \in Nat /\ crc_saved' \in Nat
    BY <1>0, <1>1 DEF FsmTypes
  <2> QED  BY <2>1, <2>2, <1>0, <1>1 DEF FsmTypes
<1>3. HistoryTypes' /\ gap' = 0  BY <1>0, <1>1, ObserveKeepsTypes
<1>4. ControlInv'
  <2>1. 0 <= IfgBytes - 3  BY <1>0
  <2> QED  BY <2>1, <1>0, <1>1 DEF ControlInv
<1>5. GapInv'  BY <1>1, <1>3 DEF GapInv
<1> QED  BY <1>2, <1>3, <1>4, <1>5 DEF StepKeeps

\* S_PAD.
LEMMA PadKeeps ==
  ASSUME LineInv, Tx!Observe, Tx!Pad
  PROVE  StepKeeps
PROOF
<1>0. /\ FsmTypes /\ HistoryTypes /\ ControlInv /\ GapInv
      /\ data_cnt \in Nat /\ crc_accum \in Nat /\ crc_accum = data_cnt
      /\ state = "PAD" /\ ~first.have
  BY DEF LineInv, FsmTypes, ControlInv, Tx!Pad
<1>1. /\ gmii'.en = TRUE /\ gmii'.er = FALSE
      /\ crc_accum' = crc_accum + 1 /\ data_cnt' = data_cnt + 1
      /\ tready' = FALSE /\ first' = first /\ frame_ended' = frame_ended
      /\ \/ state' = "CRC" /\ count' = 0 /\ crc_saved' = crc_accum + 1
         \/ state' = "PAD" /\ count' = count /\ crc_saved' = crc_saved
  BY <1>0 DEF Tx!Pad, Tx!Drive
<1>2. FsmTypes'
  <2>1. state' \in Tx!States  BY <1>1 DEF Tx!States
  <2>2. count' \in Nat /\ data_cnt' \in Nat /\ crc_accum' \in Nat /\ crc_saved' \in Nat
    BY <1>0, <1>1 DEF FsmTypes
  <2> QED  BY <2>1, <2>2, <1>0, <1>1 DEF FsmTypes
<1>3. HistoryTypes' /\ gap' = 0  BY <1>0, <1>1, ObserveKeepsTypes
<1>4. ControlInv'  BY <1>0, <1>1 DEF ControlInv
<1>5. GapInv'  BY <1>1, <1>3 DEF GapInv
<1> QED  BY <1>2, <1>3, <1>4, <1>5 DEF StepKeeps

\* S_CRC.
LEMMA CrcKeeps ==
  ASSUME LineInv, Tx!Observe, Tx!Crc
  PROVE  StepKeeps
PROOF
<1>0. /\ FsmTypes /\ HistoryTypes /\ ControlInv /\ GapInv
      /\ IfgBytes \in Nat /\ IfgBytes >= 3
      /\ count \in Nat /\ count < 4 /\ state = "CRC" /\ ~first.have
  BY TxAssumption DEF LineInv, FsmTypes, ControlInv, Tx!Crc
<1>1. /\ gmii'.en = TRUE /\ gmii'.er = FALSE
      /\ state' = IF count = 3 THEN "IFG" ELSE "CRC"
      /\ count' = IF count = 3 THEN 0 ELSE count + 1
      /\ tready' = FALSE
      /\ data_cnt' = data_cnt /\ first' = first /\ frame_ended' = frame_ended
      /\ crc_accum' = crc_accum /\ crc_saved' = crc_saved
  BY DEF Tx!Crc, Tx!Drive
<1>2. FsmTypes'
  <2>1. state' \in Tx!States  BY <1>1 DEF Tx!States
  <2>2. count' \in Nat /\ data_cnt' \in Nat /\ crc_accum' \in Nat /\ crc_saved' \in Nat
    BY <1>0, <1>1 DEF FsmTypes
  <2> QED  BY <2>1, <2>2, <1>0, <1>1 DEF FsmTypes
<1>3. HistoryTypes' /\ gap' = 0  BY <1>0, <1>1, ObserveKeepsTypes
<1>4. ControlInv'
  <2>1. 0 <= IfgBytes - 3 /\ count' < 4  BY <1>0, <1>1
  <2> QED  BY <2>1, <1>0, <1>1 DEF ControlInv
<1>5. GapInv'  BY <1>1, <1>3 DEF GapInv
<1> QED  BY <1>2, <1>3, <1>4, <1>5 DEF StepKeeps

\* S_IFG: the count that allows for the two idle cycles still to come.
LEMMA IfgKeeps ==
  ASSUME LineInv, Tx!Observe, Tx!Ifg
  PROVE  StepKeeps
PROOF
<1>0. /\ FsmTypes /\ HistoryTypes /\ ControlInv /\ GapInv
      /\ IfgBytes \in Nat /\ IfgBytes >= 3 /\ gap \in 0 .. IfgBytes
      /\ count \in Nat /\ count <= IfgBytes - 3 /\ gap = count
      /\ state = "IFG" /\ ~first.have /\ ~tready
  BY TxAssumption DEF LineInv, FsmTypes, HistoryTypes, ControlInv, GapInv, Tx!Ifg
<1>1. /\ gmii'.en = FALSE /\ gmii'.er = FALSE
      /\ count' = count + 1
      /\ state' = IF count >= IfgBytes - 3 THEN "IDLE" ELSE "IFG"
      /\ tready' = FALSE
      /\ data_cnt' = data_cnt /\ first' = first /\ frame_ended' = frame_ended
      /\ crc_accum' = crc_accum /\ crc_saved' = crc_saved
  BY DEF Tx!Ifg, Tx!Silent
<1>2. FsmTypes'
  <2>1. state' \in Tx!States  BY <1>1 DEF Tx!States
  <2>2. count' \in Nat /\ data_cnt' \in Nat /\ crc_accum' \in Nat /\ crc_saved' \in Nat
    BY <1>0, <1>1 DEF FsmTypes
  <2> QED  BY <2>1, <2>2, <1>0, <1>1 DEF FsmTypes
<1>3. HistoryTypes' /\ gap' = gap + 1
  <2>1. HistoryTypes' /\ gap' = IF gap < IfgBytes THEN gap + 1 ELSE gap
    BY <1>0, <1>1, ObserveKeepsTypes
  <2>2. gap < IfgBytes  BY <1>0
  <2> QED  BY <2>1, <2>2
<1>4. ControlInv'
  <2>1. state' = "IFG" => count' <= IfgBytes - 3  BY <1>0, <1>1
  <2> QED  BY <2>1, <1>0, <1>1 DEF ControlInv
<1>5. GapInv'
  <2>1. state' = "IDLE" => gap' >= IfgBytes - 2  BY <1>0, <1>1, <1>3
  <2>2. state' = "IFG" => gap' = count' /\ count' # 0  BY <1>0, <1>1, <1>3
  <2>3. state' \in {"IDLE", "IFG"}  BY <1>1
  <2> QED  BY <2>1, <2>2, <2>3, <1>0, <1>1 DEF GapInv
<1> QED  BY <1>2, <1>3, <1>4, <1>5 DEF StepKeeps

\* Every reachable state satisfies the invariant of the line.
LEMMA LineInductive == Tx!Spec => []LineInv
PROOF
<1>1. Tx!Init => LineInv
  <2> SUFFICES ASSUME Tx!Init PROVE LineInv  OBVIOUS
  <2>1. 0 \in Positions /\ 0 \in 0 .. IfgBytes /\ IfgBytes \in 0 .. IfgBytes
        /\ IfgBytes \in Nat /\ IfgBytes >= IfgBytes - 2
    BY TxAssumption DEF Positions
  <2>2. SourceInv  BY <2>1 DEF Tx!Init, SourceInv
  <2>3. FsmTypes  BY <2>1 DEF Tx!Init, FsmTypes, Tx!States, Tx!NoFirst
  <2>4. HistoryTypes  BY <2>1 DEF Tx!Init, HistoryTypes
  <2>5. ControlInv  BY DEF Tx!Init, ControlInv, Tx!NoFirst
  <2>6. GapInv  BY <2>1 DEF Tx!Init, GapInv, Tx!NoFirst
  <2> QED  BY <2>2, <2>3, <2>4, <2>5, <2>6 DEF LineInv
<1>2. LineInv /\ [Tx!Next]_(Tx!vars) => LineInv'
  <2> SUFFICES ASSUME LineInv, [Tx!Next]_(Tx!vars) PROVE LineInv'  OBVIOUS
  <2>1. ASSUME NEW tx_start_ok \in BOOLEAN, Tx!Edge(tx_start_ok) PROVE LineInv'
    <3>1. Tx!Step(tx_start_ok) /\ Tx!Observe  BY <2>1 DEF Tx!Edge
    <3>2. SourceInv'
      <4>1. PICK valid \in BOOLEAN, last \in BOOLEAN, bubble \in Bubbles :
                   Tx!Source(valid, last, bubble)
        BY <2>1 DEF Tx!Edge
      <4>2. SourceInv /\ tready \in BOOLEAN  BY DEF LineInv, FsmTypes
      <4> QED  BY <4>1, <4>2, SourceMoves
    <3>3. StepKeeps
      BY <3>1, IdleKeeps, PreambleKeeps, SfdKeeps, DataEndKeeps, DataByteKeeps,
         UnderrunKeeps, PadKeeps, CrcKeeps, IfgKeeps DEF Tx!Step
    <3> QED  BY <3>2, <3>3 DEF LineInv, StepKeeps
  <2>2. CASE Tx!Next  BY <2>1, <2>2 DEF Tx!Next
  <2>3. CASE UNCHANGED Tx!vars
    BY <2>3 DEF Tx!vars, Tx!fsm, LineInv, SourceInv, FsmTypes, HistoryTypes, ControlInv, GapInv
  <2> QED  BY <2>2, <2>3
<1> QED  BY <1>1, <1>2, PTL DEF Tx!Spec

\* "makes the gap exactly IFG_BYTES between back-to-back frames" (eth_mac_tx.v
\* 250-264): for every gap and every moment at which tx_start_ok rises or the source
\* offers its next frame, TX_EN never rises before IFG_BYTES idle cycles.
LEMMA FramerKeepsGap == Tx!Spec => Tx!GapKept
PROOF
<1>1. LineInv /\ [Tx!Next]_(Tx!vars) => [~gmii.en /\ gmii'.en => gap = IfgBytes]_(Tx!vars)
  <2> SUFFICES ASSUME LineInv, [Tx!Next]_(Tx!vars), ~gmii.en, gmii'.en PROVE gap = IfgBytes
    OBVIOUS
  <2>0. GapInv /\ state \in Tx!States  BY DEF LineInv, FsmTypes
  <2>1. ~UNCHANGED Tx!vars  BY DEF Tx!vars, Tx!fsm
  <2>2. PICK tx_start_ok \in BOOLEAN : Tx!Step(tx_start_ok)  BY <2>1 DEF Tx!Next, Tx!Edge
  <2>3. state # "IDLE" /\ state # "IFG"
    <3>1. ~Tx!Idle(tx_start_ok) /\ ~Tx!Ifg  BY DEF Tx!Idle, Tx!Ifg, Tx!Silent
    <3>2. Tx!Preamble => state = "PREAMBLE"  BY DEF Tx!Preamble
    <3>3. Tx!Sfd => state = "SFD"  BY DEF Tx!Sfd
    <3>4. Tx!DataEnd \/ Tx!DataByte \/ Tx!Underrun => state = "DATA"
      BY DEF Tx!DataEnd, Tx!DataByte, Tx!Underrun
    <3>5. Tx!Pad \/ Tx!Crc => state \in {"PAD", "CRC"}  BY DEF Tx!Pad, Tx!Crc
    <3> QED  BY <2>2, <3>1, <3>2, <3>3, <3>4, <3>5 DEF Tx!Step
  <2>4. state = "PREAMBLE"  BY <2>0, <2>3 DEF GapInv, Tx!States
  <2> QED  BY <2>0, <2>4 DEF GapInv
<1> QED  BY <1>1, LineInductive, PTL DEF Tx!Spec, Tx!GapKept

-----------------------------------------------------------------------------
(* The frame on the wire *)

\* The i-th symbol of the frame that n bytes from position k on become.
SymAt(k, n, i) ==
  IF i <= PreambleLen THEN Tx!Symbol("pre", 0)
  ELSE IF i = PreambleLen + 1 THEN Tx!Symbol("sfd", 0)
  ELSE IF i <= PreambleLen + 1 + n THEN Tx!Symbol("data", k + (i - PreambleLen - 2))
  ELSE IF i <= PreambleLen + 1 + Tx!Maximum(n, MinFrame) THEN Tx!Symbol("pad", 0)
  ELSE Tx!Symbol("crc", Tx!Maximum(n, MinFrame))

\* w is the first m symbols of that frame.
Reads(w, k, n, m) ==
  /\ w \in Seq(Symbols) /\ Len(w) = m
  /\ \A i \in 1 .. m : w[i] = SymAt(k, n, i)

\* The next symbol of the frame prolongs it.
LEMMA ReadsNext ==
  ASSUME NEW w, NEW k \in Nat, NEW n \in Nat, NEW m \in Nat, Reads(w, k, n, m),
         NEW s \in Symbols, s = SymAt(k, n, m + 1)
  PROVE  Reads(Append(w, s), k, n, m + 1) /\ Append(w, s) # << >>
PROOF
<1>1. w \in Seq(Symbols) /\ Len(w) = m /\ \A i \in 1 .. m : w[i] = SymAt(k, n, i)
  BY DEF Reads
<1>2. /\ Append(w, s) \in Seq(Symbols) /\ Len(Append(w, s)) = m + 1
      /\ \A i \in 1 .. m : Append(w, s)[i] = w[i]
      /\ Append(w, s)[m + 1] = s
  BY <1>1, AppendProperties
<1>3. \A i \in 1 .. m + 1 : Append(w, s)[i] = SymAt(k, n, i)
  <2> TAKE i \in 1 .. m + 1
  <2>1. i = m + 1 \/ i \in 1 .. m  OBVIOUS
  <2>2. CASE i = m + 1  BY <2>2, <1>2
  <2>3. CASE i \in 1 .. m  BY <2>3, <1>1, <1>2
  <2> QED  BY <2>1, <2>2, <2>3
<1>4. Append(w, s) # << >>
  <2>1. Len(<< >>) = 0 /\ m + 1 # 0  OBVIOUS
  <2> QED  BY <2>1, <1>2
<1> QED  BY <1>2, <1>3, <1>4 DEF Reads

\* Up to its SFD a frame is like any other, and up to its last byte it may still be
\* a longer one.
LEMMA ReadsOther ==
  ASSUME NEW w, NEW k \in Nat, NEW n \in Nat, NEW m \in Nat, Reads(w, k, n, m),
         NEW j \in Nat, NEW l \in Nat,
         m <= PreambleLen + 1 \/ (j = k /\ l >= n /\ m <= PreambleLen + 1 + n)
  PROVE  Reads(w, j, l, m)
PROOF
<1>0. PreambleLen \in Nat  BY TxAssumption
<1>1. ASSUME NEW i \in 1 .. m PROVE SymAt(k, n, i) = SymAt(j, l, i)
  <2>1. CASE i <= PreambleLen  BY <2>1 DEF SymAt
  <2>2. CASE i = PreambleLen + 1
    <3>1. ~(i <= PreambleLen)  BY <2>2, <1>0
    <3> QED  BY <2>2, <3>1 DEF SymAt
  <2>3. CASE i > PreambleLen + 1
    <3>1. j = k /\ l >= n /\ i <= PreambleLen + 1 + n /\ i <= PreambleLen + 1 + l
          /\ ~(i <= PreambleLen) /\ i # PreambleLen + 1
      BY <2>3, <1>0
    <3> QED  BY <3>1 DEF SymAt
  <2> QED  BY <2>1, <2>2, <2>3, <1>0
<1> QED  BY <1>1 DEF Reads

\* Nothing is the beginning of every frame.
LEMMA ReadsNothing ==
  ASSUME NEW k, NEW n
  PROVE  Reads(<< >>, k, n, 0)
  BY EmptySeq DEF Reads

\* The longer of a frame and the minimum is a length.
LEMMA BodyLength ==
  ASSUME NEW n \in Nat
  PROVE  /\ Tx!Maximum(n, MinFrame) \in Nat
         /\ Tx!Maximum(n, MinFrame) >= n /\ Tx!Maximum(n, MinFrame) >= MinFrame
         /\ n >= MinFrame => Tx!Maximum(n, MinFrame) = n
         /\ n <= MinFrame => Tx!Maximum(n, MinFrame) = MinFrame
  BY TxAssumption DEF Tx!Maximum

\* Two sequences of symbols one after the other.
Joined(z, x, y) ==
  /\ z \in Seq(Symbols) /\ Len(z) = Len(x) + Len(y)
  /\ \A i \in 1 .. Len(x) + Len(y) : z[i] = IF i <= Len(x) THEN x[i] ELSE y[i - Len(x)]

\* Its element is that of the first up to its length, then that of the second.
LEMMA ConcatJoins ==
  ASSUME NEW x \in Seq(Symbols), NEW y \in Seq(Symbols)
  PROVE  Joined(x \o y, x, y)
  BY ConcatProperties DEF Joined

\* What is written when the last symbol of the FCS is: the whole frame.
LEMMA ReadsWhole ==
  ASSUME NEW w, NEW k \in Nat, NEW n \in Nat,
         Reads(w, k, n, PreambleLen + 1 + Tx!Maximum(n, MinFrame) + 4)
  PROVE  w = Tx!Framed(k, n)
PROOF
<1> DEFINE P == PreambleLen
           body == Tx!Maximum(n, MinFrame)
           a == [i \in 1 .. P |-> Tx!Symbol("pre", 0)]
           c == <<Tx!Symbol("sfd", 0)>>
           d == [i \in 1 .. n |-> Tx!Symbol("data", k + i - 1)]
           e == [i \in 1 .. body - n |-> Tx!Symbol("pad", 0)]
           f == [i \in 1 .. 4 |-> Tx!Symbol("crc", body)]
           m == P + 1 + body + 4
<1>0. P \in Nat /\ body \in Nat /\ body >= n /\ body - n \in Nat /\ 4 \in Nat
  BY TxAssumption, BodyLength
<1>1. /\ Tx!Symbol("pre", 0) \in Symbols /\ Tx!Symbol("sfd", 0) \in Symbols
      /\ Tx!Symbol("pad", 0) \in Symbols /\ Tx!Symbol("crc", body) \in Symbols
      /\ \A i \in 1 .. n : Tx!Symbol("data", k + i - 1) \in Symbols
  BY <1>0 DEF Tx!Symbol, Symbols, Kinds
<1>2. /\ a \in Seq(Symbols) /\ Len(a) = P /\ \A i \in 1 .. P : a[i] = Tx!Symbol("pre", 0)
  BY <1>0, <1>1
<1>3. /\ c \in Seq(Symbols) /\ Len(c) = 1 /\ c[1] = Tx!Symbol("sfd", 0)
  BY <1>1
<1>4. /\ d \in Seq(Symbols) /\ Len(d) = n
      /\ \A i \in 1 .. n : d[i] = Tx!Symbol("data", k + i - 1)
  BY <1>0, <1>1
<1>5. /\ e \in Seq(Symbols) /\ Len(e) = body - n
      /\ \A i \in 1 .. body - n : e[i] = Tx!Symbol("pad", 0)
  <2>1. ASSUME NEW j \in Nat, NEW x \in Symbols
        PROVE  /\ [i \in 1 .. j |-> x] \in Seq(Symbols) /\ Len([i \in 1 .. j |-> x]) = j
               /\ \A i \in 1 .. j : [q \in 1 .. j |-> x][i] = x
    OBVIOUS
  <2>2. PICK j \in Nat : j = body - n  BY <1>0
  <2>3. PICK x \in Symbols : x = Tx!Symbol("pad", 0)  BY <1>1
  <2>4. e = [i \in 1 .. j |-> x]  BY <2>2, <2>3
  <2> HIDE DEF e, body
  <2>5. e \in Seq(Symbols) /\ Len(e) = j /\ \A i \in 1 .. j : e[i] = x  BY <2>1, <2>4
  <2> QED  BY <2>2, <2>3, <2>5
<1>6. /\ f \in Seq(Symbols) /\ Len(f) = 4 /\ \A i \in 1 .. 4 : f[i] = Tx!Symbol("crc", body)
  BY <1>0, <1>1
<1> HIDE DEF P, body, a, c, d, e, f
<1>7. /\ a \o c \in Seq(Symbols) /\ Len(a \o c) = P + 1
      /\ \A i \in 1 .. P + 1 : (a \o c)[i] = IF i <= P THEN a[i] ELSE c[i - P]
  <2>1. Joined(a \o c, a, c)  BY ONLY <1>2, <1>3, ConcatJoins
  <2> QED  BY <2>1, <1>0, <1>2, <1>3 DEF Joined
<1> DEFINE ac == a \o c
           acd == ac \o d
           acde == acd \o e
           acdef == acde \o f
<1> HIDE DEF ac
<1>8. /\ acd \in Seq(Symbols) /\ Len(acd) = P + 1 + n
      /\ \A i \in 1 .. P + 1 + n : acd[i] = IF i <= P + 1 THEN ac[i] ELSE d[i - (P + 1)]
  <2>1. ac \in Seq(Symbols) /\ Len(ac) = P + 1  BY <1>7 DEF ac
  <2>2. Joined(ac \o d, ac, d)  BY ONLY <2>1, <1>4, ConcatJoins
  <2> QED  BY <2>1, <2>2, <1>0, <1>4 DEF Joined, acd
<1> HIDE DEF acd
<1>9. /\ acde \in Seq(Symbols) /\ Len(acde) = P + 1 + body
      /\ \A i \in 1 .. P + 1 + body :
           acde[i] = IF i <= P + 1 + n THEN acd[i] ELSE e[i - (P + 1 + n)]
  <2>1. /\ acde \in Seq(Symbols) /\ Len(acde) = (P + 1 + n) + (body - n)
        /\ \A i \in 1 .. (P + 1 + n) + (body - n) :
             acde[i] = IF i <= P + 1 + n THEN acd[i] ELSE e[i - (P + 1 + n)]
    <3>1. Joined(acd \o e, acd, e)  BY ONLY <1>8, <1>5, ConcatJoins
    <3> QED  BY <3>1, <1>0, <1>5, <1>8 DEF Joined, acde
  <2>2. (P + 1 + n) + (body - n) = P + 1 + body  BY <1>0
  <2> QED  BY <2>1, <2>2
<1> HIDE DEF acde
<1>10. /\ acdef \in Seq(Symbols) /\ Len(acdef) = m
       /\ \A i \in 1 .. m :
            acdef[i] = IF i <= P + 1 + body THEN acde[i] ELSE f[i - (P + 1 + body)]
  <2>1. Joined(acde \o f, acde, f)  BY ONLY <1>9, <1>6, ConcatJoins
  <2>2. m = Len(acde) + Len(f)  BY <1>9, <1>6 DEF m
  <2> HIDE DEF m
  <2> QED  BY <2>1, <2>2, <1>0, <1>6, <1>9 DEF Joined, acdef
<1>11. \A i \in 1 .. m : acdef[i] = SymAt(k, n, i)
  <2> TAKE i \in 1 .. m
  <2> HIDE DEF acdef
  <2>0. i \in Nat /\ i >= 1 /\ i <= P + 1 + body + 4  BY <1>0
  <2>1. CASE i <= P
    <3>1. /\ i \in 1 .. m /\ i <= P + 1 + body /\ i \in 1 .. P + 1 + body /\ i <= P + 1 + n
          /\ i \in 1 .. P + 1 + n /\ i <= P + 1 /\ i \in 1 .. P + 1 /\ i \in 1 .. P
      BY <2>0, <2>1, <1>0
    <3>2. acdef[i] = acde[i]  BY <3>1, <1>10
    <3>3. acde[i] = acd[i]  BY <3>1, <1>9
    <3>4. acd[i] = ac[i]  BY <3>1, <1>8
    <3>5. ac[i] = a[i]  BY <3>1, <1>7 DEF ac
    <3>6. a[i] = Tx!Symbol("pre", 0)  BY <3>1, <1>2
    <3> QED  BY <3>2, <3>3, <3>4, <3>5, <3>6, <2>1 DEF SymAt, P
  <2>2. CASE i = P + 1
    <3>1. /\ i \in 1 .. m /\ i <= P + 1 + body /\ i \in 1 .. P + 1 + body /\ i <= P + 1 + n
          /\ i \in 1 .. P + 1 + n /\ i <= P + 1 /\ i \in 1 .. P + 1 /\ ~(i <= P) /\ i - P = 1
      BY <2>0, <2>2, <1>0
    <3>2. acdef[i] = acde[i]  BY <3>1, <1>10
    <3>3. acde[i] = acd[i]  BY <3>1, <1>9
    <3>4. acd[i] = ac[i]  BY <3>1, <1>8
    <3>5. ac[i] = c[i - P]  BY <3>1, <1>7 DEF ac
    <3> QED  BY <3>1, <3>2, <3>3, <3>4, <3>5, <2>2, <1>3 DEF SymAt, P
  <2>3. CASE i > P + 1 /\ i <= P + 1 + n
    <3>1. /\ i \in 1 .. m /\ i <= P + 1 + body /\ i \in 1 .. P + 1 + body /\ i <= P + 1 + n
          /\ i \in 1 .. P + 1 + n /\ ~(i <= P + 1) /\ ~(i <= P) /\ i # P + 1
          /\ i - (P + 1) \in 1 .. n
          /\ k + (i - (P + 1)) - 1 = k + (i - P - 2)
      BY <2>0, <2>3, <1>0
    <3>2. acdef[i] = acde[i]  BY <3>1, <1>10
    <3>3. acde[i] = acd[i]  BY <3>1, <1>9
    <3>4. acd[i] = d[i - (P + 1)]  BY <3>1, <1>8
    <3>5. d[i - (P + 1)] = Tx!Symbol("data", k + (i - (P + 1)) - 1)  BY <3>1, <1>4
    <3> QED  BY <3>1, <3>2, <3>3, <3>4, <3>5, <2>3 DEF SymAt, P
  <2>4. CASE i > P + 1 + n /\ i <= P + 1 + body
    <3>1. /\ i \in 1 .. m /\ i <= P + 1 + body /\ i \in 1 .. P + 1 + body
          /\ ~(i <= P + 1 + n) /\ ~(i <= P) /\ i # P + 1
          /\ i - (P + 1 + n) \in 1 .. body - n
      BY <2>0, <2>4, <1>0
    <3>2. acdef[i] = acde[i]  BY <3>1, <1>10
    <3>3. acde[i] = e[i - (P + 1 + n)]  BY <3>1, <1>9
    <3>4. e[i - (P + 1 + n)] = Tx!Symbol("pad", 0)  BY <3>1, <1>5
    <3> QED  BY <3>1, <3>2, <3>3, <3>4, <2>4 DEF SymAt, P, body
  <2>5. CASE i > P + 1 + body
    <3>1. /\ i \in 1 .. m /\ ~(i <= P + 1 + body)
          /\ ~(i <= P + 1 + n) /\ ~(i <= P) /\ i # P + 1
          /\ i - (P + 1 + body) \in 1 .. 4
      BY <2>0, <2>5, <1>0
    <3>2. acdef[i] = f[i - (P + 1 + body)]  BY <3>1, <1>10
    <3>3. f[i - (P + 1 + body)] = Tx!Symbol("crc", body)  BY <3>1, <1>6
    <3> QED  BY <3>1, <3>2, <3>3, <2>5 DEF SymAt, P, body
  <2> QED  BY <2>0, <2>1, <2>2, <2>3, <2>4, <2>5, <1>0
<1>12. w \in Seq(Symbols) /\ Len(w) = m /\ \A i \in 1 .. m : w[i] = SymAt(k, n, i)
  BY DEF Reads, P, body
<1>13. w = acdef
  <2> HIDE DEF acdef, m
  <2>1. \A i \in 1 .. Len(w) : w[i] = acdef[i]  BY <1>11, <1>12
  <2> QED  BY <2>1, <1>10, <1>12, SeqEqual
<1>14. Tx!Framed(k, n) = acdef  BY DEF Tx!Framed, a, c, d, e, f, ac, acd, acde, P, body
<1> QED  BY <1>13, <1>14

-----------------------------------------------------------------------------
(* The frame that is sent *)

\* What is on the line is the first m symbols of the frame that the n bytes taken since
\* the last one make, from position k of a source frame on.
OnLine(k, n, m) ==
  /\ n \in 1 .. MaxLen /\ tx_taken = n
  /\ k > 0 => cut
  /\ Reads(wire, k, n, m)

\* Up to the first byte: nothing wrong has been shown, and only that byte has been
\* taken.  The rest of a source frame is what the source offers only after an abort.
HeadInv ==
  /\ wire \in Seq(Symbols)
  /\ wire = << >> <=> ~gmii.en
  /\ er_seen => gmii.en
  /\ state \in {"PREAMBLE", "SFD"} \/ first.have => ~er_seen
  /\ first.have => /\ src.pos = IF first.last THEN 0 ELSE first.pos + 1
                   /\ first.pos > 0 => cut
  /\ wire = << >> \/ first.have => tx_taken = IF first.have THEN 1 ELSE 0
  /\ wire = << >> /\ ~first.have /\ src.pos > 0 => cut
  /\ state = "PREAMBLE" => Reads(wire, 0, 0, count)
  /\ state = "SFD" => Reads(wire, 0, 0, PreambleLen)
  /\ state = "DATA" /\ first.have => Reads(wire, 0, 0, PreambleLen + 1)

\* From the first byte on, as long as tx_er has not been shown.
BytesInv ==
  state = "DATA" /\ ~first.have /\ ~frame_ended /\ ~er_seen =>
    /\ tready
    /\ \E k \in Positions : /\ src.pos = k + data_cnt
                            /\ OnLine(k, data_cnt, PreambleLen + 1 + data_cnt)

EndedInv ==
  state = "DATA" /\ frame_ended /\ ~er_seen =>
    /\ src.pos = 0 /\ crc_saved = data_cnt
    /\ \E k \in Positions : OnLine(k, data_cnt, PreambleLen + 1 + data_cnt)

PadInv ==
  state = "PAD" /\ ~er_seen =>
    /\ src.pos = 0 /\ data_cnt < MinFrame
    /\ \E k \in Positions, n \in 1 .. MaxLen :
          n < data_cnt /\ OnLine(k, n, PreambleLen + 1 + data_cnt)

CrcInv ==
  state = "CRC" /\ ~er_seen =>
    /\ src.pos = 0
    /\ \E k \in Positions, n \in 1 .. MaxLen :
          /\ crc_saved = Tx!Maximum(n, MinFrame)
          /\ OnLine(k, n, PreambleLen + 1 + Tx!Maximum(n, MinFrame) + count)

SentInv ==
  state = "IFG" /\ wire # << >> /\ ~er_seen =>
    /\ src.pos = 0
    /\ \E k \in Positions, n \in 1 .. MaxLen :
          OnLine(k, n, PreambleLen + 1 + Tx!Maximum(n, MinFrame) + 4)

BodyInv == BytesInv /\ EndedInv /\ PadInv /\ CrcInv /\ SentInv
WireInv == HeadInv /\ BodyInv
\* What an edge does to the source's position (lemma SourceMoves).
SourceAt == /\ ~Tx!Handshake => src'.pos = src.pos
            /\ Tx!Handshake => src'.pos = IF src.last THEN 0 ELSE src.pos + 1

\* A symbol goes out.
LEMMA LineGrows ==
  ASSUME HeadInv, Tx!Observe, gmii'.en = TRUE, NEW s \in Symbols, gmii'.sym = s, s # Tx!Quiet
  PROVE  /\ wire' = Append(wire, s) /\ wire' \in Seq(Symbols) /\ wire' # << >>
         /\ cut' = cut
         /\ tx_taken' = IF Tx!Handshake THEN tx_taken + 1 ELSE tx_taken
         /\ er_seen' => er_seen \/ gmii'.er
         /\ ~er_seen' => ~er_seen /\ ~gmii'.er
PROOF
<1>1. er_seen' = (gmii'.en /\ (er_seen \/ gmii'.er))  BY DEF Tx!Observe
<1>2. /\ wire' = Append(wire, s) /\ cut' = cut
      /\ tx_taken' = IF Tx!Handshake THEN tx_taken + 1 ELSE tx_taken
  BY DEF Tx!Observe
<1>3. wire' \in Seq(Symbols) /\ wire' # << >>
  <2>1. wire \in Seq(Symbols)  BY DEF HeadInv
  <2>2. Append(wire, s) \in Seq(Symbols) /\ Len(Append(wire, s)) = Len(wire) + 1
        /\ Len(wire) \in Nat
    BY <2>1, AppendProperties
  <2>3. Append(wire, s) # << >>
    <3>1. Len(<< >>) = 0  OBVIOUS
    <3> QED  BY <3>1, <2>2
  <2> QED  BY <2>2, <2>3, <1>2
<1> QED  BY <1>1, <1>2, <1>3

\* The kinds of symbol are different from the silence.
LEMMA SymbolKinds ==
  ASSUME NEW kind \in Kinds \ {"none"}, NEW n \in Nat
  PROVE  Tx!Symbol(kind, n) \in Symbols /\ Tx!Symbol(kind, n) # Tx!Quiet
  BY DEF Tx!Symbol, Symbols, Tx!Quiet, Kinds

\* What comes after the SFD: the bytes, the padding, the FCS.
LEMMA SymbolAt ==
  ASSUME NEW k \in Nat, NEW n \in Nat, NEW i \in Nat
  PROVE  /\ i < n => SymAt(k, n, PreambleLen + 1 + i + 1) = Tx!Symbol("data", k + i)
         /\ n <= i /\ i < MinFrame => SymAt(k, n, PreambleLen + 1 + i + 1) = Tx!Symbol("pad", 0)
         /\ SymAt(k, n, PreambleLen + 1 + Tx!Maximum(n, MinFrame) + i + 1)
              = Tx!Symbol("crc", Tx!Maximum(n, MinFrame))
PROOF
<1>0. PreambleLen \in Nat /\ MinFrame \in Nat  BY TxAssumption
<1> DEFINE j == PreambleLen + 1 + i + 1
<1>1. /\ ~(j <= PreambleLen) /\ j # PreambleLen + 1
      /\ k + (j - PreambleLen - 2) = k + i
  BY <1>0
<1>2. ASSUME i < n PROVE SymAt(k, n, j) = Tx!Symbol("data", k + i)
  <2>1. j <= PreambleLen + 1 + n  BY <1>0, <1>2
  <2> HIDE DEF j
  <2> QED  BY <2>1, <1>1 DEF SymAt
<1>3. ASSUME n <= i, i < MinFrame PROVE SymAt(k, n, j) = Tx!Symbol("pad", 0)
  <2>1. Tx!Maximum(n, MinFrame) = MinFrame  BY <1>0, <1>3, BodyLength
  <2>2. ~(j <= PreambleLen + 1 + n) /\ j <= PreambleLen + 1 + MinFrame  BY <1>0, <1>3
  <2> HIDE DEF j
  <2> QED  BY <2>1, <2>2, <1>1 DEF SymAt
<1>4. SymAt(k, n, PreambleLen + 1 + Tx!Maximum(n, MinFrame) + i + 1)
        = Tx!Symbol("crc", Tx!Maximum(n, MinFrame))
  <2> DEFINE l == PreambleLen + 1 + Tx!Maximum(n, MinFrame) + i + 1
  <2>1. Tx!Maximum(n, MinFrame) \in Nat /\ Tx!Maximum(n, MinFrame) >= n  BY BodyLength
  <2>2. /\ ~(l <= PreambleLen) /\ l # PreambleLen + 1 /\ ~(l <= PreambleLen + 1 + n)
        /\ ~(l <= PreambleLen + 1 + Tx!Maximum(n, MinFrame))
    BY <2>1, <1>0
  <2> HIDE DEF l
  <2>3. SymAt(k, n, l) = Tx!Symbol("crc", Tx!Maximum(n, MinFrame))  BY <2>2 DEF SymAt
  <2> QED  BY <2>3 DEF l
<1> QED  BY <1>2, <1>3, <1>4

\* In S_IDLE nothing is on the line; a byte taken there is kept with its position.
LEMMA IdleWire ==
  ASSUME LineInv, WireInv, Tx!Observe, SourceAt, NEW tx_start_ok \in BOOLEAN, Tx!Idle(tx_start_ok)
  PROVE  WireInv'
PROOF
<1> DEFINE pending == first.have \/ Tx!Handshake
           starting == pending /\ tx_start_ok
<1>0. /\ FsmTypes /\ ControlInv /\ GapInv /\ HeadInv /\ tx_taken \in Nat
      /\ state = "IDLE" /\ ~gmii.en /\ wire = << >> /\ src.pos \in Positions
      /\ first.have \in BOOLEAN /\ src.valid \in BOOLEAN /\ tready \in BOOLEAN
  BY DEF LineInv, WireInv, HistoryTypes, SourceInv, FsmTypes, GapInv, HeadInv, Tx!Idle
<1>1. /\ gmii'.en = FALSE /\ gmii'.er = FALSE
      /\ first' = IF Tx!Handshake /\ ~first.have
                  THEN [have |-> TRUE, last |-> src.last, pos |-> src.pos]
                  ELSE first
      /\ state' = IF starting THEN "PREAMBLE" ELSE "IDLE"
      /\ count' = IF starting THEN 0 ELSE count
  BY DEF Tx!Idle, Tx!Silent
<1>2. /\ wire' = << >> /\ cut' = cut /\ ~er_seen'
      /\ tx_taken' = IF Tx!Handshake THEN tx_taken + 1 ELSE tx_taken
  BY <1>0, <1>1 DEF Tx!Observe
<1>3. Tx!Handshake => ~first.have  BY <1>0 DEF ControlInv, Tx!Handshake
<1>4. /\ ~first.have => tx_taken = 0 /\ (src.pos > 0 => cut)
      /\ first.have => tx_taken = 1
  BY <1>0 DEF HeadInv
<1>5. /\ first'.have => /\ src'.pos = IF first'.last THEN 0 ELSE first'.pos + 1
                        /\ first'.pos > 0 => cut'
                        /\ tx_taken' = 1
      /\ ~first'.have => tx_taken' = 0 /\ (src'.pos > 0 => cut')
  <2>1. CASE Tx!Handshake
    <3>1. first' = [have |-> TRUE, last |-> src.last, pos |-> src.pos]  BY <2>1, <1>1, <1>3
    <3> QED  BY <3>1, <2>1, <1>2, <1>3, <1>4 DEF SourceAt
  <2>2. CASE ~Tx!Handshake
    <3>1. first' = first /\ src'.pos = src.pos /\ tx_taken' = tx_taken
      BY <2>2, <1>1, <1>2 DEF SourceAt
    <3>2. first.have => /\ src.pos = IF first.last THEN 0 ELSE first.pos + 1
                        /\ first.pos > 0 => cut
      BY <1>0 DEF HeadInv
    <3> QED  BY <3>1, <3>2, <1>2, <1>4
  <2> QED  BY <2>1, <2>2
<1>6. state' \in {"IDLE", "PREAMBLE"} /\ (state' = "PREAMBLE" => count' = 0)  BY <1>1
<1>7. HeadInv'
  <2>1. Reads(<< >>, 0, 0, 0) /\ << >> \in Seq(Symbols)  BY ReadsNothing DEF Reads
  <2> QED  BY <2>1, <1>1, <1>2, <1>5, <1>6 DEF HeadInv
<1>8. BodyInv'  BY <1>6 DEF BodyInv, BytesInv, EndedInv, PadInv, CrcInv, SentInv
<1> QED  BY <1>7, <1>8 DEF WireInv

\* The preamble.
LEMMA PreambleWire ==
  ASSUME LineInv, WireInv, Tx!Observe, SourceAt, Tx!Preamble
  PROVE  WireInv'
PROOF
<1> DEFINE s == Tx!Symbol("pre", 0)
<1>0. /\ PreambleLen \in Nat /\ PreambleLen > 0 /\ count \in Nat /\ count < PreambleLen
      /\ HeadInv /\ first.have /\ ~Tx!Handshake /\ ~er_seen /\ tx_taken = 1
      /\ Reads(wire, 0, 0, count)
  BY TxAssumption DEF LineInv, WireInv, FsmTypes, ControlInv, HeadInv, Tx!Preamble, Tx!Handshake
<1>1. /\ gmii'.en = TRUE /\ gmii'.er = FALSE /\ gmii'.sym = s
      /\ count' = count + 1 /\ first' = first
      /\ state' = IF count = PreambleLen - 1 THEN "SFD" ELSE "PREAMBLE"
  BY DEF Tx!Preamble, Tx!Drive
<1>2. s \in Symbols /\ s # Tx!Quiet
  <2>1. "pre" \in Kinds \ {"none"} /\ 0 \in Nat  BY DEF Kinds
  <2> QED  BY <2>1, SymbolKinds
<1>3. s = SymAt(0, 0, count + 1)
  <2>1. count + 1 <= PreambleLen  BY <1>0
  <2> QED  BY <2>1 DEF SymAt
<1> HIDE DEF s
<1>4. /\ wire' = Append(wire, s) /\ wire' \in Seq(Symbols)
      /\ cut' = cut /\ tx_taken' = tx_taken /\ ~er_seen'
  BY <1>0, <1>1, <1>2, LineGrows
<1>5. Reads(wire', 0, 0, count + 1) /\ wire' # << >>
  <2>1. 0 \in Nat  OBVIOUS
  <2> QED  BY ONLY <2>1, <1>0, <1>2, <1>3, <1>4, ReadsNext
<1>6. /\ state' \in {"PREAMBLE", "SFD"}
      /\ state' = "SFD" => count + 1 = PreambleLen
      /\ src'.pos = src.pos
  BY <1>0, <1>1 DEF SourceAt
<1>7. HeadInv'  BY <1>0, <1>1, <1>4, <1>5, <1>6 DEF HeadInv
<1>8. BodyInv'  BY <1>6 DEF BodyInv, BytesInv, EndedInv, PadInv, CrcInv, SentInv
<1> QED  BY <1>7, <1>8 DEF WireInv

\* The start-of-frame delimiter.
LEMMA SfdWire ==
  ASSUME LineInv, WireInv, Tx!Observe, SourceAt, Tx!Sfd
  PROVE  WireInv'
PROOF
<1> DEFINE s == Tx!Symbol("sfd", 0)
<1>0. /\ PreambleLen \in Nat
      /\ HeadInv /\ first.have /\ frame_ended = FALSE /\ ~Tx!Handshake /\ ~er_seen /\ tx_taken = 1
      /\ Reads(wire, 0, 0, PreambleLen)
  BY TxAssumption DEF LineInv, WireInv, FsmTypes, ControlInv, HeadInv, Tx!Sfd, Tx!Handshake
<1>1. /\ gmii'.en = TRUE /\ gmii'.er = FALSE /\ gmii'.sym = s
      /\ first' = first /\ state' = "DATA" /\ frame_ended' = FALSE
  BY <1>0 DEF Tx!Sfd, Tx!Drive
<1>2. s \in Symbols /\ s # Tx!Quiet
  <2>1. "sfd" \in Kinds \ {"none"} /\ 0 \in Nat  BY DEF Kinds
  <2> QED  BY <2>1, SymbolKinds
<1>3. s = SymAt(0, 0, PreambleLen + 1)
  <2>1. ~(PreambleLen + 1 <= PreambleLen)  BY <1>0
  <2> QED  BY <2>1 DEF SymAt
<1> HIDE DEF s
<1>4. /\ wire' = Append(wire, s) /\ wire' \in Seq(Symbols)
      /\ cut' = cut /\ tx_taken' = tx_taken /\ ~er_seen'
  BY <1>0, <1>1, <1>2, LineGrows
<1>5. Reads(wire', 0, 0, PreambleLen + 1) /\ wire' # << >>
  <2>1. 0 \in Nat  OBVIOUS
  <2> QED  BY ONLY <2>1, <1>0, <1>2, <1>3, <1>4, ReadsNext
<1>6. src'.pos = src.pos  BY <1>0 DEF SourceAt
<1>7. HeadInv'  BY <1>0, <1>1, <1>4, <1>5, <1>6 DEF HeadInv
<1>8. BodyInv'  BY <1>0, <1>1 DEF BodyInv, BytesInv, EndedInv, PadInv, CrcInv, SentInv
<1> QED  BY <1>7, <1>8 DEF WireInv

\* Once tx_er has been shown, all that is known of the line is that it is driven.
LEMMA ErrorShown ==
  ASSUME er_seen'
  PROVE  BodyInv'
  BY DEF BodyInv, BytesInv, EndedInv, PadInv, CrcInv, SentInv

\* Past the kept byte, while the line is driven, nothing else is said of its head.
LEMMA HeadPast ==
  ASSUME wire' \in Seq(Symbols), wire' # << >>, gmii'.en = TRUE, ~first'.have,
         state' \notin {"PREAMBLE", "SFD"}
  PROVE  HeadInv'
  BY DEF HeadInv

\* After the last byte, padding or the FCS starts; the frame is as long as the
\* source made it.
LEMMA DataEndWire ==
  ASSUME LineInv, WireInv, Tx!Observe, SourceAt, Tx!DataEnd
  PROVE  WireInv'
PROOF
<1>0. /\ PreambleLen \in Nat /\ MinFrame \in Nat /\ MinFrame >= 2
      /\ data_cnt \in Nat /\ crc_saved \in Nat /\ crc_accum = data_cnt
      /\ state = "DATA" /\ frame_ended /\ ~first.have /\ ~Tx!Handshake
      /\ HeadInv /\ EndedInv
  BY TxAssumption DEF LineInv, WireInv, BodyInv, FsmTypes, ControlInv, Tx!DataEnd, Tx!Handshake
<1>1. gmii'.en = TRUE /\ gmii'.er = FALSE /\ first' = first /\ state' \in {"PAD", "CRC"}
      /\ \E s \in {Tx!Symbol("pad", 0), Tx!Symbol("crc", crc_saved)} : gmii'.sym = s
  BY <1>0 DEF Tx!DataEnd, Tx!Drive
<1>2. src'.pos = src.pos  BY <1>0 DEF SourceAt
<1>3. /\ Tx!Symbol("pad", 0) \in Symbols /\ Tx!Symbol("pad", 0) # Tx!Quiet
      /\ Tx!Symbol("crc", crc_saved) \in Symbols /\ Tx!Symbol("crc", crc_saved) # Tx!Quiet
  <2>1. "pad" \in Kinds \ {"none"} /\ "crc" \in Kinds \ {"none"} /\ 0 \in Nat  BY DEF Kinds
  <2> QED  BY <2>1, <1>0, SymbolKinds
<1>4. PICK s : s \in Symbols /\ s # Tx!Quiet /\ gmii'.sym = s  BY <1>1, <1>3
<1>5. /\ wire' = Append(wire, s) /\ wire' \in Seq(Symbols) /\ wire' # << >>
      /\ cut' = cut /\ tx_taken' = tx_taken
      /\ ~er_seen' => ~er_seen
  BY <1>0, <1>1, <1>4, LineGrows
<1>6. HeadInv'  BY <1>0, <1>1, <1>5, HeadPast
<1>7. ASSUME ~er_seen' PROVE BodyInv'
  <2>1. PICK k \in Positions : OnLine(k, data_cnt, PreambleLen + 1 + data_cnt)
    BY <1>0, <1>5, <1>7 DEF EndedInv
  <2>2. PICK n \in 1 .. MaxLen : n = data_cnt  BY <2>1 DEF OnLine
  <2>3. /\ n \in Nat /\ k \in Nat /\ n = data_cnt /\ PreambleLen + 1 + n \in Nat
        /\ tx_taken' = n /\ (k > 0 => cut') /\ src'.pos = 0 /\ crc_saved = n
        /\ Reads(wire, k, n, PreambleLen + 1 + n)
    <3>1. n \in Nat /\ k \in Nat /\ PreambleLen + 1 + n \in Nat
      BY TxAssumption, <2>2 DEF Positions
    <3>2. src.pos = 0 /\ crc_saved = data_cnt  BY <1>0, <1>5, <1>7 DEF EndedInv
    <3> QED  BY <3>1, <3>2, <2>1, <2>2, <1>2, <1>5 DEF OnLine
  <2>4. s = SymAt(k, n, PreambleLen + 1 + n + 1)
          => Reads(wire', k, n, PreambleLen + 1 + n + 1)
    BY ONLY <2>3, <1>4, <1>5, ReadsNext
  <2>5. BytesInv' /\ EndedInv' /\ SentInv'
    BY <1>1 DEF BytesInv, EndedInv, SentInv
  <2>6. CASE /\ data_cnt < MinFrame - 1
             /\ state' = "PAD"
             /\ Tx!Drive(Tx!Symbol("pad", 0), FALSE)
             /\ data_cnt' = data_cnt + 1
    <3>1. s = Tx!Symbol("pad", 0)  BY <2>6, <1>4 DEF Tx!Drive
    <3>2. n <= n /\ n < MinFrame /\ data_cnt' < MinFrame /\ n < data_cnt'
          /\ PreambleLen + 1 + data_cnt' = PreambleLen + 1 + n + 1
      BY <2>3, <2>6, <1>0
    <3>3. Reads(wire', k, n, PreambleLen + 1 + data_cnt')
      BY <3>1, <3>2, <2>3, <2>4, SymbolAt
    <3>4. PadInv'  BY <3>2, <3>3, <2>3 DEF PadInv, OnLine
    <3>5. CrcInv'  BY <2>6 DEF CrcInv
    <3> QED  BY <3>4, <3>5, <2>5 DEF BodyInv
  <2>7. CASE /\ data_cnt = MinFrame - 1
             /\ state' = "CRC" /\ count' = 0
             /\ Tx!Drive(Tx!Symbol("pad", 0), FALSE)
             /\ crc_saved' = crc_accum + 1
    <3>1. s = Tx!Symbol("pad", 0)  BY <2>7, <1>4 DEF Tx!Drive
    <3>2. n <= n /\ n < MinFrame /\ n <= MinFrame  BY <2>3, <2>7, <1>0
    <3>3. Tx!Maximum(n, MinFrame) = MinFrame  BY <3>2, <2>3, BodyLength
    <3>4. /\ crc_saved' = Tx!Maximum(n, MinFrame)
          /\ PreambleLen + 1 + Tx!Maximum(n, MinFrame) + count' = PreambleLen + 1 + n + 1
      BY <3>3, <2>3, <2>7, <1>0
    <3>5. Reads(wire', k, n, PreambleLen + 1 + Tx!Maximum(n, MinFrame) + count')
      BY <3>1, <3>2, <3>4, <2>3, <2>4, SymbolAt
    <3>6. CrcInv'  BY <3>4, <3>5, <2>3 DEF CrcInv, OnLine
    <3>7. PadInv'  BY <2>7 DEF PadInv
    <3> QED  BY <3>6, <3>7, <2>5 DEF BodyInv
  <2>8. CASE /\ data_cnt > MinFrame - 1
             /\ state' = "CRC" /\ count' = 1
             /\ Tx!Drive(Tx!Symbol("crc", crc_saved), FALSE)
             /\ crc_saved' = crc_saved
    <3>1. s = Tx!Symbol("crc", crc_saved)  BY <2>8, <1>4 DEF Tx!Drive
    <3>2. n >= MinFrame  BY <2>3, <2>8, <1>0
    <3>3. Tx!Maximum(n, MinFrame) = n  BY <3>2, <2>3, BodyLength
    <3>4. /\ crc_saved' = Tx!Maximum(n, MinFrame)
          /\ PreambleLen + 1 + Tx!Maximum(n, MinFrame) + count' = PreambleLen + 1 + n + 1
          /\ PreambleLen + 1 + Tx!Maximum(n, MinFrame) + 0 + 1 = PreambleLen + 1 + n + 1
      BY <3>3, <2>3, <2>8, <1>0
    <3>5. s = SymAt(k, n, PreambleLen + 1 + n + 1)
      <4>1. SymAt(k, n, PreambleLen + 1 + Tx!Maximum(n, MinFrame) + 0 + 1)
              = Tx!Symbol("crc", Tx!Maximum(n, MinFrame))
        BY <2>3, SymbolAt
      <4> QED  BY <4>1, <3>1, <3>3, <3>4, <2>3
    <3>6. Reads(wire', k, n, PreambleLen + 1 + Tx!Maximum(n, MinFrame) + count')
      BY <3>4, <3>5, <2>4
    <3>7. CrcInv'  BY <3>4, <3>6, <2>3 DEF CrcInv, OnLine
    <3>8. PadInv'  BY <2>8 DEF PadInv
    <3> QED  BY <3>7, <3>8, <2>5 DEF BodyInv
  <2> QED  BY <2>6, <2>7, <2>8 DEF Tx!DataEnd
<1> QED  BY <1>6, <1>7, ErrorShown DEF WireInv

\* A byte that follows what is on the line, in its frame.
LEMMA SendByteWire ==
  ASSUME LineInv, WireInv, Tx!Observe, state = "DATA", ~frame_ended,
         NEW pos \in Positions, NEW last \in BOOLEAN, Tx!SendByte(pos, last), ~first'.have,
         src'.pos = IF last THEN 0 ELSE pos + 1,
         ~er_seen => \E k \in Positions :
           /\ pos = k + data_cnt
           /\ tx_taken' = data_cnt + 1
           /\ k > 0 => cut
           /\ Reads(wire, k, data_cnt, PreambleLen + 1 + data_cnt)
  PROVE  WireInv'
PROOF
<1> DEFINE aborted == ~last /\ data_cnt >= MaxFrame - 1
           s == Tx!Symbol("data", pos)
<1>0. /\ PreambleLen \in Nat /\ MaxLen \in Nat /\ data_cnt \in Nat /\ crc_accum = data_cnt
      /\ pos \in Nat /\ pos <= MaxLen - 1 /\ HeadInv
  BY TxAssumption DEF LineInv, WireInv, FsmTypes, ControlInv, Positions
<1>1. /\ data_cnt' = data_cnt + 1
      /\ gmii' = [en |-> TRUE, er |-> aborted, sym |-> s]
      /\ frame_ended' = last
      /\ crc_saved' = IF last THEN crc_accum + 1 ELSE crc_saved
      /\ state' = IF aborted THEN "IFG" ELSE "DATA"
      /\ tready' = (~last /\ ~aborted)
  BY DEF Tx!SendByte, Tx!Drive
<1>2. s \in Symbols /\ s # Tx!Quiet
  <2>1. "data" \in Kinds \ {"none"}  BY DEF Kinds
  <2> QED  BY <2>1, <1>0, SymbolKinds
<1>3. aborted \in BOOLEAN  OBVIOUS
<1> HIDE DEF aborted, s
<1>4. gmii'.en = TRUE /\ gmii'.er = aborted /\ gmii'.sym = s  BY <1>1
<1>5. /\ wire' = Append(wire, s) /\ wire' \in Seq(Symbols) /\ wire' # << >>
      /\ cut' = cut
      /\ ~er_seen' => ~er_seen /\ ~aborted
  BY <1>0, <1>2, <1>4, LineGrows
<1>6. HeadInv'
  <2>1. state' \notin {"PREAMBLE", "SFD"}  BY <1>1
  <2> QED  BY <2>1, <1>4, <1>5, HeadPast
<1>7. ASSUME ~er_seen' PROVE BodyInv'
  <2>1. ~er_seen /\ ~aborted /\ state' = "DATA"  BY <1>1, <1>5, <1>7
  <2>2. PICK k \in Positions :
          /\ pos = k + data_cnt /\ tx_taken' = data_cnt + 1 /\ (k > 0 => cut)
          /\ Reads(wire, k, data_cnt, PreambleLen + 1 + data_cnt)
    BY <2>1
  <2>3. /\ k \in Nat /\ data_cnt + 1 \in Nat /\ PreambleLen + 1 + data_cnt \in Nat
        /\ data_cnt + 1 \in 1 .. MaxLen
        /\ data_cnt < data_cnt + 1 /\ data_cnt <= data_cnt + 1
        /\ PreambleLen + 1 + data_cnt <= PreambleLen + 1 + data_cnt
        /\ PreambleLen + 1 + data_cnt' = PreambleLen + 1 + data_cnt + 1
    BY <2>2, <1>0, <1>1 DEF Positions
  <2>4. Reads(wire, k, data_cnt + 1, PreambleLen + 1 + data_cnt)
    BY <2>2, <2>3, <1>0, ReadsOther
  <2>5. s = SymAt(k, data_cnt + 1, PreambleLen + 1 + data_cnt + 1)
    BY <2>2, <2>3, <1>0, SymbolAt DEF s
  <2>6. Reads(wire', k, data_cnt + 1, PreambleLen + 1 + data_cnt + 1)
    BY ONLY <2>3, <2>4, <2>5, <1>2, <1>5, ReadsNext
  <2>7. /\ data_cnt' \in 1 .. MaxLen /\ tx_taken' = data_cnt' /\ (k > 0 => cut')
        /\ Reads(wire', k, data_cnt', PreambleLen + 1 + data_cnt')
    BY <2>2, <2>3, <2>6, <1>1, <1>5
  <2>8. BytesInv'
    <3>1. CASE last  BY <3>1, <1>1 DEF BytesInv
    <3>2. CASE ~last
      <4>1. tready' = TRUE  BY <3>2, <2>1, <1>1
      <4>2. src'.pos = k + data_cnt'
        <5>1. src'.pos = pos + 1  BY <3>2
        <5> QED  BY <5>1, <2>2, <2>3, <1>0, <1>1
      <4> QED  BY <4>1, <4>2, <2>7 DEF BytesInv, OnLine
    <3> QED  BY <3>1, <3>2
  <2>9. EndedInv'
    <3>1. CASE last
      <4>1. src'.pos = 0 /\ crc_saved' = data_cnt'  BY <3>1, <1>0, <1>1
      <4> QED  BY <4>1, <2>7 DEF EndedInv, OnLine
    <3>2. CASE ~last  BY <3>2, <1>1 DEF EndedInv
    <3> QED  BY <3>1, <3>2
  <2>10. PadInv' /\ CrcInv' /\ SentInv'  BY <2>1 DEF PadInv, CrcInv, SentInv
  <2> QED  BY <2>8, <2>9, <2>10 DEF BodyInv
<1> QED  BY <1>6, <1>7, ErrorShown DEF WireInv

\* The kept byte is the first of its frame on the line; a byte of the source follows
\* the bytes sent, since S_DATA takes tvalid for a handshake only when it is one.
LEMMA DataByteWire ==
  ASSUME LineInv, WireInv, Tx!Observe, SourceAt, Tx!DataByte
  PROVE  WireInv'
PROOF
<1>0. /\ state = "DATA" /\ ~frame_ended /\ HeadInv /\ BytesInv
      /\ first.last \in BOOLEAN /\ first.pos \in Positions
      /\ src.last \in BOOLEAN /\ src.pos \in Positions /\ tready \in BOOLEAN
      /\ PreambleLen \in Nat /\ data_cnt \in Nat /\ tx_taken \in Nat
      /\ Positions \subseteq Nat /\ 0 \in Positions
      /\ gmii'.en = TRUE /\ gmii'.sym # Tx!Quiet
  <2>1. Positions \subseteq Nat /\ 0 \in Positions  BY TxAssumption DEF Positions
  <2>2. PICK pos, last : Tx!SendByte(pos, last)  BY DEF Tx!DataByte
  <2>3. gmii'.en = TRUE /\ gmii'.sym = Tx!Symbol("data", pos)  BY <2>2 DEF Tx!SendByte, Tx!Drive
  <2>4. gmii'.sym # Tx!Quiet  BY <2>3 DEF Tx!Symbol, Tx!Quiet
  <2> QED  BY <2>1, <2>3, <2>4, TxAssumption
           DEF Tx!DataByte, LineInv, FsmTypes, SourceInv, HistoryTypes, WireInv, BodyInv
<1>1. tx_taken' = IF Tx!Handshake THEN tx_taken + 1 ELSE tx_taken  BY <1>0 DEF Tx!Observe
<1>2. CASE first.have /\ Tx!SendByte(first.pos, first.last) /\ first' = Tx!NoFirst
  <2>1. /\ ~Tx!Handshake /\ data_cnt = 0 /\ tx_taken = 1
        /\ src.pos = IF first.last THEN 0 ELSE first.pos + 1
        /\ first.pos > 0 => cut
        /\ Reads(wire, 0, 0, PreambleLen + 1)
    BY <1>0, <1>2 DEF LineInv, ControlInv, HeadInv, Tx!Handshake
  <2>2. Reads(wire, first.pos, data_cnt, PreambleLen + 1 + data_cnt)
    <3>0. first.pos \in Nat  BY <1>0
    <3>1. PreambleLen + 1 \in Nat /\ 0 \in Nat /\ first.pos \in Nat
          /\ PreambleLen + 1 <= PreambleLen + 1
          /\ PreambleLen + 1 + data_cnt = PreambleLen + 1
      <4>1. PreambleLen \in Nat /\ data_cnt = 0  BY <2>1, <1>0
      <4> QED  BY ONLY <3>0, <4>1
    <3>2. Reads(wire, first.pos, 0, PreambleLen + 1)  BY <3>1, <2>1, ReadsOther
    <3> QED  BY <3>1, <3>2, <2>1
  <2>3. first.pos = first.pos + data_cnt /\ tx_taken' = data_cnt + 1
    <3>1. first.pos \in Nat  BY <1>0
    <3>2. tx_taken' = 1 /\ data_cnt = 0  BY <2>1, <1>1
    <3> QED  BY ONLY <3>1, <3>2
  <2>4. src'.pos = IF first.last THEN 0 ELSE first.pos + 1  BY <2>1 DEF SourceAt
  <2>5. ~first'.have  BY <1>2 DEF Tx!NoFirst
  <2> QED  BY <2>1, <2>2, <2>3, <2>4, <2>5, <1>0, <1>2, SendByteWire
<1>3. CASE ~first.have /\ src.valid /\ Tx!SendByte(src.pos, src.last) /\ UNCHANGED first
  <2>1. ASSUME ~er_seen
        PROVE  /\ Tx!Handshake
               /\ \E k \in Positions :
                    /\ src.pos = k + data_cnt
                    /\ tx_taken' = data_cnt + 1
                    /\ k > 0 => cut
                    /\ Reads(wire, k, data_cnt, PreambleLen + 1 + data_cnt)
    <3>1. Tx!Handshake  BY <2>1, <1>0, <1>3 DEF BytesInv, Tx!Handshake
    <3>2. PICK k \in Positions : /\ src.pos = k + data_cnt
                                 /\ OnLine(k, data_cnt, PreambleLen + 1 + data_cnt)
      BY <2>1, <1>0, <1>3 DEF BytesInv
    <3> QED  BY <3>1, <3>2, <1>1 DEF OnLine
  <2>2. CASE ~er_seen
    <3>1. src'.pos = IF src.last THEN 0 ELSE src.pos + 1  BY <2>1, <2>2 DEF SourceAt
    <3> QED  BY <3>1, <2>1, <1>0, <1>3, SendByteWire
  <2>3. CASE er_seen
    <3>1. er_seen'  BY <2>3, <1>0 DEF Tx!Observe
    <3>2. PICK s : gmii'.sym = s  OBVIOUS
    <3>3. gmii'.sym = Tx!Symbol("data", src.pos) /\ Tx!Symbol("data", src.pos) \in Symbols
      <4>1. "data" \in Kinds \ {"none"}  BY DEF Kinds
      <4> QED  BY <4>1, <1>0, <1>3, SymbolKinds DEF Tx!SendByte, Tx!Drive
    <3>4. wire' \in Seq(Symbols) /\ wire' # << >>
      BY <3>3, <1>0, LineGrows
    <3>5. ~first'.have /\ state' \notin {"PREAMBLE", "SFD"}  BY <1>3 DEF Tx!SendByte
    <3> QED  BY <3>1, <3>4, <3>5, <1>0, HeadPast, ErrorShown DEF WireInv
  <2> QED  BY <2>2, <2>3
<1> QED  BY <1>2, <1>3 DEF Tx!DataByte

\* An underrun shows tx_er.
LEMMA UnderrunWire ==
  ASSUME LineInv, WireInv, Tx!Observe, SourceAt, Tx!Underrun
  PROVE  WireInv'
PROOF
<1>0. HeadInv /\ gmii.en /\ wire # << >> /\ wire \in Seq(Symbols)
  BY DEF LineInv, WireInv, GapInv, HeadInv, Tx!Underrun
<1>1. /\ gmii' = [en |-> TRUE, er |-> TRUE, sym |-> Tx!Quiet]
      /\ ~first'.have /\ state' \in {"DATA", "IFG"}
  BY DEF Tx!Underrun, Tx!Drive, Tx!Quiet
<1>2. wire' = wire /\ er_seen'  BY <1>1 DEF Tx!Observe
<1>3. gmii'.en = TRUE /\ state' \notin {"PREAMBLE", "SFD"}  BY <1>1
<1>4. wire' \in Seq(Symbols) /\ wire' # << >>  BY <1>0, <1>2
<1> QED  BY <1>1, <1>2, <1>3, <1>4, HeadPast, ErrorShown DEF WireInv

\* Padding goes on up to the minimum.
LEMMA PadWire ==
  ASSUME LineInv, WireInv, Tx!Observe, SourceAt, Tx!Pad
  PROVE  WireInv'
PROOF
<1> DEFINE s == Tx!Symbol("pad", 0)
<1>0. /\ PreambleLen \in Nat /\ MinFrame \in Nat /\ data_cnt \in Nat
      /\ crc_accum = data_cnt
      /\ state = "PAD" /\ ~first.have /\ ~Tx!Handshake /\ HeadInv /\ PadInv
  BY TxAssumption DEF LineInv, WireInv, BodyInv, FsmTypes, ControlInv, Tx!Pad, Tx!Handshake
<1>1. /\ gmii'.en = TRUE /\ gmii'.er = FALSE /\ gmii'.sym = s /\ first' = first
      /\ data_cnt' = data_cnt + 1
      /\ IF data_cnt >= MinFrame - 1
         THEN state' = "CRC" /\ count' = 0 /\ crc_saved' = crc_accum + 1
         ELSE state' = "PAD"
  BY <1>0 DEF Tx!Pad, Tx!Drive
<1>2. s \in Symbols /\ s # Tx!Quiet
  <2>1. "pad" \in Kinds \ {"none"} /\ 0 \in Nat  BY DEF Kinds
  <2> QED  BY <2>1, SymbolKinds
<1>3. /\ wire' = Append(wire, s) /\ wire' \in Seq(Symbols) /\ wire' # << >>
      /\ cut' = cut /\ tx_taken' = tx_taken
      /\ ~er_seen' => ~er_seen
  <2> HIDE DEF s
  <2> QED  BY <1>0, <1>1, <1>2, LineGrows
<1>4. state' \in {"PAD", "CRC"} /\ src'.pos = src.pos  BY <1>0, <1>1 DEF SourceAt
<1>5. HeadInv'
  <2>1. state' \notin {"PREAMBLE", "SFD"}  BY <1>4
  <2> QED  BY <2>1, <1>0, <1>1, <1>3, HeadPast
<1>6. ASSUME ~er_seen' PROVE BodyInv'
  <2>0. /\ src.pos = 0 /\ data_cnt < MinFrame
        /\ \E k \in Positions, n \in 1 .. MaxLen :
              n < data_cnt /\ OnLine(k, n, PreambleLen + 1 + data_cnt)
    BY <1>0, <1>3, <1>6 DEF PadInv
  <2>1. PICK k \in Positions, n \in 1 .. MaxLen :
          n < data_cnt /\ OnLine(k, n, PreambleLen + 1 + data_cnt)
    BY <2>0
  <2>2. /\ n \in Nat /\ k \in Nat /\ PreambleLen + 1 + data_cnt \in Nat /\ n <= data_cnt
    BY <2>1, <1>0, TxAssumption DEF Positions
  <2>3. /\ tx_taken' = n /\ (k > 0 => cut') /\ Reads(wire, k, n, PreambleLen + 1 + data_cnt)
    BY <2>1, <1>3 DEF OnLine
  <2>4. s = SymAt(k, n, PreambleLen + 1 + data_cnt + 1)
    <3>1. n <= data_cnt /\ data_cnt < MinFrame  BY <2>0, <2>2
    <3>2. SymAt(k, n, PreambleLen + 1 + data_cnt + 1) = Tx!Symbol("pad", 0)
      <4>1. PICK c \in Nat : c = data_cnt  BY <1>0
      <4>2. n <= c /\ c < MinFrame  BY <3>1, <4>1
      <4>3. SymAt(k, n, PreambleLen + 1 + c + 1) = Tx!Symbol("pad", 0)
        BY ONLY <4>2, <2>2, SymbolAt, c \in Nat
      <4> QED  BY <4>1, <4>3
    <3> QED  BY <3>2
  <2> HIDE DEF s
  <2>5. Reads(wire', k, n, PreambleLen + 1 + data_cnt + 1)
    BY ONLY <2>2, <2>3, <2>4, <1>2, <1>3, ReadsNext
  <2>6. CASE data_cnt >= MinFrame - 1
    <3>1. state' = "CRC" /\ count' = 0 /\ crc_saved' = data_cnt + 1
          /\ data_cnt = MinFrame - 1 /\ n <= MinFrame
      BY <2>0, <2>1, <2>2, <2>6, <1>0, <1>1
    <3>2. Tx!Maximum(n, MinFrame) = MinFrame  BY <3>1, <2>2, BodyLength
    <3>3. /\ crc_saved' = Tx!Maximum(n, MinFrame)
          /\ PreambleLen + 1 + Tx!Maximum(n, MinFrame) + count' = PreambleLen + 1 + data_cnt + 1
      BY <3>1, <3>2, <1>0
    <3>4. CrcInv'  BY <3>3, <2>0, <2>3, <2>5, <1>4 DEF CrcInv, OnLine
    <3> QED  BY <3>1, <3>4 DEF BodyInv, BytesInv, EndedInv, PadInv, SentInv
  <2>7. CASE ~(data_cnt >= MinFrame - 1)
    <3>1. state' = "PAD" /\ data_cnt' < MinFrame /\ n < data_cnt'
          /\ PreambleLen + 1 + data_cnt' = PreambleLen + 1 + data_cnt + 1
      BY <2>2, <2>7, <1>0, <1>1
    <3>2. PadInv'  BY <3>1, <2>0, <2>3, <2>5, <1>4 DEF PadInv, OnLine
    <3> QED  BY <3>1, <3>2 DEF BodyInv, BytesInv, EndedInv, CrcInv, SentInv
  <2> QED  BY <2>6, <2>7
<1> QED  BY <1>5, <1>6, ErrorShown DEF WireInv

\* The four bytes of the FCS.
LEMMA CrcWire ==
  ASSUME LineInv, WireInv, Tx!Observe, SourceAt, Tx!Crc
  PROVE  WireInv'
PROOF
<1> DEFINE s == Tx!Symbol("crc", crc_saved)
<1>0. /\ PreambleLen \in Nat /\ count \in Nat /\ count < 4 /\ crc_saved \in Nat
      /\ state = "CRC" /\ ~first.have /\ ~Tx!Handshake /\ HeadInv /\ CrcInv
  BY TxAssumption DEF LineInv, WireInv, BodyInv, FsmTypes, ControlInv, Tx!Crc, Tx!Handshake
<1>1. /\ gmii'.en = TRUE /\ gmii'.er = FALSE /\ gmii'.sym = s /\ first' = first
      /\ crc_saved' = crc_saved
      /\ state' = IF count = 3 THEN "IFG" ELSE "CRC"
      /\ count' = IF count = 3 THEN 0 ELSE count + 1
  BY <1>0 DEF Tx!Crc, Tx!Drive
<1>2. s \in Symbols /\ s # Tx!Quiet
  <2>1. "crc" \in Kinds \ {"none"}  BY DEF Kinds
  <2> QED  BY <2>1, <1>0, SymbolKinds
<1>3. /\ wire' = Append(wire, s) /\ wire' \in Seq(Symbols) /\ wire' # << >>
      /\ cut' = cut /\ tx_taken' = tx_taken
      /\ ~er_seen' => ~er_seen
  <2> HIDE DEF s
  <2> QED  BY <1>0, <1>1, <1>2, LineGrows
<1>4. state' \in {"CRC", "IFG"} /\ src'.pos = src.pos  BY <1>0, <1>1 DEF SourceAt
<1>5. HeadInv'
  <2>1. state' \notin {"PREAMBLE", "SFD"}  BY <1>4
  <2> QED  BY <2>1, <1>0, <1>1, <1>3, HeadPast
<1>6. ASSUME ~er_seen' PROVE BodyInv'
  <2>0. /\ src.pos = 0
        /\ \E k \in Positions, n \in 1 .. MaxLen :
              /\ crc_saved = Tx!Maximum(n, MinFrame)
              /\ OnLine(k, n, PreambleLen + 1 + Tx!Maximum(n, MinFrame) + count)
    BY <1>0, <1>3, <1>6 DEF CrcInv
  <2>1. PICK k \in Positions, n \in 1 .. MaxLen :
          /\ crc_saved = Tx!Maximum(n, MinFrame)
          /\ OnLine(k, n, PreambleLen + 1 + Tx!Maximum(n, MinFrame) + count)
    BY <2>0
  <2>2. n \in Nat /\ k \in Nat  BY TxAssumption DEF Positions
  <2>3. Tx!Maximum(n, MinFrame) \in Nat
        /\ PreambleLen + 1 + Tx!Maximum(n, MinFrame) + count \in Nat
    BY <2>2, <1>0, BodyLength
  <2>4. /\ tx_taken' = n /\ (k > 0 => cut')
        /\ Reads(wire, k, n, PreambleLen + 1 + Tx!Maximum(n, MinFrame) + count)
    BY <2>1, <1>3 DEF OnLine
  <2>5. s = SymAt(k, n, PreambleLen + 1 + Tx!Maximum(n, MinFrame) + count + 1)
    <3>1. s = Tx!Symbol("crc", Tx!Maximum(n, MinFrame))  BY <2>1
    <3> QED  BY ONLY <3>1, <2>2, <1>0, SymbolAt
  <2> HIDE DEF s
  <2>6. Reads(wire', k, n, PreambleLen + 1 + Tx!Maximum(n, MinFrame) + count + 1)
    BY ONLY <2>2, <2>3, <2>4, <2>5, <1>2, <1>3, ReadsNext
  <2>7. CASE count = 3
    <3>1. state' = "IFG"
          /\ PreambleLen + 1 + Tx!Maximum(n, MinFrame) + 4
               = PreambleLen + 1 + Tx!Maximum(n, MinFrame) + count + 1
      BY <2>3, <2>7, <1>0, <1>1
    <3>2. SentInv'  BY <3>1, <2>0, <2>4, <2>6, <1>4 DEF SentInv, OnLine
    <3> QED  BY <3>1, <3>2 DEF BodyInv, BytesInv, EndedInv, PadInv, CrcInv
  <2>8. CASE count # 3
    <3>1. state' = "CRC"
          /\ PreambleLen + 1 + Tx!Maximum(n, MinFrame) + count'
               = PreambleLen + 1 + Tx!Maximum(n, MinFrame) + count + 1
      BY <2>3, <2>8, <1>0, <1>1
    <3>2. CrcInv'  BY <3>1, <2>0, <2>1, <2>4, <2>6, <1>1, <1>4 DEF CrcInv, OnLine
    <3> QED  BY <3>1, <3>2 DEF BodyInv, BytesInv, EndedInv, PadInv, SentInv
  <2> QED  BY <2>7, <2>8
<1> QED  BY <1>5, <1>6, ErrorShown DEF WireInv

\* The frame leaves the line in its first idle cycle: a source frame has then been
\* taken whole, unless tx_er was shown.
LEMMA IfgWire ==
  ASSUME LineInv, WireInv, Tx!Observe, SourceAt, Tx!Ifg
  PROVE  WireInv'
PROOF
<1>0. /\ state = "IFG" /\ ~first.have /\ ~Tx!Handshake /\ HeadInv /\ SentInv
  BY DEF LineInv, WireInv, BodyInv, ControlInv, Tx!Ifg, Tx!Handshake
<1>1. /\ gmii'.en = FALSE /\ gmii'.er = FALSE
      /\ first' = first /\ state' \in {"IDLE", "IFG"}
  BY DEF Tx!Ifg, Tx!Silent
<1>2. /\ wire' = << >> /\ ~er_seen'
      /\ tx_taken' = IF wire # << >> THEN 0 ELSE tx_taken
      /\ cut' = IF wire # << >> THEN er_seen ELSE cut
  BY <1>0, <1>1 DEF Tx!Observe
<1>3. src'.pos = src.pos  BY <1>0 DEF SourceAt
<1>4. tx_taken' = 0 /\ (src'.pos > 0 => cut')
  <2>1. CASE wire # << >>
    <3>1. CASE ~er_seen
      <4>1. src.pos = 0  BY <3>1, <2>1, <1>0 DEF SentInv
      <4> QED  BY <4>1, <2>1, <1>2, <1>3
    <3>2. CASE er_seen  BY <3>2, <2>1, <1>2
    <3> QED  BY <3>1, <3>2
  <2>2. CASE wire = << >>  BY <2>2, <1>0, <1>2, <1>3 DEF HeadInv
  <2> QED  BY <2>1, <2>2
<1>5. HeadInv'
  <2>1. << >> \in Seq(Symbols)  BY ReadsNothing DEF Reads
  <2> QED  BY <2>1, <1>0, <1>1, <1>2, <1>4 DEF HeadInv
<1>6. BodyInv'  BY <1>1, <1>2 DEF BodyInv, BytesInv, EndedInv, PadInv, CrcInv, SentInv
<1> QED  BY <1>5, <1>6 DEF WireInv

\* Every reachable state satisfies the invariant of the frame on the line.
LEMMA WireInductive == Tx!Spec => []WireInv
PROOF
<1>1. Tx!Init => WireInv
  <2> SUFFICES ASSUME Tx!Init PROVE WireInv  OBVIOUS
  <2>1. << >> \in Seq(Symbols)  BY ReadsNothing DEF Reads
  <2>2. HeadInv  BY <2>1 DEF Tx!Init, HeadInv, Tx!NoFirst
  <2>3. BodyInv  BY DEF Tx!Init, BodyInv, BytesInv, EndedInv, PadInv, CrcInv, SentInv
  <2> QED  BY <2>2, <2>3 DEF WireInv
<1>2. LineInv /\ WireInv /\ [Tx!Next]_(Tx!vars) => WireInv'
  <2> SUFFICES ASSUME LineInv, WireInv, [Tx!Next]_(Tx!vars) PROVE WireInv'  OBVIOUS
  <2>1. ASSUME NEW tx_start_ok \in BOOLEAN, Tx!Edge(tx_start_ok) PROVE WireInv'
    <3>1. Tx!Step(tx_start_ok) /\ Tx!Observe  BY <2>1 DEF Tx!Edge
    <3>2. SourceAt
      <4>1. PICK valid \in BOOLEAN, last \in BOOLEAN, bubble \in Bubbles :
                   Tx!Source(valid, last, bubble)
        BY <2>1 DEF Tx!Edge
      <4>2. SourceInv /\ tready \in BOOLEAN  BY DEF LineInv, FsmTypes
      <4> QED  BY <4>1, <4>2, SourceMoves DEF SourceAt
    <3> QED  BY <3>1, <3>2, IdleWire, PreambleWire, SfdWire, DataEndWire, DataByteWire,
                UnderrunWire, PadWire, CrcWire, IfgWire DEF Tx!Step
  <2>2. CASE Tx!Next  BY <2>1, <2>2 DEF Tx!Next
  <2>3. CASE UNCHANGED Tx!vars
    <3>1. HeadInv'  BY <2>3 DEF Tx!vars, Tx!fsm, WireInv, HeadInv
    <3>2. BodyInv'
      BY <2>3 DEF Tx!vars, Tx!fsm, WireInv, BodyInv, BytesInv, EndedInv, PadInv, CrcInv, SentInv,
                  OnLine
    <3> QED  BY <3>1, <3>2 DEF WireInv
  <2> QED  BY <2>2, <2>3
<1> QED  BY <1>1, <1>2, LineInductive, PTL DEF Tx!Spec

-----------------------------------------------------------------------------
(* What leaves the line *)

\* The bytes of a frame on the line: none before the SFD is out, all n once they are.
LEMMA DataCounted ==
  ASSUME NEW k \in Nat, NEW n \in Nat, NEW m \in Nat, Reads(wire, k, n, m)
  PROVE  /\ m <= PreambleLen + 1 => Cardinality(Tx!DataOnWire) = 0
         /\ m >= PreambleLen + 1 + n => Cardinality(Tx!DataOnWire) = n
PROOF
<1>0. PreambleLen \in Nat /\ Len(wire) = m /\ \A i \in 1 .. m : wire[i] = SymAt(k, n, i)
  BY TxAssumption DEF Reads
<1>1. ASSUME NEW i \in 1 .. m
      PROVE  wire[i].kind = "data" <=> i > PreambleLen + 1 /\ i <= PreambleLen + 1 + n
  <2>1. wire[i] = SymAt(k, n, i)  BY <1>0
  <2>2. CASE i <= PreambleLen
    <3>1. wire[i] = Tx!Symbol("pre", 0)  BY <2>1, <2>2 DEF SymAt
    <3>2. ~(i > PreambleLen + 1)  BY <2>2, <1>0
    <3> QED  BY <3>1, <3>2 DEF Tx!Symbol
  <2>3. CASE i = PreambleLen + 1
    <3>1. ~(i <= PreambleLen) /\ ~(i > PreambleLen + 1)  BY <2>3, <1>0
    <3>2. wire[i] = Tx!Symbol("sfd", 0)  BY <2>1, <2>3, <3>1 DEF SymAt
    <3> QED  BY <3>1, <3>2 DEF Tx!Symbol
  <2>4. CASE i > PreambleLen + 1
    <3>1. ~(i <= PreambleLen) /\ i # PreambleLen + 1  BY <2>4, <1>0
    <3>2. CASE i <= PreambleLen + 1 + n
      <4>1. wire[i] = Tx!Symbol("data", k + (i - PreambleLen - 2))
        BY <2>1, <3>1, <3>2 DEF SymAt
      <4> QED  BY <4>1, <3>2, <2>4 DEF Tx!Symbol
    <3>3. CASE ~(i <= PreambleLen + 1 + n)
      <4>1. \/ wire[i] = Tx!Symbol("pad", 0)
            \/ wire[i] = Tx!Symbol("crc", Tx!Maximum(n, MinFrame))
        BY <2>1, <3>1, <3>3 DEF SymAt
      <4> QED  BY <4>1, <3>3 DEF Tx!Symbol
    <3> QED  BY <3>2, <3>3
  <2> QED  BY <2>2, <2>3, <2>4, <1>0
<1>2. ASSUME m <= PreambleLen + 1 PROVE Cardinality(Tx!DataOnWire) = 0
  <2>1. \A i \in 1 .. m : ~(i > PreambleLen + 1)  BY <1>0, <1>2
  <2>2. Tx!DataOnWire = {}  BY <2>1, <1>0, <1>1 DEF Tx!DataOnWire
  <2> QED  BY <2>2, FS_EmptySet
<1>3. ASSUME m >= PreambleLen + 1 + n PROVE Cardinality(Tx!DataOnWire) = n
  <2> DEFINE first_ == PreambleLen + 2
             last_ == PreambleLen + 1 + n
  <2>1. Tx!DataOnWire = {i \in 1 .. m : i > PreambleLen + 1 /\ i <= PreambleLen + 1 + n}
    BY <1>0, <1>1 DEF Tx!DataOnWire
  <2>2. Tx!DataOnWire = first_ .. last_  BY <2>1, <1>0, <1>3
  <2>3. first_ \in Int /\ last_ \in Int /\ (first_ > last_ => n = 0)
        /\ last_ - first_ + 1 = n
    BY <1>0
  <2> HIDE DEF first_, last_
  <2>4. Cardinality(first_ .. last_) = IF first_ > last_ THEN 0 ELSE last_ - first_ + 1
    BY <2>3, FS_Interval
  <2> QED  BY <2>2, <2>3, <2>4
<1> QED  BY <1>2, <1>3

\* The invariant of the line and the one of the frame on it say that a frame leaves
\* exactly as it was taken.
LEMMA WireExact ==
  ASSUME LineInv, WireInv
  PROVE  Tx!WireFrameExact
PROOF
<1> SUFFICES ASSUME ~er_seen
             PROVE  /\ tx_taken = Cardinality(Tx!DataOnWire) + (IF first.have THEN 1 ELSE 0)
                    /\ (wire # << >> /\ state = "IFG") =>
                         \E k \in 0 .. MaxLen - 1, n \in 1 .. MaxLen :
                            wire = Tx!Framed(k, n) /\ tx_taken = n /\ (k > 0 => cut)
  BY DEF Tx!WireFrameExact, Tx!Cardinality, Cardinality
<1>0. /\ PreambleLen \in Nat /\ count \in Nat /\ data_cnt \in Nat /\ 0 \in Nat
      /\ state \in Tx!States /\ first.have \in BOOLEAN /\ frame_ended \in BOOLEAN
      /\ HeadInv /\ BytesInv /\ EndedInv /\ PadInv /\ CrcInv /\ SentInv
      /\ Positions \subseteq Nat /\ 1 .. MaxLen \subseteq Nat
  BY TxAssumption DEF LineInv, FsmTypes, WireInv, BodyInv, Positions
<1>1. \A k \in Positions, n \in 1 .. MaxLen : Tx!Maximum(n, MinFrame) \in Nat
                                              /\ Tx!Maximum(n, MinFrame) >= n
  BY <1>0, BodyLength
<1>2. ASSUME NEW k \in Positions, NEW n \in 1 .. MaxLen, NEW m \in Nat,
             OnLine(k, n, m), m >= PreambleLen + 1 + n, ~first.have
      PROVE  tx_taken = Cardinality(Tx!DataOnWire) + (IF first.have THEN 1 ELSE 0)
  <2>1. k \in Nat /\ n \in Nat  BY <1>0
  <2>2. Cardinality(Tx!DataOnWire) = n  BY <2>1, <1>2, DataCounted DEF OnLine
  <2> QED  BY <2>1, <2>2, <1>2 DEF OnLine
<1>3. ASSUME NEW m \in Nat, m <= PreambleLen + 1, Reads(wire, 0, 0, m),
             wire = << >> \/ first.have
      PROVE  tx_taken = Cardinality(Tx!DataOnWire) + (IF first.have THEN 1 ELSE 0)
  <2>1. Cardinality(Tx!DataOnWire) = 0  BY <1>0, <1>3, DataCounted
  <2>2. tx_taken = IF first.have THEN 1 ELSE 0  BY <1>0, <1>3 DEF HeadInv
  <2> QED  BY <2>1, <2>2
<1>4. CASE wire = << >>
  <2>1. Reads(wire, 0, 0, 0)  BY <1>4, ReadsNothing
  <2>2. 0 <= PreambleLen + 1  BY <1>0
  <2> QED  BY <2>1, <2>2, <1>0, <1>3, <1>4
<1>5. CASE state = "PREAMBLE"
  <2>1. Reads(wire, 0, 0, count) /\ first.have /\ count <= PreambleLen + 1
    BY <1>0, <1>5 DEF HeadInv, LineInv, ControlInv
  <2> QED  BY <2>1, <1>0, <1>3, <1>5
<1>6. CASE state = "SFD"
  <2>1. Reads(wire, 0, 0, PreambleLen) /\ first.have /\ PreambleLen <= PreambleLen + 1
    BY <1>0, <1>6 DEF HeadInv, LineInv, ControlInv
  <2> QED  BY <2>1, <1>0, <1>3, <1>6
<1>7. CASE state = "DATA" /\ first.have
  <2>1. /\ Reads(wire, 0, 0, PreambleLen + 1) /\ PreambleLen + 1 \in Nat
        /\ PreambleLen + 1 <= PreambleLen + 1
    BY <1>0, <1>7 DEF HeadInv
  <2> QED  BY <2>1, <1>3, <1>7
<1>8. CASE state = "DATA" /\ ~first.have
  <2>1. PICK k \in Positions : OnLine(k, data_cnt, PreambleLen + 1 + data_cnt)
    BY <1>0, <1>8 DEF BytesInv, EndedInv
  <2>2. /\ data_cnt \in 1 .. MaxLen /\ PreambleLen + 1 + data_cnt \in Nat
        /\ PreambleLen + 1 + data_cnt >= PreambleLen + 1 + data_cnt
    BY <2>1, <1>0 DEF OnLine
  <2> QED  BY <2>1, <2>2, <1>2, <1>8
<1>9. CASE state = "PAD"
  <2>1. PICK k \in Positions, n \in 1 .. MaxLen :
          n < data_cnt /\ OnLine(k, n, PreambleLen + 1 + data_cnt)
    BY <1>0, <1>9 DEF PadInv
  <2>2. /\ PreambleLen + 1 + data_cnt \in Nat
        /\ PreambleLen + 1 + data_cnt >= PreambleLen + 1 + n
    BY <2>1, <1>0
  <2>3. ~first.have  BY <1>9 DEF LineInv, ControlInv
  <2> QED  BY <2>1, <2>2, <2>3, <1>2, <1>9
<1>10. CASE state = "CRC"
  <2>1. PICK k \in Positions, n \in 1 .. MaxLen :
          OnLine(k, n, PreambleLen + 1 + Tx!Maximum(n, MinFrame) + count)
    BY <1>0, <1>10 DEF CrcInv
  <2>2. /\ PreambleLen + 1 + Tx!Maximum(n, MinFrame) + count \in Nat
        /\ PreambleLen + 1 + Tx!Maximum(n, MinFrame) + count >= PreambleLen + 1 + n
    <3>1. Tx!Maximum(n, MinFrame) \in Nat /\ Tx!Maximum(n, MinFrame) >= n /\ n \in Nat
      BY <1>0, <1>1
    <3> QED  BY ONLY <3>1, <1>0
  <2>3. ~first.have  BY <1>10 DEF LineInv, ControlInv
  <2> QED  BY <2>1, <2>2, <2>3, <1>2, <1>10
<1>11. CASE state = "IFG" /\ wire # << >>
  <2>1. PICK k \in Positions, n \in 1 .. MaxLen :
          OnLine(k, n, PreambleLen + 1 + Tx!Maximum(n, MinFrame) + 4)
    BY <1>0, <1>11 DEF SentInv
  <2>2. /\ PreambleLen + 1 + Tx!Maximum(n, MinFrame) + 4 \in Nat
        /\ PreambleLen + 1 + Tx!Maximum(n, MinFrame) + 4 >= PreambleLen + 1 + n
    <3>1. Tx!Maximum(n, MinFrame) \in Nat /\ Tx!Maximum(n, MinFrame) >= n /\ n \in Nat
      BY <1>0, <1>1
    <3> QED  BY ONLY <3>1, <1>0
  <2>3. ~first.have  BY <1>11 DEF LineInv, ControlInv
  <2>4. wire = Tx!Framed(k, n)
    <3>1. k \in Nat /\ n \in Nat  BY <1>0
    <3> QED  BY <3>1, <2>1, ReadsWhole DEF OnLine
  <2>5. tx_taken = Cardinality(Tx!DataOnWire) + (IF first.have THEN 1 ELSE 0)
    BY <2>1, <2>2, <2>3, <1>2
  <2>6. tx_taken = n /\ (k > 0 => cut)  BY <2>1 DEF OnLine
  <2> QED  BY <2>4, <2>5, <2>6 DEF Positions
<1>12. state = "IDLE" => wire = << >>
  BY <1>0 DEF LineInv, GapInv, HeadInv
<1> QED  BY <1>0, <1>4, <1>5, <1>6, <1>7, <1>8, <1>9, <1>10, <1>11, <1>12 DEF Tx!States

\* The framing of eth_mac_tx.v with a registered tready: a frame that leaves the line
\* without tx_er is one source frame, whole, in order, each byte once, padded and with
\* an FCS over all of it, for every length of frame, every moment at which tx_start_ok
\* falls and every pause of the source; only after a frame that showed tx_er may it be
\* the rest of a source frame.
LEMMA FramerLeavesExact == Tx!Spec => []Tx!WireFrameExact
  BY LineInductive, WireInductive, WireExact, PTL

\* No frame starts before the full gap (eth_mac_tx.v 250-264): whenever the line goes
\* from silent to driven, IFG_BYTES idle cycles have passed, for every length of gap.
THEOREM GapNeverShort == BlocksSpec => GapKept
  BY FramerKeepsGap, TxRuns, PTL DEF GapKept

\* The framing of eth_mac_tx.v (113-268): a frame that leaves the line without tx_er is
\* one source frame, whole, in order, each byte once, padded and with an FCS over all of
\* it, for every length of frame and every pause of the source; only after a frame that
\* showed tx_er may it be the rest of a source frame.
THEOREM FramesLeaveExact == BlocksSpec => []WireFrameExact
  BY FramerLeavesExact, TxRuns, PTL DEF WireFrameExact

-----------------------------------------------------------------------------
(* The pointer machine of sync_fifo.v is the bounded queue of FwftFifo, for *)
(* every depth and every set of words.  The lemmas see the memory through a *)
(* window of n cells that starts at a pointer: a read drops its first cell, *)
(* a push adds the cell behind its last.                                    *)

Cells == 0 .. Depth - 1

\* What the registers may hold.
CellsInv ==
  /\ mem \in [Cells -> Word \cup {Garbage}]
  /\ wr_ptr \in Fifo!Ptr /\ rd_ptr \in Fifo!Ptr
  /\ dout_valid_r \in BOOLEAN

\* The write pointer is never more than the memory ahead of the read pointer:
\* what makes full and empty two different distances.
PointersInv == CellsInv /\ Fifo!Occ <= Depth

\* The n cells of m from pointer r on.
Window(m, r, n) == [i \in 1 .. n |-> m[Fifo!Addr(Fifo!Plus(r, i - 1))]]

-----------------------------------------------------------------------------
(* The pointers *)

\* Every pointer addresses a cell, and a pointer moved by at most a lap is one.
LEMMA PointerRange ==
  ASSUME NEW p \in Fifo!Ptr, NEW n \in 0 .. 2 * Depth - 1
  PROVE  /\ Fifo!Addr(p) \in Cells
         /\ Fifo!Plus(p, n) \in Fifo!Ptr
         /\ Fifo!Inc(p) \in Fifo!Ptr
  BY FifoAssumption DEF Fifo!Ptr, Fifo!Addr, Cells, Fifo!Plus, Fifo!Inc

\* The distance is what has to be added to the one to reach the other.
LEMMA DistReaches ==
  ASSUME NEW a \in Fifo!Ptr, NEW b \in Fifo!Ptr
  PROVE  /\ Fifo!Dist(a, b) \in 0 .. 2 * Depth - 1
         /\ Fifo!Plus(a, Fifo!Dist(a, b)) = b
  BY FifoAssumption DEF Fifo!Ptr, Fifo!Dist, Fifo!Plus

\* A step of the pointer ahead opens the distance by one, one of the pointer
\* behind closes it by one.
LEMMA DistSteps ==
  ASSUME NEW a \in Fifo!Ptr, NEW b \in Fifo!Ptr
  PROVE  /\ Fifo!Dist(a, b) < 2 * Depth - 1 => Fifo!Dist(a, Fifo!Inc(b)) = Fifo!Dist(a, b) + 1
         /\ Fifo!Dist(a, b) > 0 => Fifo!Dist(Fifo!Inc(a), b) = Fifo!Dist(a, b) - 1
         /\ Fifo!Dist(Fifo!Inc(a), Fifo!Inc(b)) = Fifo!Dist(a, b)
  BY FifoAssumption DEF Fifo!Ptr, Fifo!Dist, Fifo!Inc

\* One step, then n more, are n + 1.
LEMMA IncPlus ==
  ASSUME NEW p \in Fifo!Ptr, NEW n \in 0 .. 2 * Depth - 2
  PROVE  Fifo!Plus(Fifo!Inc(p), n) = Fifo!Plus(p, n + 1)
  BY FifoAssumption DEF Fifo!Ptr, Fifo!Plus, Fifo!Inc

\* No two pointers less than the memory apart address the same cell.
LEMMA CellsApart ==
  ASSUME NEW p \in Fifo!Ptr, NEW i \in 0 .. Depth, NEW n \in 0 .. Depth - 1, i < n
  PROVE  Fifo!Addr(Fifo!Plus(p, i)) # Fifo!Addr(Fifo!Plus(p, n))
  BY FifoAssumption DEF Fifo!Ptr, Fifo!Plus, Fifo!Addr

-----------------------------------------------------------------------------
(* The window *)

\* A window is a sequence of its cells.
LEMMA WindowIsSeq ==
  ASSUME NEW m \in [Cells -> Word \cup {Garbage}], NEW r \in Fifo!Ptr, NEW n \in 0 .. Depth
  PROVE  /\ Window(m, r, n) \in Seq(Word \cup {Garbage})
         /\ Len(Window(m, r, n)) = n
         /\ \A i \in 1 .. n : Window(m, r, n)[i] = m[Fifo!Addr(Fifo!Plus(r, i - 1))]
PROOF
<1>1. \A i \in 1 .. n : m[Fifo!Addr(Fifo!Plus(r, i - 1))] \in Word \cup {Garbage}
  <2> TAKE i \in 1 .. n
  <2>1. i - 1 \in 0 .. 2 * Depth - 1  BY FifoAssumption
  <2>2. Fifo!Addr(Fifo!Plus(r, i - 1)) \in Cells  BY <2>1, PointerRange
  <2> QED  BY <2>2
<1>2. n \in Nat  BY FifoAssumption
<1>3. Window(m, r, n) \in [1 .. n -> Word \cup {Garbage}]  BY <1>1 DEF Window
<1>4. Window(m, r, n) \in Seq(Word \cup {Garbage})  BY <1>2, <1>3
<1>5. Len(Window(m, r, n)) = n  BY <1>2, <1>3, <1>4
<1>6. \A i \in 1 .. n : Window(m, r, n)[i] = m[Fifo!Addr(Fifo!Plus(r, i - 1))]
  BY DEF Window
<1> QED  BY <1>4, <1>5, <1>6

\* An empty window is the empty queue, and no other is.
LEMMA WindowEmpty ==
  ASSUME NEW m \in [Cells -> Word \cup {Garbage}], NEW r \in Fifo!Ptr, NEW n \in 0 .. Depth
  PROVE  Window(m, r, n) = << >> <=> n = 0
PROOF
<1>1. /\ Window(m, r, n) \in Seq(Word \cup {Garbage})
      /\ Len(Window(m, r, n)) = n  BY WindowIsSeq
<1> QED  BY <1>1, EmptySeq

\* A read takes the first cell and leaves the window of the next pointer.
LEMMA WindowPop ==
  ASSUME NEW m \in [Cells -> Word \cup {Garbage}], NEW r \in Fifo!Ptr, NEW n \in 1 .. Depth
  PROVE  /\ Head(Window(m, r, n)) = m[Fifo!Addr(r)]
         /\ Tail(Window(m, r, n)) = Window(m, Fifo!Inc(r), n - 1)
PROOF
<1> DEFINE W == Window(m, r, n)
           V == Window(m, Fifo!Inc(r), n - 1)
           S == Word \cup {Garbage}
<1>1. n \in 0 .. Depth /\ n - 1 \in 0 .. Depth /\ n \in Nat /\ n # 0  BY FifoAssumption
<1>2. Fifo!Inc(r) \in Fifo!Ptr
  <2>1. 0 \in 0 .. 2 * Depth - 1  BY FifoAssumption
  <2> QED  BY <2>1, PointerRange
<1>3. /\ W \in Seq(S) /\ Len(W) = n
      /\ \A i \in 1 .. n : W[i] = m[Fifo!Addr(Fifo!Plus(r, i - 1))]  BY <1>1, WindowIsSeq
<1>4. /\ V \in Seq(S) /\ Len(V) = n - 1
      /\ \A i \in 1 .. n - 1 : V[i] = m[Fifo!Addr(Fifo!Plus(Fifo!Inc(r), i - 1))]
  BY <1>1, <1>2, WindowIsSeq
<1>5. W # << >>  BY <1>1, WindowEmpty
<1>6. Fifo!Plus(r, 0) = r  BY FifoAssumption DEF Fifo!Plus, Fifo!Ptr
<1> HIDE DEF W, V, S
<1>7. Head(W) = m[Fifo!Addr(r)]
  <2>1. Head(W) = W[1]  BY <1>3, <1>5
  <2>2. W[1] = m[Fifo!Addr(Fifo!Plus(r, 1 - 1))]  BY <1>1, <1>3
  <2> QED  BY <2>1, <2>2, <1>6
<1>8. \A i \in 1 .. n - 1 : W[i + 1] = V[i]
  <2> TAKE i \in 1 .. n - 1
  <2>1. W[i + 1] = m[Fifo!Addr(Fifo!Plus(r, i))]
    <3>1. i + 1 \in 1 .. n /\ (i + 1) - 1 = i  BY <1>1
    <3> QED  BY <3>1, <1>3
  <2>2. Fifo!Plus(Fifo!Inc(r), i - 1) = Fifo!Plus(r, i)
    <3>1. i - 1 \in 0 .. 2 * Depth - 2 /\ (i - 1) + 1 = i  BY FifoAssumption
    <3> QED  BY <3>1, IncPlus
  <2>3. V[i] = m[Fifo!Addr(Fifo!Plus(Fifo!Inc(r), i - 1))]  BY <1>4
  <2> QED  BY <2>1, <2>2, <2>3
<1>9. Tail(W) \in Seq(S) /\ Len(Tail(W)) = n - 1
      /\ \A i \in 1 .. n - 1 : Tail(W)[i] = W[i + 1]  BY <1>1, <1>3, <1>5, HeadTailProperties
<1>10. Tail(W) = V
  <2>1. \A i \in 1 .. Len(Tail(W)) : Tail(W)[i] = V[i]  BY <1>8, <1>9
  <2> QED  BY <1>4, <1>9, <2>1, SeqEqual
<1> QED  BY <1>7, <1>10 DEF W, V

\* A push behind a window that leaves a cell free adds its word to the window and
\* disturbs no other cell of it.
LEMMA WindowPush ==
  ASSUME NEW m \in [Cells -> Word \cup {Garbage}], NEW r \in Fifo!Ptr, NEW n \in 0 .. Depth - 1,
         NEW w \in Word
  PROVE  Append(Window(m, r, n), w)
         = Window([m EXCEPT ![Fifo!Addr(Fifo!Plus(r, n))] = w], r, n + 1)
PROOF
<1> DEFINE W == Window(m, r, n)
           c == Fifo!Addr(Fifo!Plus(r, n))
           k == [m EXCEPT ![c] = w]
           V == Window(k, r, n + 1)
           S == Word \cup {Garbage}
<1>1. n \in 0 .. Depth /\ n + 1 \in 0 .. Depth /\ n \in 0 .. 2 * Depth - 1 /\ n \in Nat
  BY FifoAssumption
<1>2. c \in Cells  BY <1>1, PointerRange
<1>3. k \in [Cells -> S]  OBVIOUS
<1>4. /\ W \in Seq(S) /\ Len(W) = n
      /\ \A i \in 1 .. n : W[i] = m[Fifo!Addr(Fifo!Plus(r, i - 1))]  BY <1>1, WindowIsSeq
<1>5. /\ V \in Seq(S) /\ Len(V) = n + 1
      /\ \A i \in 1 .. n + 1 : V[i] = k[Fifo!Addr(Fifo!Plus(r, i - 1))]
  BY <1>1, <1>3, WindowIsSeq
<1>6. k[c] = w /\ \A a \in Cells \ {c} : k[a] = m[a]  BY <1>2
<1>7. \A i \in 1 .. n : Fifo!Addr(Fifo!Plus(r, i - 1)) \in Cells \ {c}
  <2> TAKE i \in 1 .. n
  <2>1. i - 1 \in 0 .. 2 * Depth - 1 /\ i - 1 \in 0 .. Depth /\ i - 1 < n  BY FifoAssumption
  <2>2. Fifo!Addr(Fifo!Plus(r, i - 1)) \in Cells  BY <2>1, PointerRange
  <2>3. Fifo!Addr(Fifo!Plus(r, i - 1)) # Fifo!Addr(Fifo!Plus(r, n))  BY <2>1, CellsApart
  <2> QED  BY <2>2, <2>3
<1>8. w \in S  OBVIOUS
<1>9. c = Fifo!Addr(Fifo!Plus(r, (n + 1) - 1))  BY <1>1
<1> HIDE DEF W, V, S, k, c
<1>10. /\ Append(W, w) \in Seq(S) /\ Len(Append(W, w)) = n + 1
       /\ \A i \in 1 .. n : Append(W, w)[i] = W[i]
       /\ Append(W, w)[n + 1] = w  BY <1>1, <1>4, <1>8, AppendProperties
<1>11. \A i \in 1 .. n + 1 : Append(W, w)[i] = V[i]
  <2> TAKE i \in 1 .. n + 1
  <2>1. CASE i = n + 1
    <3>1. V[n + 1] = k[Fifo!Addr(Fifo!Plus(r, (n + 1) - 1))]  BY <1>1, <1>5
    <3> QED  BY <3>1, <1>6, <1>9, <1>10, <2>1
  <2>2. CASE i \in 1 .. n
    <3>1. V[i] = k[Fifo!Addr(Fifo!Plus(r, i - 1))]  BY <1>5
    <3>2. k[Fifo!Addr(Fifo!Plus(r, i - 1))] = m[Fifo!Addr(Fifo!Plus(r, i - 1))]
      BY <1>6, <1>7, <2>2
    <3> QED  BY <3>1, <3>2, <1>4, <1>10, <2>2
  <2>3. n \in Nat /\ i \in 1 .. n + 1 => i = n + 1 \/ i \in 1 .. n  OBVIOUS
  <2> QED  BY <2>1, <2>2, <2>3, <1>1
<1>12. Append(W, w) = V
  <2>1. \A i \in 1 .. Len(Append(W, w)) : Append(W, w)[i] = V[i]  BY <1>10, <1>11
  <2> QED  BY <1>5, <1>10, <2>1, SeqEqual
<1> QED  BY <1>12 DEF W, V, k, c

-----------------------------------------------------------------------------
(* The pointers never lap each other *)

\* Each clock edge: the write pointer only moves if a cell is free or is freed by
\* the read of the same edge, the read pointer only if a cell is occupied.
LEMMA ClockKeepsPointers ==
  ASSUME PointersInv,
         NEW wr_en \in BOOLEAN, NEW rd_en \in BOOLEAN, NEW w \in Word,
         Fifo!Clock(wr_en, w, rd_en)
  PROVE  PointersInv'
PROOF
<1> DEFINE push == Fifo!PushOk(wr_en, rd_en)
           read == Fifo!IssueRead(rd_en)
<1>0. /\ mem \in [Cells -> Word \cup {Garbage}]
      /\ wr_ptr \in Fifo!Ptr /\ rd_ptr \in Fifo!Ptr /\ dout_valid_r \in BOOLEAN
      /\ Fifo!Occ <= Depth
  BY DEF PointersInv, CellsInv
<1>1. 0 \in 0 .. 2 * Depth - 1  BY FifoAssumption
<1>2. /\ Fifo!Inc(wr_ptr) \in Fifo!Ptr /\ Fifo!Inc(rd_ptr) \in Fifo!Ptr
      /\ Fifo!Addr(wr_ptr) \in Cells  BY <1>0, <1>1, PointerRange
<1>3. mem' \in [Cells -> Word \cup {Garbage}]
  BY <1>0, <1>2 DEF Fifo!Clock
<1>4. wr_ptr' \in Fifo!Ptr /\ rd_ptr' \in Fifo!Ptr  BY <1>0, <1>2 DEF Fifo!Clock
<1>5. dout_valid_r' \in BOOLEAN
  <2>1. dout_valid_r' = (Fifo!IssueRead(rd_en) \/ (dout_valid_r /\ ~Fifo!Pop(rd_en)))
    BY DEF Fifo!Clock
  <2>2. Fifo!IssueRead(rd_en) \in BOOLEAN /\ Fifo!Pop(rd_en) \in BOOLEAN
    BY <1>0 DEF Fifo!IssueRead, Fifo!Pop
  <2>3. (Fifo!IssueRead(rd_en) \/ (dout_valid_r /\ ~Fifo!Pop(rd_en))) \in BOOLEAN
    BY <2>2, <1>0
  <2> QED  BY <2>1, <2>3
<1>6. Fifo!Dist(rd_ptr, wr_ptr) \in 0 .. 2 * Depth - 1  BY <1>0, DistReaches
<1>7. Fifo!Dist(rd_ptr, wr_ptr) <= Depth /\ Fifo!Dist(rd_ptr, wr_ptr) <= 2 * Depth - 1
  BY <1>0, <1>6, FifoAssumption DEF Fifo!Occ
<1>8. Fifo!Dist(rd_ptr', wr_ptr') <= Depth
  <2>1. CASE push /\ read
    <3>1. wr_ptr' = Fifo!Inc(wr_ptr) /\ rd_ptr' = Fifo!Inc(rd_ptr)  BY <2>1 DEF Fifo!Clock
    <3> QED  BY <3>1, <1>0, <1>7, DistSteps
  <2>2. CASE push /\ ~read
    <3>1. wr_ptr' = Fifo!Inc(wr_ptr) /\ rd_ptr' = rd_ptr  BY <2>2 DEF Fifo!Clock
    <3>2. Fifo!Dist(rd_ptr, wr_ptr) # Depth  BY <2>2 DEF Fifo!PushOk, Fifo!Full, Fifo!Occ
    <3>3. Fifo!Dist(rd_ptr, wr_ptr) < 2 * Depth - 1 /\ Fifo!Dist(rd_ptr, wr_ptr) + 1 <= Depth
      BY <3>2, <1>6, <1>7, FifoAssumption
    <3>4. Fifo!Dist(rd_ptr, Fifo!Inc(wr_ptr)) = Fifo!Dist(rd_ptr, wr_ptr) + 1
      BY <3>3, <1>0, DistSteps
    <3> QED  BY <3>1, <3>3, <3>4
  <2>3. CASE ~push /\ read
    <3>1. wr_ptr' = wr_ptr /\ rd_ptr' = Fifo!Inc(rd_ptr)  BY <2>3 DEF Fifo!Clock
    <3>2. Fifo!Dist(rd_ptr, wr_ptr) # 0  BY <2>3 DEF Fifo!IssueRead, Fifo!Empty, Fifo!Occ
    <3>3. Fifo!Dist(rd_ptr, wr_ptr) > 0  BY <3>2, <1>6, FifoAssumption
    <3>4. Fifo!Dist(Fifo!Inc(rd_ptr), wr_ptr) = Fifo!Dist(rd_ptr, wr_ptr) - 1
      BY <3>3, <1>0, DistSteps
    <3> QED  BY <3>1, <3>4, <1>6, <1>7, FifoAssumption
  <2>4. CASE ~push /\ ~read
    <3>1. wr_ptr' = wr_ptr /\ rd_ptr' = rd_ptr  BY <2>4 DEF Fifo!Clock
    <3> QED  BY <3>1, <1>7
  <2> QED  BY <2>1, <2>2, <2>3, <2>4
<1> QED  BY <1>3, <1>4, <1>5, <1>8 DEF PointersInv, CellsInv, Fifo!Occ

\* The pointers start together.
LEMMA InitPointers ==
  ASSUME Fifo!Init
  PROVE  PointersInv /\ Fifo!Occ = 0
PROOF
<1>1. mem \in [Cells -> Word \cup {Garbage}]  BY DEF Fifo!Init, Cells
<1>2. wr_ptr = 0 /\ rd_ptr = 0 /\ dout_valid_r = FALSE  BY DEF Fifo!Init
<1>3. 0 \in Fifo!Ptr /\ Fifo!Dist(0, 0) = 0 /\ 0 <= Depth
  BY FifoAssumption DEF Fifo!Ptr, Fifo!Dist
<1>4. Fifo!Occ = 0  BY <1>2, <1>3 DEF Fifo!Occ
<1> QED  BY <1>1, <1>2, <1>3, <1>4 DEF PointersInv, CellsInv

\* The FIFO never holds more than its memory, in every reachable state.
THEOREM PointersNeverLap == Fifo!Spec => []PointersInv
PROOF
<1>1. Fifo!Init => PointersInv  BY InitPointers
<1>2. PointersInv /\ [Fifo!Next]_(Fifo!vars) => PointersInv'
  <2> SUFFICES ASSUME PointersInv, [Fifo!Next]_(Fifo!vars) PROVE PointersInv'  OBVIOUS
  <2>1. CASE Fifo!Next  BY <2>1, ClockKeepsPointers DEF Fifo!Next
  <2>2. CASE UNCHANGED Fifo!vars
    BY <2>2 DEF Fifo!vars, PointersInv, CellsInv, Fifo!Occ
  <2> QED  BY <2>1, <2>2
<1> QED  BY <1>1, <1>2, PTL DEF Fifo!Spec

-----------------------------------------------------------------------------
(* The refinement *)

\* The queue is the window of Occ cells at the read pointer.
LEMMA StoredIsWindow == Fifo!Stored = Window(mem, rd_ptr, Fifo!Occ)
  BY DEF Fifo!Stored, Window

\* The flags of the registers are those of the queue.
LEMMA FlagsAgree ==
  ASSUME PointersInv, NEW wr_en \in BOOLEAN, NEW rd_en \in BOOLEAN
  PROVE  /\ Fifo!IssueRead(rd_en) <=> Fifo!Abstract!IssueRead(rd_en)
         /\ Fifo!PushOk(wr_en, rd_en) <=> wr_en /\ Fifo!Abstract!PushOk(rd_en)
PROOF
<1>0. /\ mem \in [Cells -> Word \cup {Garbage}]
      /\ wr_ptr \in Fifo!Ptr /\ rd_ptr \in Fifo!Ptr /\ dout_valid_r \in BOOLEAN
      /\ Fifo!Occ <= Depth
  BY DEF PointersInv, CellsInv
<1>1. Fifo!Occ \in 0 .. Depth  BY <1>0, DistReaches, FifoAssumption DEF Fifo!Occ
<1>2. Fifo!Stored = << >> <=> Fifo!Occ = 0  BY <1>0, <1>1, StoredIsWindow, WindowEmpty
<1>3. Len(Fifo!Stored) = Fifo!Occ  BY <1>0, <1>1, StoredIsWindow, WindowIsSeq
<1>4. Fifo!IssueRead(rd_en) <=> Fifo!Abstract!IssueRead(rd_en)
  BY <1>0, <1>2 DEF Fifo!IssueRead, Fifo!Pop, Fifo!Empty, Fifo!Abstract!IssueRead
<1>5. Fifo!PushOk(wr_en, rd_en) <=> wr_en /\ Fifo!Abstract!PushOk(rd_en)
  BY <1>3, <1>4 DEF Fifo!PushOk, Fifo!Full, Fifo!Abstract!PushOk
<1> QED  BY <1>4, <1>5

\* One clock edge moves the stored words as it moves the queue.
LEMMA ClockMovesQueue ==
  ASSUME PointersInv,
         NEW wr_en \in BOOLEAN, NEW rd_en \in BOOLEAN, NEW w \in Word,
         Fifo!Clock(wr_en, w, rd_en)
  PROVE  Fifo!Stored'
         = LET rest == IF Fifo!IssueRead(rd_en) THEN Tail(Fifo!Stored) ELSE Fifo!Stored
           IN  IF Fifo!PushOk(wr_en, rd_en) THEN Append(rest, w) ELSE rest
PROOF
<1> DEFINE push == Fifo!PushOk(wr_en, rd_en)
           read == Fifo!IssueRead(rd_en)
           r    == IF read THEN Fifo!Inc(rd_ptr) ELSE rd_ptr
           n    == IF read THEN Fifo!Occ - 1 ELSE Fifo!Occ
           rest == IF read THEN Tail(Fifo!Stored) ELSE Fifo!Stored
<1>0. /\ mem \in [Cells -> Word \cup {Garbage}]
      /\ wr_ptr \in Fifo!Ptr /\ rd_ptr \in Fifo!Ptr /\ dout_valid_r \in BOOLEAN
      /\ Fifo!Occ <= Depth
  BY DEF PointersInv, CellsInv
<1>1. Fifo!Occ \in 0 .. Depth  BY <1>0, DistReaches, FifoAssumption DEF Fifo!Occ
<1>2. read => Fifo!Occ \in 1 .. Depth
  BY <1>1, FifoAssumption DEF Fifo!IssueRead, Fifo!Empty
<1>3. r \in Fifo!Ptr
  <2>1. 0 \in 0 .. 2 * Depth - 1  BY FifoAssumption
  <2> QED  BY <2>1, <1>0, PointerRange
<1>4. rest = Window(mem, r, n)
  <2>1. CASE read
    <3>1. Tail(Window(mem, rd_ptr, Fifo!Occ)) = Window(mem, Fifo!Inc(rd_ptr), Fifo!Occ - 1)
      BY <2>1, <1>0, <1>2, WindowPop
    <3> QED  BY <3>1, <2>1, StoredIsWindow
  <2>2. CASE ~read  BY <2>2, StoredIsWindow
  <2> QED  BY <2>1, <2>2
<1>5. rd_ptr' = r  BY DEF Fifo!Clock
<1>6. n \in 0 .. Depth /\ Fifo!Dist(r, wr_ptr) = n
  <2>1. CASE read
    <3>1. Fifo!Dist(rd_ptr, wr_ptr) > 0  BY <1>2, <2>1, FifoAssumption DEF Fifo!Occ
    <3>2. Fifo!Dist(Fifo!Inc(rd_ptr), wr_ptr) = Fifo!Dist(rd_ptr, wr_ptr) - 1
      BY <3>1, <1>0, DistSteps
    <3>3. Fifo!Occ - 1 \in 0 .. Depth  BY <1>2, <2>1, FifoAssumption
    <3> QED  BY <3>2, <3>3, <2>1 DEF Fifo!Occ
  <2>2. CASE ~read  BY <2>2, <1>1 DEF Fifo!Occ
  <2> QED  BY <2>1, <2>2
<1>7. push => n \in 0 .. Depth - 1
  <2>1. CASE read
    <3>1. Fifo!Occ - 1 \in 0 .. Depth - 1  BY <1>2, <2>1, FifoAssumption
    <3> QED  BY <3>1, <2>1
  <2>2. CASE ~read
    <3>1. push => Fifo!Occ # Depth  BY <2>2 DEF Fifo!PushOk, Fifo!Full
    <3>2. push => Fifo!Occ \in 0 .. Depth - 1  BY <3>1, <1>1, FifoAssumption
    <3> QED  BY <3>2, <2>2
  <2> QED  BY <2>1, <2>2
<1>8. Fifo!Plus(r, n) = wr_ptr
  <2>1. Fifo!Plus(r, Fifo!Dist(r, wr_ptr)) = wr_ptr  BY <1>0, <1>3, DistReaches
  <2> QED  BY <2>1, <1>6
<1>9. CASE push
  <2>1. /\ mem' = [mem EXCEPT ![Fifo!Addr(wr_ptr)] = w]
        /\ wr_ptr' = Fifo!Inc(wr_ptr)  BY <1>9 DEF Fifo!Clock
  <2>2. Fifo!Occ' = n + 1
    <3>1. Fifo!Dist(r, wr_ptr) < 2 * Depth - 1  BY <1>6, <1>7, <1>9, FifoAssumption
    <3>2. Fifo!Dist(r, Fifo!Inc(wr_ptr)) = Fifo!Dist(r, wr_ptr) + 1
      BY <3>1, <1>0, <1>3, DistSteps
    <3> QED  BY <3>2, <2>1, <1>5, <1>6 DEF Fifo!Occ
  <2>3. Append(Window(mem, r, n), w)
       = Window([mem EXCEPT ![Fifo!Addr(Fifo!Plus(r, n))] = w], r, n + 1)
    BY <1>0, <1>3, <1>7, <1>9, WindowPush
  <2>4. Fifo!Stored' = Window(mem', rd_ptr', Fifo!Occ')  BY DEF Fifo!Stored, Window
  <2> QED  BY <2>1, <2>2, <2>3, <2>4, <1>4, <1>5, <1>8, <1>9
<1>10. CASE ~push
  <2>1. mem' = mem /\ wr_ptr' = wr_ptr  BY <1>10 DEF Fifo!Clock
  <2>2. Fifo!Occ' = n  BY <2>1, <1>5, <1>6 DEF Fifo!Occ
  <2>3. Fifo!Stored' = Window(mem', rd_ptr', Fifo!Occ')  BY DEF Fifo!Stored, Window
  <2> QED  BY <2>1, <2>2, <2>3, <1>4, <1>5, <1>10
<1> QED  BY <1>9, <1>10

\* A clock edge of the pointer machine is a clock edge of the queue.
LEMMA ClockImplements ==
  ASSUME PointersInv,
         NEW wr_en \in BOOLEAN, NEW rd_en \in BOOLEAN, NEW w \in Word,
         Fifo!Clock(wr_en, w, rd_en)
  PROVE  Fifo!Abstract!Clock(wr_en, w, rd_en)
PROOF
<1>0. /\ mem \in [Cells -> Word \cup {Garbage}]
      /\ wr_ptr \in Fifo!Ptr /\ rd_ptr \in Fifo!Ptr /\ dout_valid_r \in BOOLEAN
      /\ Fifo!Occ <= Depth
  BY DEF PointersInv, CellsInv
<1>1. Fifo!Occ \in 0 .. Depth  BY <1>0, DistReaches, FifoAssumption DEF Fifo!Occ
<1>2. /\ Fifo!IssueRead(rd_en) <=> Fifo!Abstract!IssueRead(rd_en)
      /\ Fifo!PushOk(wr_en, rd_en) <=> wr_en /\ Fifo!Abstract!PushOk(rd_en)  BY FlagsAgree
<1>3. Fifo!IssueRead(rd_en) => Head(Fifo!Stored) = mem[Fifo!Addr(rd_ptr)]
  <2>1. Fifo!IssueRead(rd_en) => Fifo!Occ \in 1 .. Depth
    BY <1>1, FifoAssumption DEF Fifo!IssueRead, Fifo!Empty
  <2> QED  BY <2>1, <1>0, StoredIsWindow, WindowPop
<1>4. dout_r' = IF Fifo!Abstract!IssueRead(rd_en) THEN Head(Fifo!Stored) ELSE dout_r
  BY <1>2, <1>3 DEF Fifo!Clock
<1>5. dout_valid_r' = (Fifo!Abstract!IssueRead(rd_en) \/ (dout_valid_r /\ ~rd_en))
  BY <1>0, <1>2 DEF Fifo!Clock, Fifo!Pop
<1>6. Fifo!Stored'
     = LET rest == IF Fifo!IssueRead(rd_en) THEN Tail(Fifo!Stored) ELSE Fifo!Stored
       IN  IF Fifo!PushOk(wr_en, rd_en) THEN Append(rest, w) ELSE rest
  BY ClockMovesQueue
<1>7. Fifo!Stored'
     = LET rest == IF Fifo!Abstract!IssueRead(rd_en) THEN Tail(Fifo!Stored) ELSE Fifo!Stored
       IN  IF wr_en /\ Fifo!Abstract!PushOk(rd_en) THEN Append(rest, w) ELSE rest
  BY <1>2, <1>6
<1> QED  BY <1>4, <1>5, <1>7 DEF Fifo!Abstract!Clock

\* sync_fifo.v is the queue its users rely on (54-98): for every depth, every set of
\* words and every sequence of pushes and pops, words leave in the order they were
\* pushed, none is lost while the FIFO accepts it and none is duplicated when the
\* pointers wrap.
THEOREM FifoImplementsQueue == BlocksSpec => ImplementsQueue
PROOF
<1>1. Fifo!Init => Fifo!Abstract!Init
  <2> SUFFICES ASSUME Fifo!Init PROVE Fifo!Abstract!Init  OBVIOUS
  <2>1. PointersInv /\ Fifo!Occ = 0  BY InitPointers
  <2>2. 0 \in 0 .. Depth  BY FifoAssumption
  <2>3. Fifo!Stored = << >>  BY <2>1, <2>2, StoredIsWindow, WindowEmpty
    DEF PointersInv, CellsInv
  <2> QED  BY <2>3 DEF Fifo!Init, Fifo!Abstract!Init
<1>2. PointersInv /\ [Fifo!Next]_(Fifo!vars) => [Fifo!Abstract!Next]_(Fifo!Abstract!vars)
  <2> SUFFICES ASSUME PointersInv, [Fifo!Next]_(Fifo!vars)
               PROVE  [Fifo!Abstract!Next]_(Fifo!Abstract!vars)
    OBVIOUS
  <2>1. CASE Fifo!Next
    <3>1. PICK wr_en \in BOOLEAN, rd_en \in BOOLEAN, w \in Word : Fifo!Clock(wr_en, w, rd_en)
      BY <2>1 DEF Fifo!Next
    <3>2. Fifo!Abstract!Clock(wr_en, w, rd_en)  BY <3>1, ClockImplements
    <3> QED  BY <3>2 DEF Fifo!Abstract!Next
  <2>2. CASE UNCHANGED Fifo!vars
    <3>1. Fifo!Stored' = Fifo!Stored /\ dout_r' = dout_r /\ dout_valid_r' = dout_valid_r
      BY <2>2 DEF Fifo!vars, Fifo!Stored, Fifo!Occ
    <3> QED  BY <3>1 DEF Fifo!Abstract!vars
  <2> QED  BY <2>1, <2>2
<1>3. Fifo!Spec => []PointersInv  BY PointersNeverLap
<1>4. Fifo!Spec => Fifo!Abstract!Spec
  BY <1>1, <1>2, <1>3, PTL DEF Fifo!Spec, Fifo!Abstract!Spec
<1> QED  BY <1>4, FifoRuns DEF ImplementsQueue, Fifo!ImplementsQueue

-----------------------------------------------------------------------------
(***************************************************************************)
(* The FIFO between two clock domains (rtl/async_fifo.v), for every depth, *)
(* RAM style and coding in which consecutive pointers differ in one bit.   *)
(***************************************************************************)

-----------------------------------------------------------------------------
(* The two sides on the ring of pointers *)


\* The numbers of the abstraction: words in the memory, the words of them the reader's
\* two flip-flops have seen, and the words taken that the writer's have not.
Stocked == Dist(cdc_rd_ptr, cdc_wr_ptr)
Seen1   == Dist(cdc_rd_ptr, Bin(wr_sync1))
Seen2   == Dist(cdc_rd_ptr, Bin(wr_sync2))
Lag1    == Dist(Bin(rd_sync1), cdc_rd_ptr)
Lag2    == Dist(Bin(rd_sync2), cdc_rd_ptr)

\* What the registers may hold: every flip-flop bank the code of a pointer.
SidesTypes ==
  /\ cdc_mem \in [Cells -> Word \cup {Garbage}]
  /\ cdc_wr_ptr \in Ptr /\ cdc_rd_ptr \in Ptr
  /\ head_valid \in BOOLEAN /\ (head_valid => Block) /\ head_q \in Word \cup {Garbage}
  /\ Bin(rd_sync1) \in Ptr /\ rd_sync1 = Gray(Bin(rd_sync1))
  /\ Bin(rd_sync2) \in Ptr /\ rd_sync2 = Gray(Bin(rd_sync2))
  /\ Bin(wr_sync1) \in Ptr /\ wr_sync1 = Gray(Bin(wr_sync1))
  /\ Bin(wr_sync2) \in Ptr /\ wr_sync2 = Gray(Bin(wr_sync2))

\* On the ring of 2 * Depth pointers the writer's old view of the reader, the reader, the
\* reader's old views of the writer and the writer stand in this order, all of them within
\* Depth of the first.  So each view is of the past, and full and empty, judged on
\* old views, err on the safe side.
SidesInv ==
  /\ SidesTypes
  /\ Seen2 <= Seen1 /\ Seen1 <= Stocked
  /\ Lag1 <= Lag2
  /\ Stocked + Lag2 <= Depth

\* The pointers of the two FIFOs are the same arithmetic.
LEMMA SameRing ==
  /\ Cdc!Ptr = Ptr /\ Fifo!Ptr = Ptr
  /\ \A p : /\ Cdc!Inc(p) = Inc(p) /\ Fifo!Inc(p) = Inc(p)
            /\ Cdc!Addr(p) = Addr(p) /\ Fifo!Addr(p) = Addr(p)
  /\ \A a, b : /\ Cdc!Dist(a, b) = Dist(a, b) /\ Fifo!Dist(a, b) = Dist(a, b)
               /\ Cdc!Plus(a, b) = Plus(a, b) /\ Fifo!Plus(a, b) = Plus(a, b)
  BY DEF Cdc!Ptr, Fifo!Ptr, Ptr, Cdc!Inc, Fifo!Inc, Inc, Cdc!Addr, Fifo!Addr, Addr,
         Cdc!Dist, Fifo!Dist, Dist, Cdc!Plus, Fifo!Plus, Plus

\* What GrayAssumption says of one pointer, and that a code has one pointer.
LEMMA CodeOf ==
  ASSUME NEW p \in Ptr
  PROVE  /\ Bin(Gray(p)) = p
         /\ FullCode(Gray(p)) = Gray(Plus(p, Depth))
         /\ Torn(Gray(p), Gray(p)) = {Gray(p)}
         /\ Torn(Gray(p), Gray(Inc(p))) = {Gray(p), Gray(Inc(p))}
         /\ \A q \in Ptr : Gray(p) = Gray(q) => p = q
<1>1. \A q \in Ptr : Bin(Gray(q)) = q  BY GrayAssumption
<1>2. \A q \in Ptr : Gray(p) = Gray(q) => p = q
  <2> SUFFICES ASSUME NEW q \in Ptr, Gray(p) = Gray(q) PROVE p = q  OBVIOUS
  <2>1. Bin(Gray(p)) = Bin(Gray(q))  OBVIOUS
  <2> QED  BY <2>1, <1>1
<1> QED  BY <1>2, GrayAssumption

\* Moving a pointer by one, or by Depth.
LEMMA RingSteps ==
  ASSUME NEW a \in Ptr, NEW b \in Ptr
  PROVE  /\ Inc(a) \in Ptr /\ Plus(a, Depth) \in Ptr /\ Dist(a, a) = 0
         /\ Dist(a, b) \in 0 .. 2 * Depth - 1
         /\ Dist(a, b) < 2 * Depth - 1 => Dist(a, Inc(b)) = Dist(a, b) + 1
         /\ Dist(a, b) > 0 => Dist(Inc(a), b) = Dist(a, b) - 1
         /\ Dist(Inc(a), Inc(b)) = Dist(a, b)
         /\ b = Plus(a, Depth) <=> Dist(a, b) = Depth
         /\ a = b <=> Dist(a, b) = 0
  BY FifoAssumption DEF Ptr, Dist, Inc, Plus

\* Distances along the ring add up as long as they do not close it.
LEMMA DistAdds ==
  ASSUME NEW a \in Ptr, NEW b \in Ptr, NEW c \in Ptr, Dist(a, b) + Dist(b, c) <= Depth
  PROVE  Dist(a, c) = Dist(a, b) + Dist(b, c)
  BY FifoAssumption DEF Ptr, Dist

\* Each side's flag is a test of its own pointer against the other's code, and comes
\* out as the test on the numbers.
LEMMA SidesFlags ==
  ASSUME SidesInv
  PROVE  /\ Cdc!WrFull <=> Stocked + Lag2 = Depth
         /\ Cdc!MemEmpty <=> Seen2 = 0
         /\ Cdc!WrDataCount = Stocked + Lag2
<1>1. /\ cdc_wr_ptr \in Ptr /\ cdc_rd_ptr \in Ptr
      /\ Bin(rd_sync2) \in Ptr /\ rd_sync2 = Gray(Bin(rd_sync2))
      /\ Bin(wr_sync2) \in Ptr /\ wr_sync2 = Gray(Bin(wr_sync2))
      /\ Stocked + Lag2 <= Depth
  BY DEF SidesInv, SidesTypes
<1>2. Dist(Bin(rd_sync2), cdc_wr_ptr) = Stocked + Lag2
  <2>1. Lag2 + Stocked = Stocked + Lag2
    BY <1>1, RingSteps DEF Stocked, Lag2
  <2>2. Dist(Bin(rd_sync2), cdc_rd_ptr) + Dist(cdc_rd_ptr, cdc_wr_ptr) <= Depth
    BY <1>1, <2>1 DEF Stocked, Lag2
  <2>3. Dist(Bin(rd_sync2), cdc_wr_ptr)
        = Dist(Bin(rd_sync2), cdc_rd_ptr) + Dist(cdc_rd_ptr, cdc_wr_ptr)
    BY <1>1, <2>2, DistAdds
  <2> QED  BY <2>1, <2>3 DEF Stocked, Lag2
<1>3. Cdc!WrFull <=> Stocked + Lag2 = Depth
  <2>1. FullCode(rd_sync2) = Gray(Plus(Bin(rd_sync2), Depth))  BY <1>1, CodeOf
  <2>2. Plus(Bin(rd_sync2), Depth) \in Ptr  BY <1>1, RingSteps
  <2>3. Gray(cdc_wr_ptr) = Gray(Plus(Bin(rd_sync2), Depth))
        <=> cdc_wr_ptr = Plus(Bin(rd_sync2), Depth)
    BY <1>1, <2>2, CodeOf
  <2>4. cdc_wr_ptr = Plus(Bin(rd_sync2), Depth) <=> Dist(Bin(rd_sync2), cdc_wr_ptr) = Depth
    BY <1>1, RingSteps
  <2> QED  BY <2>1, <2>3, <2>4, <1>2 DEF Cdc!WrFull
<1>4. Cdc!MemEmpty <=> Seen2 = 0
  <2>1. Gray(cdc_rd_ptr) = wr_sync2 <=> cdc_rd_ptr = Bin(wr_sync2)  BY <1>1, CodeOf
  <2>2. cdc_rd_ptr = Bin(wr_sync2) <=> Dist(cdc_rd_ptr, Bin(wr_sync2)) = 0
    BY <1>1, RingSteps
  <2> QED  BY <2>1, <2>2 DEF Cdc!MemEmpty, Seen2
<1>5. Cdc!WrDataCount = Stocked + Lag2  BY <1>2, SameRing DEF Cdc!WrDataCount
<1> QED  BY <1>3, <1>4, <1>5

\* What a clock edge of one side or of both does to the registers, one side at a time:
\* put and take say whether a word goes in or out.
Moves(wrclk, wr_en, w, rdclk, rd_en, put, take) ==
  /\ put = (wrclk /\ wr_en /\ ~Cdc!WrFull)
  /\ take = (rdclk /\ Cdc!MemRd(rd_en))
  /\ cdc_mem' = IF put THEN [cdc_mem EXCEPT ![Addr(cdc_wr_ptr)] = w] ELSE cdc_mem
  /\ cdc_wr_ptr' = IF put THEN Inc(cdc_wr_ptr) ELSE cdc_wr_ptr
  /\ cdc_rd_ptr' = IF take THEN Inc(cdc_rd_ptr) ELSE cdc_rd_ptr
  /\ IF wrclk THEN rd_sync1' \in {Gray(cdc_rd_ptr), Gray(cdc_rd_ptr')} /\ rd_sync2' = rd_sync1
              ELSE rd_sync1' = rd_sync1 /\ rd_sync2' = rd_sync2
  /\ IF rdclk THEN wr_sync1' \in {Gray(cdc_wr_ptr), Gray(cdc_wr_ptr')} /\ wr_sync2' = wr_sync1
              ELSE wr_sync1' = wr_sync1 /\ wr_sync2' = wr_sync2
  /\ IF rdclk /\ Block
     THEN /\ head_q' = IF take THEN cdc_mem[Addr(cdc_rd_ptr)] ELSE head_q
          /\ head_valid' = (take \/ (head_valid /\ ~rd_en))
     ELSE head_q' = head_q /\ head_valid' = head_valid

\* Every step is of this form: a torn sample of a pointer that moves by at most one is
\* its old or its new code.
LEMMA StepMoves ==
  ASSUME SidesTypes, Cdc!Next
  PROVE  \E wrclk, wr_en, rdclk, rd_en, put, take \in BOOLEAN, w \in Word :
           (wrclk \/ (rdclk /\ ~wr_en)) /\ Moves(wrclk, wr_en, w, rdclk, rd_en, put, take)
<1>1. cdc_wr_ptr \in Ptr /\ cdc_rd_ptr \in Ptr  BY DEF SidesTypes
<1>2. PICK any \in Word : TRUE  BY FifoAssumption
<1>3. ASSUME NEW wr_en \in BOOLEAN, NEW w \in Word, NEW din, wr_en => din = w,
             Cdc!WrClock(wr_en, din)
      PROVE  Moves(TRUE, wr_en, w, FALSE, FALSE, wr_en /\ ~Cdc!WrFull, FALSE)
  <2>1. /\ rd_sync1' = Gray(cdc_rd_ptr) /\ rd_sync2' = rd_sync1
        /\ cdc_rd_ptr' = cdc_rd_ptr /\ wr_sync1' = wr_sync1 /\ wr_sync2' = wr_sync2
        /\ head_q' = head_q /\ head_valid' = head_valid
    BY <1>3 DEF Cdc!WrClock, Cdc!WrEdge, Cdc!rdSide
  <2>2. /\ cdc_mem' = IF wr_en /\ ~Cdc!WrFull
                      THEN [cdc_mem EXCEPT ![Addr(cdc_wr_ptr)] = w] ELSE cdc_mem
        /\ cdc_wr_ptr' = IF wr_en /\ ~Cdc!WrFull THEN Inc(cdc_wr_ptr) ELSE cdc_wr_ptr
    BY <1>3, SameRing DEF Cdc!WrClock, Cdc!WrEdge
  <2>3. /\ (wr_en /\ ~Cdc!WrFull) = (TRUE /\ wr_en /\ ~Cdc!WrFull)
        /\ FALSE = (FALSE /\ Cdc!MemRd(FALSE))
    OBVIOUS
  <2> QED  BY <2>1, <2>2, <2>3 DEF Moves
<1>4. ASSUME NEW rd_en \in BOOLEAN, Cdc!RdClock(rd_en)
      PROVE  Moves(FALSE, FALSE, any, TRUE, rd_en, FALSE, Cdc!MemRd(rd_en))
  <2>1. /\ wr_sync1' = Gray(cdc_wr_ptr) /\ wr_sync2' = wr_sync1
        /\ cdc_mem' = cdc_mem /\ cdc_wr_ptr' = cdc_wr_ptr
        /\ rd_sync1' = rd_sync1 /\ rd_sync2' = rd_sync2
    BY <1>4 DEF Cdc!RdClock, Cdc!RdEdge, Cdc!wrSide
  <2>2. /\ cdc_rd_ptr' = IF Cdc!MemRd(rd_en) THEN Inc(cdc_rd_ptr) ELSE cdc_rd_ptr
        /\ IF Block
           THEN /\ head_q' = IF Cdc!MemRd(rd_en) THEN cdc_mem[Addr(cdc_rd_ptr)] ELSE head_q
                /\ head_valid' = (Cdc!MemRd(rd_en) \/ (head_valid /\ ~rd_en))
           ELSE head_q' = head_q /\ head_valid' = head_valid
    BY <1>4, SameRing DEF Cdc!RdClock, Cdc!RdEdge
  <2>3. /\ FALSE = (FALSE /\ FALSE /\ ~Cdc!WrFull)
        /\ Cdc!MemRd(rd_en) = (TRUE /\ Cdc!MemRd(rd_en))
    BY DEF Cdc!MemRd
  <2> QED  BY <2>1, <2>2, <2>3 DEF Moves
<1>5. ASSUME NEW wr_en \in BOOLEAN, NEW w \in Word, NEW din, wr_en => din = w,
             NEW rd_en \in BOOLEAN, Cdc!BothClocks(wr_en, din, rd_en)
      PROVE  Moves(TRUE, wr_en, w, TRUE, rd_en, wr_en /\ ~Cdc!WrFull, Cdc!MemRd(rd_en))
  <2>1. PICK c : /\ c \in Torn(Gray(cdc_rd_ptr), Gray(IF Cdc!MemRd(rd_en) THEN Cdc!Inc(cdc_rd_ptr)
                                                                          ELSE cdc_rd_ptr))
                 /\ Cdc!WrEdge(wr_en, din, c)
    BY <1>5 DEF Cdc!BothClocks
  <2>2. PICK d : /\ d \in Torn(Gray(cdc_wr_ptr), Gray(IF wr_en /\ ~Cdc!WrFull THEN Cdc!Inc(cdc_wr_ptr)
                                                                              ELSE cdc_wr_ptr))
                 /\ Cdc!RdEdge(rd_en, d)
    BY <1>5 DEF Cdc!BothClocks
  <2>3. /\ rd_sync1' = c /\ rd_sync2' = rd_sync1
        /\ cdc_mem' = IF wr_en /\ ~Cdc!WrFull
                      THEN [cdc_mem EXCEPT ![Addr(cdc_wr_ptr)] = w] ELSE cdc_mem
        /\ cdc_wr_ptr' = IF wr_en /\ ~Cdc!WrFull THEN Inc(cdc_wr_ptr) ELSE cdc_wr_ptr
    BY <1>5, <2>1, SameRing DEF Cdc!WrEdge
  <2>4. /\ wr_sync1' = d /\ wr_sync2' = wr_sync1
        /\ cdc_rd_ptr' = IF Cdc!MemRd(rd_en) THEN Inc(cdc_rd_ptr) ELSE cdc_rd_ptr
        /\ IF Block
           THEN /\ head_q' = IF Cdc!MemRd(rd_en) THEN cdc_mem[Addr(cdc_rd_ptr)] ELSE head_q
                /\ head_valid' = (Cdc!MemRd(rd_en) \/ (head_valid /\ ~rd_en))
           ELSE head_q' = head_q /\ head_valid' = head_valid
    BY <2>2, SameRing DEF Cdc!RdEdge
  <2>5. c \in {Gray(cdc_rd_ptr), Gray(cdc_rd_ptr')}
    <3>1. CASE Cdc!MemRd(rd_en)
      <4>1. c \in Torn(Gray(cdc_rd_ptr), Gray(Inc(cdc_rd_ptr)))  BY <3>1, <2>1, SameRing
      <4> QED  BY <4>1, <3>1, <2>4, <1>1, CodeOf
    <3>2. CASE ~Cdc!MemRd(rd_en)
      <4>1. c \in Torn(Gray(cdc_rd_ptr), Gray(cdc_rd_ptr))  BY <3>2, <2>1
      <4> QED  BY <4>1, <1>1, CodeOf
    <3> QED  BY <3>1, <3>2
  <2>6. d \in {Gray(cdc_wr_ptr), Gray(cdc_wr_ptr')}
    <3>1. CASE wr_en /\ ~Cdc!WrFull
      <4>1. d \in Torn(Gray(cdc_wr_ptr), Gray(Inc(cdc_wr_ptr)))  BY <3>1, <2>2, SameRing
      <4> QED  BY <4>1, <3>1, <2>3, <1>1, CodeOf
    <3>2. CASE ~(wr_en /\ ~Cdc!WrFull)
      <4>1. d \in Torn(Gray(cdc_wr_ptr), Gray(cdc_wr_ptr))  BY <3>2, <2>2
      <4> QED  BY <4>1, <1>1, CodeOf
    <3> QED  BY <3>1, <3>2
  <2>7. /\ (wr_en /\ ~Cdc!WrFull) = (TRUE /\ wr_en /\ ~Cdc!WrFull)
        /\ Cdc!MemRd(rd_en) = (TRUE /\ Cdc!MemRd(rd_en))
    BY DEF Cdc!MemRd
  <2> QED  BY <2>3, <2>4, <2>5, <2>6, <2>7 DEF Moves
<1>6. /\ \A e \in BOOLEAN : (e /\ ~Cdc!WrFull) \in BOOLEAN
      /\ \A e \in BOOLEAN : Cdc!MemRd(e) \in BOOLEAN
  BY DEF Cdc!MemRd
<1>7. CASE Cdc!WrTick
  <2>1. CASE Cdc!WrClock(FALSE, Garbage)
    <3>1. Moves(TRUE, FALSE, any, FALSE, FALSE, FALSE /\ ~Cdc!WrFull, FALSE)  BY <1>3, <2>1
    <3>2. (FALSE /\ ~Cdc!WrFull) \in BOOLEAN  OBVIOUS
    <3> QED  BY <3>1, <3>2
  <2>2. CASE \E w \in Word : Cdc!WrClock(TRUE, w)
    <3>1. PICK w \in Word : Cdc!WrClock(TRUE, w)  BY <2>2
    <3>2. Moves(TRUE, TRUE, w, FALSE, FALSE, TRUE /\ ~Cdc!WrFull, FALSE)  BY <1>3, <3>1
    <3>3. (TRUE /\ ~Cdc!WrFull) \in BOOLEAN  OBVIOUS
    <3> QED  BY <3>2, <3>3
  <2> QED  BY <1>7, <2>1, <2>2 DEF Cdc!WrTick
<1>8. CASE Cdc!RdTick
  <2>1. PICK rd_en \in BOOLEAN : Cdc!RdClock(rd_en)  BY <1>8 DEF Cdc!RdTick
  <2>2. Moves(FALSE, FALSE, any, TRUE, rd_en, FALSE, Cdc!MemRd(rd_en))  BY <1>4, <2>1
  <2>3. Cdc!MemRd(rd_en) \in BOOLEAN  BY <1>6
  <2> QED  BY <2>2, <2>3
<1>9. CASE Cdc!Tick
  <2>1. PICK rd_en \in BOOLEAN : \/ Cdc!BothClocks(FALSE, Garbage, rd_en)
                                 \/ \E w \in Word : Cdc!BothClocks(TRUE, w, rd_en)
    BY <1>9 DEF Cdc!Tick
  <2>2. Cdc!MemRd(rd_en) \in BOOLEAN  BY <1>6
  <2>3. CASE Cdc!BothClocks(FALSE, Garbage, rd_en)
    <3>1. Moves(TRUE, FALSE, any, TRUE, rd_en, FALSE /\ ~Cdc!WrFull, Cdc!MemRd(rd_en))
      BY <1>5, <2>3
    <3>2. (FALSE /\ ~Cdc!WrFull) \in BOOLEAN  OBVIOUS
    <3> QED  BY <3>1, <3>2, <2>2
  <2>4. CASE \E w \in Word : Cdc!BothClocks(TRUE, w, rd_en)
    <3>1. PICK w \in Word : Cdc!BothClocks(TRUE, w, rd_en)  BY <2>4
    <3>2. Moves(TRUE, TRUE, w, TRUE, rd_en, TRUE /\ ~Cdc!WrFull, Cdc!MemRd(rd_en))
      BY <1>5, <3>1
    <3>3. (TRUE /\ ~Cdc!WrFull) \in BOOLEAN  OBVIOUS
    <3> QED  BY <3>2, <3>3, <2>2
  <2> QED  BY <2>1, <2>3, <2>4
<1> QED  BY <1>7, <1>8, <1>9 DEF Cdc!Next

One(b) == IF b THEN 1 ELSE 0

\* The numbers lie in their ranges.
LEMMA SidesRange ==
  ASSUME SidesInv
  PROVE  /\ Stocked \in 0 .. Depth /\ Seen1 \in 0 .. Depth /\ Seen2 \in 0 .. Depth
         /\ Lag1 \in 0 .. Depth /\ Lag2 \in 0 .. Depth
<1>1. /\ Stocked \in 0 .. 2 * Depth - 1 /\ Seen1 \in 0 .. 2 * Depth - 1
      /\ Seen2 \in 0 .. 2 * Depth - 1
      /\ Lag1 \in 0 .. 2 * Depth - 1 /\ Lag2 \in 0 .. 2 * Depth - 1
  BY RingSteps DEF SidesInv, SidesTypes, Stocked, Seen1, Seen2, Lag1, Lag2
<1> QED  BY <1>1, FifoAssumption DEF SidesInv

\* Where the pointers go: a word in, a word out, and what the flip-flops shift on.
LEMMA MovesPointers ==
  ASSUME SidesInv,
         NEW wrclk \in BOOLEAN, NEW wr_en \in BOOLEAN, NEW w \in Word, NEW rdclk \in BOOLEAN,
         NEW rd_en \in BOOLEAN, NEW put \in BOOLEAN, NEW take \in BOOLEAN,
         Moves(wrclk, wr_en, w, rdclk, rd_en, put, take)
  PROVE  /\ put => wrclk /\ Stocked + Lag2 < Depth
         /\ take => rdclk /\ Seen2 > 0
         /\ cdc_wr_ptr' \in Ptr /\ cdc_rd_ptr' \in Ptr
         /\ \E p \in Ptr : /\ rd_sync1' = Gray(p) /\ Bin(rd_sync1') = p
                           /\ IF wrclk THEN p \in {cdc_rd_ptr, cdc_rd_ptr'} ELSE p = Bin(rd_sync1)
         /\ \E p \in Ptr : /\ rd_sync2' = Gray(p) /\ Bin(rd_sync2') = p
                           /\ p = IF wrclk THEN Bin(rd_sync1) ELSE Bin(rd_sync2)
         /\ \E p \in Ptr : /\ wr_sync1' = Gray(p) /\ Bin(wr_sync1') = p
                           /\ IF rdclk THEN p \in {cdc_wr_ptr, cdc_wr_ptr'} ELSE p = Bin(wr_sync1)
         /\ \E p \in Ptr : /\ wr_sync2' = Gray(p) /\ Bin(wr_sync2') = p
                           /\ p = IF rdclk THEN Bin(wr_sync1) ELSE Bin(wr_sync2)
<1>1. /\ cdc_wr_ptr \in Ptr /\ cdc_rd_ptr \in Ptr
      /\ Bin(rd_sync1) \in Ptr /\ rd_sync1 = Gray(Bin(rd_sync1))
      /\ Bin(rd_sync2) \in Ptr /\ rd_sync2 = Gray(Bin(rd_sync2))
      /\ Bin(wr_sync1) \in Ptr /\ wr_sync1 = Gray(Bin(wr_sync1))
      /\ Bin(wr_sync2) \in Ptr /\ wr_sync2 = Gray(Bin(wr_sync2))
      /\ Stocked + Lag2 <= Depth
  BY DEF SidesInv, SidesTypes
<1>2. put => wrclk /\ Stocked + Lag2 < Depth
  <2> SUFFICES ASSUME put PROVE wrclk /\ Stocked + Lag2 < Depth  OBVIOUS
  <2>1. wrclk /\ ~Cdc!WrFull  BY DEF Moves
  <2>2. Stocked + Lag2 # Depth  BY <2>1, SidesFlags
  <2>3. Stocked + Lag2 \in Int  BY SidesRange
  <2> QED  BY <2>1, <2>2, <2>3, <1>1, FifoAssumption
<1>3. take => rdclk /\ Seen2 > 0
  <2> SUFFICES ASSUME take PROVE rdclk /\ Seen2 > 0  OBVIOUS
  <2>1. rdclk /\ ~Cdc!MemEmpty  BY DEF Moves, Cdc!MemRd
  <2>2. Seen2 # 0  BY <2>1, SidesFlags
  <2>3. Seen2 \in 0 .. Depth  BY SidesRange
  <2> QED  BY <2>1, <2>2, <2>3, FifoAssumption
<1>4. cdc_wr_ptr' \in Ptr /\ cdc_rd_ptr' \in Ptr
  <2>1. Inc(cdc_wr_ptr) \in Ptr /\ Inc(cdc_rd_ptr) \in Ptr  BY <1>1, RingSteps
  <2> QED  BY <2>1, <1>1 DEF Moves
<1>5. \A p \in Ptr : Bin(Gray(p)) = p  BY CodeOf
<1>6. \E p \in Ptr : /\ rd_sync1' = Gray(p) /\ Bin(rd_sync1') = p
                     /\ IF wrclk THEN p \in {cdc_rd_ptr, cdc_rd_ptr'} ELSE p = Bin(rd_sync1)
  <2>1. CASE wrclk
    <3>1. rd_sync1' = Gray(cdc_rd_ptr) \/ rd_sync1' = Gray(cdc_rd_ptr')  BY <2>1 DEF Moves
    <3> QED  BY <3>1, <2>1, <1>1, <1>4, <1>5
  <2>2. CASE ~wrclk
    <3>1. rd_sync1' = rd_sync1  BY <2>2 DEF Moves
    <3> QED  BY <3>1, <2>2, <1>1
  <2> QED  BY <2>1, <2>2
<1>7. \E p \in Ptr : /\ wr_sync1' = Gray(p) /\ Bin(wr_sync1') = p
                     /\ IF rdclk THEN p \in {cdc_wr_ptr, cdc_wr_ptr'} ELSE p = Bin(wr_sync1)
  <2>1. CASE rdclk
    <3>1. wr_sync1' = Gray(cdc_wr_ptr) \/ wr_sync1' = Gray(cdc_wr_ptr')  BY <2>1 DEF Moves
    <3> QED  BY <3>1, <2>1, <1>1, <1>4, <1>5
  <2>2. CASE ~rdclk
    <3>1. wr_sync1' = wr_sync1  BY <2>2 DEF Moves
    <3> QED  BY <3>1, <2>2, <1>1
  <2> QED  BY <2>1, <2>2
<1>8. \E p \in Ptr : /\ rd_sync2' = Gray(p) /\ Bin(rd_sync2') = p
                     /\ p = IF wrclk THEN Bin(rd_sync1) ELSE Bin(rd_sync2)
  <2>1. rd_sync2' = IF wrclk THEN rd_sync1 ELSE rd_sync2  BY DEF Moves
  <2> QED  BY <2>1, <1>1
<1>9. \E p \in Ptr : /\ wr_sync2' = Gray(p) /\ Bin(wr_sync2') = p
                     /\ p = IF rdclk THEN Bin(wr_sync1) ELSE Bin(wr_sync2)
  <2>1. wr_sync2' = IF rdclk THEN wr_sync1 ELSE wr_sync2  BY DEF Moves
  <2> QED  BY <2>1, <1>1
<1> QED  BY <1>2, <1>3, <1>4, <1>6, <1>7, <1>8, <1>9

\* How the reader's step shows in a distance from it and to it.
LEMMA ReaderSteps ==
  ASSUME NEW r \in Ptr, NEW x \in Ptr, NEW take \in BOOLEAN,
         NEW s, s = IF take THEN Inc(r) ELSE r
  PROVE  /\ (take => Dist(r, x) > 0) => Dist(s, x) = Dist(r, x) - One(take)
         /\ (take => Dist(x, r) < Depth) => Dist(x, s) = Dist(x, r) + One(take)
<1>1. CASE take
  <2>1. /\ Dist(r, x) > 0 => Dist(Inc(r), x) = Dist(r, x) - 1
        /\ Dist(x, r) < 2 * Depth - 1 => Dist(x, Inc(r)) = Dist(x, r) + 1
        /\ Dist(x, r) \in 0 .. 2 * Depth - 1
    BY RingSteps
  <2>2. Dist(x, r) < Depth => Dist(x, r) < 2 * Depth - 1  BY <2>1, FifoAssumption
  <2> QED  BY <1>1, <2>1, <2>2 DEF One
<1>2. CASE ~take
  <2>1. PICK m \in Int, n \in Int : m = Dist(r, x) /\ n = Dist(x, r)
    <3>1. Dist(r, x) \in Int /\ Dist(x, r) \in Int
      <4>1. Dist(r, x) \in 0 .. 2 * Depth - 1 /\ Dist(x, r) \in 0 .. 2 * Depth - 1
        BY RingSteps
      <4> QED  BY <4>1
    <3> QED  BY ONLY <3>1, Zenon
  <2>2. m - 0 = m /\ n + 0 = n  OBVIOUS
  <2> QED  BY <1>2, <2>1, <2>2 DEF One
<1> QED  BY <1>1, <1>2

\* ... and the numbers with them: exactly as in CdcFifo.
LEMMA MovesCount ==
  ASSUME SidesInv,
         NEW wrclk \in BOOLEAN, NEW wr_en \in BOOLEAN, NEW w \in Word, NEW rdclk \in BOOLEAN,
         NEW rd_en \in BOOLEAN, NEW put \in BOOLEAN, NEW take \in BOOLEAN,
         Moves(wrclk, wr_en, w, rdclk, rd_en, put, take)
  PROVE  /\ Stocked' = Stocked - One(take) + One(put)
         /\ Seen2' = IF rdclk THEN Seen1 - One(take) ELSE Seen2
         /\ IF rdclk THEN Seen1' \in {Stocked - One(take), Stocked'} ELSE Seen1' = Seen1
         /\ Lag2' = One(take) + (IF wrclk THEN Lag1 ELSE Lag2)
         /\ IF wrclk THEN Lag1' \in {0, One(take)} ELSE Lag1' = Lag1 + One(take)
<1>1. /\ cdc_wr_ptr \in Ptr /\ cdc_rd_ptr \in Ptr /\ cdc_wr_ptr' \in Ptr /\ cdc_rd_ptr' \in Ptr
      /\ Bin(rd_sync1) \in Ptr /\ Bin(rd_sync2) \in Ptr
      /\ Bin(wr_sync1) \in Ptr /\ Bin(wr_sync2) \in Ptr
  <2>1. cdc_wr_ptr' \in Ptr /\ cdc_rd_ptr' \in Ptr  BY MovesPointers
  <2> QED  BY <2>1 DEF SidesInv, SidesTypes
<1>2. /\ Stocked \in 0 .. Depth /\ Seen1 \in 0 .. Depth /\ Seen2 \in 0 .. Depth
      /\ Lag1 \in 0 .. Depth /\ Lag2 \in 0 .. Depth
  BY SidesRange
<1>3. /\ Seen2 <= Seen1 /\ Seen1 <= Stocked /\ Lag1 <= Lag2 /\ Stocked + Lag2 <= Depth
  BY DEF SidesInv
<1>4. /\ put => wrclk /\ Stocked + Lag2 < Depth
      /\ take => rdclk /\ Seen2 > 0
  BY MovesPointers
<1>5. take => Seen1 > 0 /\ Stocked > 0 /\ Lag1 < Depth /\ Lag2 < Depth
  <2>1. Depth \in Nat  BY FifoAssumption
  <2>2. PICK n \in Int, s1 \in Int, s2 \in Int, l1 \in Int, l2 \in Int :
          n = Stocked /\ s1 = Seen1 /\ s2 = Seen2 /\ l1 = Lag1 /\ l2 = Lag2
    <3>1. Stocked \in Int /\ Seen1 \in Int /\ Seen2 \in Int /\ Lag1 \in Int /\ Lag2 \in Int
      BY <1>2
    <3> QED  BY ONLY <3>1, Zenon
  <2>3. s2 > 0 => s1 > 0 /\ n > 0 /\ l1 < Depth /\ l2 < Depth
    <3>1. s2 <= s1 /\ s1 <= n /\ l1 <= l2 /\ n + l2 <= Depth  BY <1>3, <2>2
    <3> QED  BY ONLY <3>1, <2>1, n \in Int, s1 \in Int, s2 \in Int, l1 \in Int, l2 \in Int
  <2> QED  BY <1>4, <2>2, <2>3
<1>6. cdc_rd_ptr' = IF take THEN Inc(cdc_rd_ptr) ELSE cdc_rd_ptr  BY DEF Moves
<1>7. \A x \in Ptr :
        /\ (take => Dist(cdc_rd_ptr, x) > 0) =>
             Dist(cdc_rd_ptr', x) = Dist(cdc_rd_ptr, x) - One(take)
        /\ (take => Dist(x, cdc_rd_ptr) < Depth) =>
             Dist(x, cdc_rd_ptr') = Dist(x, cdc_rd_ptr) + One(take)
  BY <1>1, <1>6, ReaderSteps
<1>8. Dist(cdc_rd_ptr', cdc_wr_ptr) = Stocked - One(take)
  BY <1>1, <1>5, <1>7 DEF Stocked
<1>9. Stocked' = Stocked - One(take) + One(put)
  <2>1. Stocked' = Dist(cdc_rd_ptr', cdc_wr_ptr')  BY DEF Stocked
  <2>2. CASE put
    <3>1. cdc_wr_ptr' = Inc(cdc_wr_ptr)  BY <2>2 DEF Moves
    <3>2. Stocked - One(take) < 2 * Depth - 1  BY <1>2, <1>4, <2>2, FifoAssumption DEF One
    <3>3. Dist(cdc_rd_ptr', Inc(cdc_wr_ptr)) = Stocked - One(take) + 1
      BY <1>1, <1>8, <3>2, RingSteps
    <3> QED  BY <2>1, <2>2, <3>1, <3>3 DEF One
  <2>3. CASE ~put
    <3>1. cdc_wr_ptr' = cdc_wr_ptr  BY <2>3 DEF Moves
    <3>2. Stocked - One(take) + 0 = Stocked - One(take)  BY <1>2 DEF One
    <3> QED  BY <2>1, <2>3, <3>1, <3>2, <1>8 DEF One
  <2> QED  BY <2>2, <2>3
<1>10. Seen2' = IF rdclk THEN Seen1 - One(take) ELSE Seen2
  <2>1. PICK p \in Ptr : /\ Bin(wr_sync2') = p
                         /\ p = IF rdclk THEN Bin(wr_sync1) ELSE Bin(wr_sync2)
    BY MovesPointers
  <2>2. Seen2' = Dist(cdc_rd_ptr', p)  BY <2>1 DEF Seen2
  <2>3. CASE rdclk
    <3>1. p = Bin(wr_sync1)  BY <2>1, <2>3
    <3> QED  BY <2>2, <2>3, <3>1, <1>5, <1>7 DEF Seen1
  <2>4. CASE ~rdclk
    <3>1. p = Bin(wr_sync2) /\ ~take  BY <2>1, <2>4, <1>4
    <3> QED  BY <2>2, <2>4, <3>1, <1>6 DEF Seen2
  <2> QED  BY <2>3, <2>4
<1>11. IF rdclk THEN Seen1' \in {Stocked - One(take), Stocked'} ELSE Seen1' = Seen1
  <2>1. PICK p \in Ptr : /\ Bin(wr_sync1') = p
                         /\ IF rdclk THEN p \in {cdc_wr_ptr, cdc_wr_ptr'} ELSE p = Bin(wr_sync1)
    BY MovesPointers
  <2>2. Seen1' = Dist(cdc_rd_ptr', p)  BY <2>1 DEF Seen1
  <2>3. CASE rdclk  BY <2>1, <2>2, <2>3, <1>8 DEF Stocked
  <2>4. CASE ~rdclk
    <3>1. p = Bin(wr_sync1) /\ ~take  BY <2>1, <2>4, <1>4
    <3> QED  BY <2>2, <2>4, <3>1, <1>6 DEF Seen1
  <2> QED  BY <2>3, <2>4
<1>12. Lag2' = One(take) + (IF wrclk THEN Lag1 ELSE Lag2)
  <2>1. PICK p \in Ptr : /\ Bin(rd_sync2') = p
                         /\ p = IF wrclk THEN Bin(rd_sync1) ELSE Bin(rd_sync2)
    BY MovesPointers
  <2>2. Lag2' = Dist(p, cdc_rd_ptr')  BY <2>1 DEF Lag2
  <2>3. /\ Dist(Bin(rd_sync1), cdc_rd_ptr') = Lag1 + One(take)
        /\ Dist(Bin(rd_sync2), cdc_rd_ptr') = Lag2 + One(take)
    BY <1>1, <1>5, <1>7 DEF Lag1, Lag2
  <2>4. Lag1 + One(take) = One(take) + Lag1 /\ Lag2 + One(take) = One(take) + Lag2
    BY <1>2 DEF One
  <2> QED  BY <2>1, <2>2, <2>3, <2>4
<1>13. IF wrclk THEN Lag1' \in {0, One(take)} ELSE Lag1' = Lag1 + One(take)
  <2>1. PICK p \in Ptr : /\ Bin(rd_sync1') = p
                         /\ IF wrclk THEN p \in {cdc_rd_ptr, cdc_rd_ptr'} ELSE p = Bin(rd_sync1)
    BY MovesPointers
  <2>2. Lag1' = Dist(p, cdc_rd_ptr')  BY <2>1 DEF Lag1
  <2>3. CASE wrclk
    <3>1. Dist(cdc_rd_ptr, cdc_rd_ptr) = 0 /\ Dist(cdc_rd_ptr', cdc_rd_ptr') = 0
      BY <1>1, RingSteps
    <3>2. Dist(cdc_rd_ptr, cdc_rd_ptr') = 0 + One(take)
      BY <3>1, <1>1, <1>7, FifoAssumption
    <3>3. 0 + One(take) = One(take)  BY DEF One
    <3> QED  BY <2>1, <2>2, <2>3, <3>1, <3>2, <3>3
  <2>4. CASE ~wrclk
    <3>1. p = Bin(rd_sync1)  BY <2>1, <2>4
    <3> QED  BY <2>2, <2>4, <3>1, <1>1, <1>5, <1>7 DEF Lag1
  <2> QED  BY <2>3, <2>4
<1> QED  BY <1>9, <1>10, <1>11, <1>12, <1>13

\* The registers and their order on the ring are kept by every move.
LEMMA MovesKeepOrder ==
  ASSUME SidesInv,
         NEW wrclk \in BOOLEAN, NEW wr_en \in BOOLEAN, NEW w \in Word, NEW rdclk \in BOOLEAN,
         NEW rd_en \in BOOLEAN, NEW put \in BOOLEAN, NEW take \in BOOLEAN,
         Moves(wrclk, wr_en, w, rdclk, rd_en, put, take)
  PROVE  SidesInv'
<1>1. SidesTypes'
  <2>1. /\ cdc_wr_ptr' \in Ptr /\ cdc_rd_ptr' \in Ptr
        /\ Bin(rd_sync1') \in Ptr /\ rd_sync1' = Gray(Bin(rd_sync1'))
        /\ Bin(rd_sync2') \in Ptr /\ rd_sync2' = Gray(Bin(rd_sync2'))
        /\ Bin(wr_sync1') \in Ptr /\ wr_sync1' = Gray(Bin(wr_sync1'))
        /\ Bin(wr_sync2') \in Ptr /\ wr_sync2' = Gray(Bin(wr_sync2'))
    <3>1. PICK p1 \in Ptr : rd_sync1' = Gray(p1) /\ Bin(rd_sync1') = p1  BY MovesPointers
    <3>2. PICK p2 \in Ptr : rd_sync2' = Gray(p2) /\ Bin(rd_sync2') = p2  BY MovesPointers
    <3>3. PICK p3 \in Ptr : wr_sync1' = Gray(p3) /\ Bin(wr_sync1') = p3  BY MovesPointers
    <3>4. PICK p4 \in Ptr : wr_sync2' = Gray(p4) /\ Bin(wr_sync2') = p4  BY MovesPointers
    <3>5. cdc_wr_ptr' \in Ptr /\ cdc_rd_ptr' \in Ptr  BY MovesPointers
    <3> QED  BY <3>1, <3>2, <3>3, <3>4, <3>5
  <2>2. cdc_mem' \in [Cells -> Word \cup {Garbage}]
    <3>1. cdc_mem \in [Cells -> Word \cup {Garbage}]  BY DEF SidesInv, SidesTypes
    <3>2. cdc_mem' = [cdc_mem EXCEPT ![Addr(cdc_wr_ptr)] = w] \/ cdc_mem' = cdc_mem
      BY DEF Moves
    <3> QED  BY <3>1, <3>2
  <2>3. head_valid' \in BOOLEAN /\ (head_valid' => Block)
    <3>1. head_valid \in BOOLEAN /\ (head_valid => Block)  BY DEF SidesInv, SidesTypes
    <3>2. CASE rdclk /\ Block
      <4>1. head_valid' = (take \/ (head_valid /\ ~rd_en))  BY <3>2 DEF Moves
      <4> QED  BY <4>1, <3>1, <3>2
    <3>3. CASE ~(rdclk /\ Block)
      <4>1. head_valid' = head_valid  BY <3>3 DEF Moves
      <4> QED  BY <4>1, <3>1
    <3> QED  BY <3>2, <3>3
  <2>4. head_q' \in Word \cup {Garbage}
    <3>1. /\ cdc_mem \in [Cells -> Word \cup {Garbage}] /\ head_q \in Word \cup {Garbage}
          /\ cdc_rd_ptr \in Ptr
      BY DEF SidesInv, SidesTypes
    <3>2. Addr(cdc_rd_ptr) \in Cells  BY <3>1, FifoAssumption DEF Ptr, Addr, Cells
    <3>3. head_q' = cdc_mem[Addr(cdc_rd_ptr)] \/ head_q' = head_q  BY DEF Moves
    <3> QED  BY <3>1, <3>2, <3>3
  <2> QED  BY <2>1, <2>2, <2>3, <2>4 DEF SidesTypes
<1>2. PICK n \in Int, s1 \in Int, s2 \in Int, l1 \in Int, l2 \in Int :
        n = Stocked /\ s1 = Seen1 /\ s2 = Seen2 /\ l1 = Lag1 /\ l2 = Lag2
  <2>1. Stocked \in Int /\ Seen1 \in Int /\ Seen2 \in Int /\ Lag1 \in Int /\ Lag2 \in Int
    BY SidesRange
  <2> QED  BY ONLY <2>1, Zenon
<1>3. s2 <= s1 /\ s1 <= n /\ l1 <= l2 /\ n + l2 <= Depth /\ l1 >= 0 /\ s2 >= 0
  BY <1>2, SidesRange DEF SidesInv
<1>4. PICK t \in 0 .. 1, p \in 0 .. 1 : t = One(take) /\ p = One(put)
  BY DEF One
<1>5. (t = 1 => rdclk /\ s2 > 0) /\ (p = 1 => wrclk /\ n + l2 < Depth)
  <2>1. (take => rdclk /\ Seen2 > 0) /\ (put => wrclk /\ Stocked + Lag2 < Depth)
    BY MovesPointers
  <2> QED  BY <2>1, <1>2, <1>4 DEF One
<1>6. /\ Stocked' = n - t + p
      /\ Seen2' = IF rdclk THEN s1 - t ELSE s2
      /\ IF rdclk THEN Seen1' \in {n - t, n - t + p} ELSE Seen1' = s1
      /\ Lag2' = t + (IF wrclk THEN l1 ELSE l2)
      /\ IF wrclk THEN Lag1' \in {0, t} ELSE Lag1' = l1 + t
  <2>1. /\ Stocked' = Stocked - One(take) + One(put)
        /\ Seen2' = IF rdclk THEN Seen1 - One(take) ELSE Seen2
        /\ IF rdclk THEN Seen1' \in {Stocked - One(take), Stocked'} ELSE Seen1' = Seen1
        /\ Lag2' = One(take) + (IF wrclk THEN Lag1 ELSE Lag2)
        /\ IF wrclk THEN Lag1' \in {0, One(take)} ELSE Lag1' = Lag1 + One(take)
    BY MovesCount
  <2> QED  BY ONLY <2>1, <1>2, <1>4
<1>7. Depth \in Nat  BY FifoAssumption
<1>8. PICK n2, s12, s22, l12, l22 :
        n2 = Stocked' /\ s12 = Seen1' /\ s22 = Seen2' /\ l12 = Lag1' /\ l22 = Lag2'
  OBVIOUS
<1>9. /\ n2 = n - t + p
      /\ s22 = IF rdclk THEN s1 - t ELSE s2
      /\ IF rdclk THEN s12 = n - t \/ s12 = n - t + p ELSE s12 = s1
      /\ l22 = t + (IF wrclk THEN l1 ELSE l2)
      /\ IF wrclk THEN l12 = 0 \/ l12 = t ELSE l12 = l1 + t
  BY ONLY <1>6, <1>8
<1>10. s22 <= s12 /\ s12 <= n2 /\ l12 <= l22 /\ n2 + l22 <= Depth
  <2>1. rdclk \/ ~rdclk  OBVIOUS
  <2> QED  BY ONLY <2>1, <1>3, <1>5, <1>7, <1>9, n \in Int, s1 \in Int, s2 \in Int, l1 \in Int, l2 \in Int,
             t \in 0 .. 1, p \in 0 .. 1, rdclk \in BOOLEAN, wrclk \in BOOLEAN
<1> QED  BY <1>1, <1>8, <1>10 DEF SidesInv

\* The order holds at reset and always.
LEMMA SidesInductive == Cdc!Spec => []SidesInv
<1>1. Cdc!Init => SidesInv
  <2> SUFFICES ASSUME Cdc!Init PROVE SidesInv  OBVIOUS
  <2>1. /\ cdc_mem \in [Cells -> Word \cup {Garbage}]
        /\ cdc_wr_ptr = 0 /\ cdc_rd_ptr = 0 /\ head_valid = FALSE /\ head_q = Garbage
        /\ rd_sync1 = Gray(0) /\ rd_sync2 = Gray(0) /\ wr_sync1 = Gray(0) /\ wr_sync2 = Gray(0)
    BY DEF Cdc!Init, Cells
  <2>2. 0 \in Ptr /\ Dist(0, 0) = 0 /\ 0 + 0 <= Depth /\ 0 <= 0
    BY FifoAssumption DEF Ptr, Dist
  <2>3. Bin(Gray(0)) = 0  BY <2>2, CodeOf
  <2>4. SidesTypes  BY <2>1, <2>2, <2>3 DEF SidesTypes
  <2>5. Stocked = 0 /\ Seen1 = 0 /\ Seen2 = 0 /\ Lag1 = 0 /\ Lag2 = 0
    BY <2>1, <2>2, <2>3 DEF Stocked, Seen1, Seen2, Lag1, Lag2
  <2> QED  BY <2>2, <2>4, <2>5 DEF SidesInv
<1>2. SidesInv /\ [Cdc!Next]_(Cdc!vars) => SidesInv'
  <2> SUFFICES ASSUME SidesInv, [Cdc!Next]_(Cdc!vars) PROVE SidesInv'  OBVIOUS
  <2>1. CASE Cdc!Next
    <3>1. PICK wrclk \in BOOLEAN, wr_en \in BOOLEAN, rdclk \in BOOLEAN, rd_en \in BOOLEAN,
               put \in BOOLEAN, take \in BOOLEAN, w \in Word :
            Moves(wrclk, wr_en, w, rdclk, rd_en, put, take)
      BY <2>1, StepMoves DEF SidesInv
    <3> QED  BY <3>1, MovesKeepOrder
  <2>2. CASE UNCHANGED Cdc!vars
    BY <2>2 DEF Cdc!vars, Cdc!wrSide, Cdc!rdSide, SidesInv, SidesTypes,
                Stocked, Seen1, Seen2, Lag1, Lag2
  <2> QED  BY <2>1, <2>2
<1> QED  BY <1>1, <1>2, PTL DEF Cdc!Spec

-----------------------------------------------------------------------------
(* What the two sides hold between them *)

\* The words in the memory are the window between the pointers.
LEMMA MemoryIsWindow ==
  /\ Cdc!InMemory = Window(cdc_mem, cdc_rd_ptr, Stocked)
  /\ Cdc!InMemory' = Window(cdc_mem', cdc_rd_ptr', Stocked')
<1>1. Cdc!MemOcc = Stocked  BY SameRing DEF Cdc!MemOcc, Stocked
<1>2. Cdc!MemOcc' = Stocked'  BY SameRing DEF Cdc!MemOcc, Stocked
<1>3. \A m, r, n : Window(m, r, n) = [i \in 1 .. n |-> m[Cdc!Addr(Cdc!Plus(r, i - 1))]]
  BY SameRing DEF Window
<1>4. Cdc!InMemory = Window(cdc_mem, cdc_rd_ptr, Stocked)  BY <1>1, <1>3 DEF Cdc!InMemory
<1>5. Cdc!InMemory' = Window(cdc_mem', cdc_rd_ptr', Stocked')  BY <1>2, <1>3 DEF Cdc!InMemory
<1> QED  BY <1>4, <1>5

\* What is left of them after a take, or without one.
Rest(take) == IF take THEN Tail(Cdc!InMemory) ELSE Cdc!InMemory

\* They move as a queue: a take removes the first, a put appends.
LEMMA MemoryMoves ==
  ASSUME SidesInv,
         NEW wrclk \in BOOLEAN, NEW wr_en \in BOOLEAN, NEW w \in Word, NEW rdclk \in BOOLEAN,
         NEW rd_en \in BOOLEAN, NEW put \in BOOLEAN, NEW take \in BOOLEAN,
         Moves(wrclk, wr_en, w, rdclk, rd_en, put, take)
  PROVE  /\ Cdc!InMemory' = IF put THEN Append(Rest(take), w) ELSE Rest(take)
         /\ Cdc!InMemory \in Seq(Word \cup {Garbage}) /\ Len(Cdc!InMemory) = Stocked
         /\ take => /\ Cdc!InMemory # << >>
                    /\ Head(Cdc!InMemory) = cdc_mem[Addr(cdc_rd_ptr)]
         /\ Len(Rest(take)) = Stocked - One(take)
<1> DEFINE rest == Rest(take)
<1>0. /\ put => wrclk /\ Stocked + Lag2 < Depth
      /\ take => rdclk /\ Seen2 > 0
  BY MovesPointers
<1>1. /\ cdc_mem \in [Cells -> Word \cup {Garbage}]
      /\ cdc_wr_ptr \in Ptr /\ cdc_rd_ptr \in Ptr /\ Stocked \in 0 .. Depth
  BY SidesRange DEF SidesInv, SidesTypes
<1>2. take => Stocked \in 1 .. Depth
  <2>1. take => Seen2 > 0  BY <1>0
  <2>2. PICK n \in Int, s1 \in Int, s2 \in Int : n = Stocked /\ s1 = Seen1 /\ s2 = Seen2
    <3>1. Seen1 \in Int /\ Seen2 \in Int /\ Stocked \in Int  BY SidesRange
    <3> QED  BY ONLY <3>1, Zenon
  <2>3. s2 <= s1 /\ s1 <= n /\ 0 <= n /\ n <= Depth  BY <1>1, <2>2 DEF SidesInv
  <2>4. s2 > 0 => n \in 1 .. Depth
    BY ONLY <2>3, n \in Int, s1 \in Int, s2 \in Int
  <2> QED  BY <2>1, <2>2, <2>4
<1>3. Fifo!Ptr = Ptr  BY SameRing
<1>4. /\ Window(cdc_mem, cdc_rd_ptr, Stocked) \in Seq(Word \cup {Garbage})
      /\ Len(Window(cdc_mem, cdc_rd_ptr, Stocked)) = Stocked
  BY <1>1, <1>3, WindowIsSeq
<1>5. ASSUME take
      PROVE  /\ Window(cdc_mem, cdc_rd_ptr, Stocked) # << >>
             /\ Head(Window(cdc_mem, cdc_rd_ptr, Stocked)) = cdc_mem[Addr(cdc_rd_ptr)]
             /\ Tail(Window(cdc_mem, cdc_rd_ptr, Stocked))
                = Window(cdc_mem, Inc(cdc_rd_ptr), Stocked - 1)
  <2>1. Stocked \in 1 .. Depth /\ Stocked # 0  BY <1>2, <1>5
  <2>2. Window(cdc_mem, cdc_rd_ptr, Stocked) # << >>  BY <2>1, <1>1, <1>3, WindowEmpty
  <2>3. /\ Head(Window(cdc_mem, cdc_rd_ptr, Stocked)) = cdc_mem[Fifo!Addr(cdc_rd_ptr)]
        /\ Tail(Window(cdc_mem, cdc_rd_ptr, Stocked))
           = Window(cdc_mem, Fifo!Inc(cdc_rd_ptr), Stocked - 1)
    BY <2>1, <1>1, <1>3, WindowPop
  <2> QED  BY <2>2, <2>3, SameRing
<1>6. cdc_rd_ptr' = IF take THEN Inc(cdc_rd_ptr) ELSE cdc_rd_ptr  BY DEF Moves
<1>7. cdc_rd_ptr' \in Ptr  BY MovesPointers
<1>8. PICK n \in 0 .. Depth : n = Stocked - One(take)
  <2>1. Stocked - One(take) \in 0 .. Depth
    <3>1. CASE take  BY <3>1, <1>2, FifoAssumption DEF One
    <3>2. CASE ~take
      <4>1. Stocked - 0 = Stocked  BY <1>1
      <4> QED  BY <4>1, <3>2, <1>1 DEF One
    <3> QED  BY <3>1, <3>2
  <2> QED  BY ONLY <2>1, Zenon
<1>9. rest = Window(cdc_mem, cdc_rd_ptr', n)
  <2>1. CASE take
    <3>1. n = Stocked - 1  BY <2>1, <1>8 DEF One
    <3> QED  BY <2>1, <3>1, <1>5, <1>6, MemoryIsWindow DEF Rest
  <2>2. CASE ~take
    <3>1. Stocked - 0 = Stocked  BY <1>1
    <3>2. n = Stocked  BY <2>2, <3>1, <1>8 DEF One
    <3> QED  BY <2>2, <3>2, <1>6, MemoryIsWindow DEF Rest
  <2> QED  BY <2>1, <2>2
<1> HIDE DEF rest
<1>10. Len(rest) = n
  <2>1. Len(Window(cdc_mem, cdc_rd_ptr', n)) = n  BY <1>1, <1>3, <1>7, WindowIsSeq
  <2> QED  BY <2>1, <1>9
<1>11. Stocked' = n + One(put)  BY MovesCount, <1>8
<1>12. Cdc!InMemory' = IF put THEN Append(rest, w) ELSE rest
  <2>1. CASE put
    <3>1. n \in 0 .. Depth - 1
      <4>1. Stocked + Lag2 < Depth  BY <2>1, <1>0
      <4>2. Lag2 \in Nat /\ Stocked \in Nat /\ Depth \in Nat  BY SidesRange, FifoAssumption
      <4>3. PICK s \in Nat, l \in Nat, t \in Nat : s = Stocked /\ l = Lag2 /\ t = One(take)
        <5>1. One(take) \in Nat  BY DEF One
        <5> QED  BY ONLY <5>1, <4>2, Zenon
      <4>4. s + l < Depth /\ n = s - t  BY <4>1, <4>3, <1>8
      <4> QED
        BY ONLY <4>4, <4>2, s \in Nat, l \in Nat, t \in Nat, n \in 0 .. Depth
    <3>2. Append(Window(cdc_mem, cdc_rd_ptr', n), w)
          = Window([cdc_mem EXCEPT ![Fifo!Addr(Fifo!Plus(cdc_rd_ptr', n))] = w],
                   cdc_rd_ptr', n + 1)
      BY <1>1, <1>3, <1>7, <3>1, WindowPush
    <3>3. Plus(cdc_rd_ptr', n) = cdc_wr_ptr
      <4>1. Dist(cdc_rd_ptr', cdc_wr_ptr) = n
        <5>1. (take => Dist(cdc_rd_ptr, cdc_wr_ptr) > 0) =>
                Dist(cdc_rd_ptr', cdc_wr_ptr) = Dist(cdc_rd_ptr, cdc_wr_ptr) - One(take)
          BY <1>1, <1>6, ReaderSteps
        <5>2. take => Stocked > 0  BY <1>2
        <5> QED  BY <5>1, <5>2, <1>8 DEF Stocked
      <4>2. Fifo!Plus(cdc_rd_ptr', Fifo!Dist(cdc_rd_ptr', cdc_wr_ptr)) = cdc_wr_ptr
        BY <1>1, <1>3, <1>7, DistReaches
      <4> QED  BY <4>1, <4>2, SameRing
    <3>4. cdc_mem' = [cdc_mem EXCEPT ![Addr(cdc_wr_ptr)] = w]  BY <2>1 DEF Moves
    <3>5. Stocked' = n + 1  BY <1>11, <2>1 DEF One
    <3>6. Fifo!Addr(Fifo!Plus(cdc_rd_ptr', n)) = Addr(cdc_wr_ptr)  BY <3>3, SameRing
    <3> QED  BY <2>1, <3>2, <3>4, <3>5, <3>6, <1>9, MemoryIsWindow
  <2>2. CASE ~put
    <3>1. cdc_mem' = cdc_mem  BY <2>2 DEF Moves
    <3>2. n + 0 = n  OBVIOUS
    <3>3. Stocked' = n  BY <1>11, <2>2, <3>2 DEF One
    <3> QED  BY <2>2, <3>1, <3>3, <1>9, MemoryIsWindow
  <2> QED  BY <2>1, <2>2
<1> QED  BY <1>4, <1>5, <1>8, <1>10, <1>12, MemoryIsWindow DEF rest

\* What the users of the crossing see of it - the flags, the count, the word offered - is
\* what CdcFifo shows them.
CrossingAgrees ==
  /\ Cdc!WrFull = Cdc!Crossing!WrFull
  /\ Cdc!WrDataCount = Cdc!Crossing!WrCount
  /\ \A rd_en \in BOOLEAN : Cdc!MemRd(rd_en) = Cdc!Crossing!MemRd(rd_en)
  /\ Cdc!RdEmpty = Cdc!Crossing!RdEmpty
  /\ ~Cdc!RdEmpty => Cdc!RdData = Cdc!Crossing!RdData

\* Because the views it counts with are in order, the invariant is enough for that.
LEMMA FlagsOfCrossing ==
  ASSUME SidesInv
  PROVE  CrossingAgrees
<1>1. /\ cdc_mem \in [Cells -> Word \cup {Garbage}]
      /\ cdc_wr_ptr \in Ptr /\ cdc_rd_ptr \in Ptr /\ Stocked \in 0 .. Depth
      /\ head_valid \in BOOLEAN /\ (head_valid => Block) /\ Block \in BOOLEAN
  BY SidesRange, BlockAssumption DEF SidesInv, SidesTypes
<1>2. Fifo!Ptr = Ptr  BY SameRing
<1>3. /\ Cdc!InMemory \in Seq(Word \cup {Garbage}) /\ Len(Cdc!InMemory) = Stocked
  BY <1>1, <1>2, WindowIsSeq, MemoryIsWindow
<1>4. /\ Cdc!WrFull <=> Stocked + Lag2 = Depth
      /\ Cdc!MemEmpty <=> Seen2 = 0
      /\ Cdc!WrDataCount = Stocked + Lag2
  BY SidesFlags
<1>5. /\ Cdc!Dist(Bin(rd_sync2), cdc_rd_ptr) = Lag2
      /\ Cdc!Dist(cdc_rd_ptr, Bin(wr_sync2)) = Seen2
  BY SameRing DEF Lag2, Seen2
<1>6. Cdc!WrDataCount = Cdc!Crossing!WrCount
  BY <1>3, <1>4, <1>5 DEF Cdc!Crossing!WrCount
<1>7. Cdc!WrFull = Cdc!Crossing!WrFull
  <2>1. Cdc!WrFull <=> Cdc!Crossing!WrFull
    BY <1>3, <1>4, <1>5 DEF Cdc!Crossing!WrFull, Cdc!Crossing!WrCount
  <2>2. Cdc!WrFull \in BOOLEAN /\ Cdc!Crossing!WrFull \in BOOLEAN
    BY DEF Cdc!WrFull, Cdc!Crossing!WrFull
  <2> QED  BY <2>1, <2>2
<1>8. ~Cdc!MemEmpty <=> Seen2 > 0
  <2>1. Seen2 \in 0 .. Depth  BY SidesRange
  <2>2. Seen2 > 0 <=> Seen2 # 0  BY <2>1, FifoAssumption
  <2> QED  BY <2>2, <1>4
<1>9. Cdc!OutStage = << >> <=> ~head_valid
  BY <1>1 DEF Cdc!OutStage
<1>10. \A rd_en \in BOOLEAN : Cdc!MemRd(rd_en) = Cdc!Crossing!MemRd(rd_en)
  <2> TAKE rd_en \in BOOLEAN
  <2>1. Cdc!MemRd(rd_en) <=> Cdc!Crossing!MemRd(rd_en)
    <3>1. Cdc!MemRd(rd_en) <=> Seen2 > 0 /\ (IF Block THEN ~head_valid \/ rd_en ELSE rd_en)
      BY <1>8 DEF Cdc!MemRd
    <3>2. Cdc!Crossing!MemRd(rd_en)
          <=> Seen2 > 0 /\ (IF Block THEN ~head_valid \/ rd_en ELSE rd_en)
      BY <1>5, <1>9 DEF Cdc!Crossing!MemRd
    <3> QED  BY <3>1, <3>2
  <2>2. Cdc!MemRd(rd_en) \in BOOLEAN /\ Cdc!Crossing!MemRd(rd_en) \in BOOLEAN
    BY DEF Cdc!MemRd, Cdc!Crossing!MemRd
  <2> QED  BY <2>1, <2>2
<1>11. Cdc!RdEmpty = Cdc!Crossing!RdEmpty
  <2>1. CASE Block
    <3>1. Cdc!RdEmpty = (~head_valid)  BY <2>1 DEF Cdc!RdEmpty
    <3>2. Cdc!Crossing!RdEmpty = (Cdc!OutStage = << >>)  BY <2>1 DEF Cdc!Crossing!RdEmpty
    <3> QED  BY <3>1, <3>2, <1>9
  <2>2. CASE ~Block
    <3>1. Cdc!RdEmpty = Cdc!MemEmpty  BY <2>2 DEF Cdc!RdEmpty
    <3>2. Cdc!Crossing!RdEmpty = (Seen2 = 0)  BY <2>2, <1>5 DEF Cdc!Crossing!RdEmpty
    <3>3. Cdc!MemEmpty \in BOOLEAN  BY DEF Cdc!MemEmpty
    <3> QED  BY <3>1, <3>2, <3>3, <1>4
  <2> QED  BY <2>1, <2>2
<1>12. ~Cdc!RdEmpty => Cdc!RdData = Cdc!Crossing!RdData
  <2> SUFFICES ASSUME ~Cdc!RdEmpty PROVE Cdc!RdData = Cdc!Crossing!RdData  OBVIOUS
  <2>1. CASE Block
    <3>1. head_valid  BY <2>1, <1>1 DEF Cdc!RdEmpty
    <3>2. Cdc!OutStage[1] = head_q  BY <3>1 DEF Cdc!OutStage
    <3> QED  BY <2>1, <3>2 DEF Cdc!RdData, Cdc!Crossing!RdData
  <2>2. CASE ~Block
    <3>1. Seen2 > 0  BY <2>2, <1>8 DEF Cdc!RdEmpty
    <3>2. PICK n \in Int, s1 \in Int, s2 \in Int : n = Stocked /\ s1 = Seen1 /\ s2 = Seen2
      <4>1. Seen1 \in Int /\ Seen2 \in Int /\ Stocked \in Int  BY SidesRange
      <4> QED  BY ONLY <4>1, Zenon
    <3>3. s2 <= s1 /\ s1 <= n /\ s2 > 0  BY <3>1, <3>2 DEF SidesInv
    <3>4. 1 \in 1 .. n  BY ONLY <3>3, n \in Int, s1 \in Int, s2 \in Int
    <3>5. Cdc!InMemory[1] = cdc_mem[Fifo!Addr(Fifo!Plus(cdc_rd_ptr, 1 - 1))]
      BY <3>2, <3>4, <1>1, <1>2, WindowIsSeq, MemoryIsWindow
    <3>6. Plus(cdc_rd_ptr, 1 - 1) = cdc_rd_ptr
      BY <1>1, FifoAssumption DEF Plus, Ptr
    <3>7. Cdc!InMemory[1] = cdc_mem[Cdc!Addr(cdc_rd_ptr)]  BY <3>5, <3>6, SameRing
    <3> QED  BY <2>2, <3>7 DEF Cdc!RdData, Cdc!Crossing!RdData
  <2> QED  BY <2>1, <2>2
<1> QED  BY <1>6, <1>7, <1>10, <1>11, <1>12 DEF CrossingAgrees

\* A move of the registers is an edge of the queue with two lagging views.
LEMMA MovesAreEdges ==
  ASSUME SidesInv,
         NEW wrclk \in BOOLEAN, NEW wr_en \in BOOLEAN, NEW w \in Word, NEW rdclk \in BOOLEAN,
         NEW rd_en \in BOOLEAN, NEW put \in BOOLEAN, NEW take \in BOOLEAN,
         Moves(wrclk, wr_en, w, rdclk, rd_en, put, take)
  PROVE  Cdc!Crossing!Edge(wrclk, wr_en, w, rdclk, rd_en)
<1>1. /\ put = (wrclk /\ wr_en /\ ~Cdc!Crossing!WrFull)
      /\ take = (rdclk /\ Cdc!Crossing!MemRd(rd_en))
  BY FlagsOfCrossing DEF Moves, CrossingAgrees
<1>2. /\ Cdc!InMemory' = IF put THEN Append(Rest(take), w) ELSE Rest(take)
      /\ Cdc!InMemory \in Seq(Word \cup {Garbage}) /\ Len(Cdc!InMemory) = Stocked
      /\ take => /\ Cdc!InMemory # << >>
                 /\ Head(Cdc!InMemory) = cdc_mem[Addr(cdc_rd_ptr)]
      /\ Len(Rest(take)) = Stocked - One(take)
  BY MemoryMoves
<1>3. Len(Cdc!InMemory') = Stocked'
  <2>1. SidesInv'  BY MovesKeepOrder
  <2>2. /\ cdc_mem' \in [Cells -> Word \cup {Garbage}] /\ cdc_rd_ptr' \in Ptr
        /\ Stocked' \in 0 .. Depth
    <3>1. SidesTypes'  BY <2>1 DEF SidesInv
    <3>2. Stocked' \in 0 .. 2 * Depth - 1
      <4>1. cdc_rd_ptr' \in Ptr /\ cdc_wr_ptr' \in Ptr  BY MovesPointers
      <4> QED  BY <4>1, RingSteps DEF Stocked
    <3>3. Stocked' <= Depth
      <4>1. PICK a \in Int, b \in Int : a = Stocked' /\ b = Lag2'
        <5>1. Lag2' \in 0 .. 2 * Depth - 1
          <6>1. cdc_rd_ptr' \in Ptr /\ Bin(rd_sync2') \in Ptr  BY <3>1 DEF SidesTypes
          <6> QED  BY <6>1, RingSteps DEF Lag2
        <5>2. Stocked' \in Int /\ Lag2' \in Int  BY <5>1, <3>2
        <5> QED  BY ONLY <5>2, Zenon
      <4>2. a + b <= Depth  BY <2>1, <4>1 DEF SidesInv
      <4>3. b >= 0
        <5>1. cdc_rd_ptr' \in Ptr /\ Bin(rd_sync2') \in Ptr  BY <3>1 DEF SidesTypes
        <5>2. Lag2' \in 0 .. 2 * Depth - 1  BY <5>1, RingSteps DEF Lag2
        <5> QED  BY <5>2, <4>1
      <4>4. Depth \in Int  BY FifoAssumption
      <4>5. a <= Depth  BY ONLY <4>2, <4>3, <4>4, a \in Int, b \in Int
      <4> QED  BY <4>1, <4>5
    <3> QED  BY <3>1, <3>2, <3>3, FifoAssumption DEF SidesTypes
  <2>3. cdc_rd_ptr' \in Fifo!Ptr  BY <2>2, SameRing
  <2>4. Len(Window(cdc_mem', cdc_rd_ptr', Stocked')) = Stocked'  BY <2>2, <2>3, WindowIsSeq
  <2> QED  BY <2>4, MemoryIsWindow
<1>4. /\ Stocked' = Stocked - One(take) + One(put)
      /\ Seen2' = IF rdclk THEN Seen1 - One(take) ELSE Seen2
      /\ IF rdclk THEN Seen1' \in {Stocked - One(take), Stocked'} ELSE Seen1' = Seen1
      /\ Lag2' = One(take) + (IF wrclk THEN Lag1 ELSE Lag2)
      /\ IF wrclk THEN Lag1' \in {0, One(take)} ELSE Lag1' = Lag1 + One(take)
  BY MovesCount
<1>5. /\ Cdc!Dist(Bin(rd_sync1), cdc_rd_ptr) = Lag1 /\ Cdc!Dist(Bin(rd_sync2), cdc_rd_ptr) = Lag2
      /\ Cdc!Dist(cdc_rd_ptr, Bin(wr_sync1)) = Seen1 /\ Cdc!Dist(cdc_rd_ptr, Bin(wr_sync2)) = Seen2
      /\ Cdc!Dist(Bin(rd_sync1'), cdc_rd_ptr') = Lag1' /\ Cdc!Dist(Bin(rd_sync2'), cdc_rd_ptr') = Lag2'
      /\ Cdc!Dist(cdc_rd_ptr', Bin(wr_sync1')) = Seen1' /\ Cdc!Dist(cdc_rd_ptr', Bin(wr_sync2')) = Seen2'
  BY SameRing DEF Lag1, Lag2, Seen1, Seen2
<1>6. Cdc!OutStage' = IF Block /\ take THEN <<Head(Cdc!InMemory)>>
                      ELSE IF rdclk /\ rd_en THEN << >> ELSE Cdc!OutStage
  <2>1. /\ head_valid \in BOOLEAN /\ (head_valid => Block) /\ Block \in BOOLEAN
        /\ (take => rdclk)
    BY <1>1, BlockAssumption DEF SidesInv, SidesTypes
  <2>2. CASE Block /\ take
    <3>1. head_q' = cdc_mem[Addr(cdc_rd_ptr)] /\ head_valid' = TRUE  BY <2>1, <2>2 DEF Moves
    <3> QED  BY <3>1, <2>2, <1>2 DEF Cdc!OutStage
  <2>3. CASE Block /\ ~take /\ rdclk
    <3>1. head_q' = head_q /\ head_valid' = (head_valid /\ ~rd_en)  BY <2>1, <2>3 DEF Moves
    <3> QED  BY <3>1, <2>1, <2>3 DEF Cdc!OutStage
  <2>4. CASE ~rdclk \/ ~Block
    <3>1. head_q' = head_q /\ head_valid' = head_valid  BY <2>4 DEF Moves
    <3>2. ~(Block /\ take)  BY <2>1, <2>4
    <3>3. CASE ~Block
      <4>1. ~head_valid  BY <2>1, <3>3
      <4> QED  BY <3>1, <3>2, <4>1 DEF Cdc!OutStage
    <3>4. CASE ~rdclk  BY <3>1, <3>2, <3>4 DEF Cdc!OutStage
    <3> QED  BY <2>4, <3>3, <3>4
  <2> QED  BY <2>1, <2>2, <2>3, <2>4
<1>7. Cdc!InMemory' = IF put THEN Append(IF take THEN Tail(Cdc!InMemory) ELSE Cdc!InMemory, w)
                      ELSE IF take THEN Tail(Cdc!InMemory) ELSE Cdc!InMemory
  BY <1>2 DEF Rest
<1>8. Len(IF take THEN Tail(Cdc!InMemory) ELSE Cdc!InMemory) = Stocked - One(take)
  BY <1>2 DEF Rest
<1>9. /\ Seen1' \in IF rdclk THEN {Stocked - One(take), Stocked'} ELSE {Seen1}
      /\ Lag1' \in IF wrclk THEN {0, One(take)} ELSE {Lag1 + One(take)}
  BY <1>4
<1>10. One(take) = IF take THEN 1 ELSE 0  BY DEF One
<1> QED  BY ONLY <1>1, <1>3, <1>4, <1>5, <1>6, <1>7, <1>8, <1>9, <1>10, Zenon DEF Cdc!Crossing!Edge

-----------------------------------------------------------------------------
(* One bounded queue *)

\* What joining the output stage h to the memory q makes of a take, a pop and a put.
LEMMA JoinedMoves ==
  ASSUME NEW S, NEW h, NEW q \in Seq(S), h = << >> \/ \E x \in S : h = <<x>>, NEW w \in S
  PROVE  /\ h \o q \in Seq(S) /\ Len(h \o q) = Len(h) + Len(q) /\ Len(h) \in 0 .. 1
         /\ h \o Append(q, w) = Append(h \o q, w)
         /\ h = << >> => h \o q = q
         /\ h # << >> => h \o q # << >> /\ Tail(h \o q) = q
         /\ q # << >> => <<Head(q)>> \o Tail(q) = q
<1>1. h \in Seq(S) /\ Len(h) \in 0 .. 1
  <2>1. CASE h = << >>  BY <2>1
  <2>2. CASE \E x \in S : h = <<x>>  BY <2>2
  <2> QED  BY <2>1, <2>2
<1>2. h \o q \in Seq(S) /\ Len(h \o q) = Len(h) + Len(q)  BY <1>1, ConcatProperties
<1>3. h \o Append(q, w) = Append(h \o q, w)
  <2>1. h \o Append(q, w) \in Seq(S) /\ Append(h \o q, w) \in Seq(S)
    BY <1>1, <1>2, AppendProperties, ConcatProperties
  <2>2. /\ Len(h \o Append(q, w)) = Len(h) + (Len(q) + 1)
        /\ \A i \in 1 .. Len(h) + (Len(q) + 1) :
             (h \o Append(q, w))[i] = IF i <= Len(h) THEN h[i] ELSE Append(q, w)[i - Len(h)]
    BY <1>1, AppendProperties, ConcatProperties
  <2>3. /\ Len(Append(h \o q, w)) = Len(h) + Len(q) + 1
        /\ \A i \in 1 .. Len(h) + Len(q) : Append(h \o q, w)[i] = (h \o q)[i]
        /\ Append(h \o q, w)[Len(h) + Len(q) + 1] = w
    BY <1>2, AppendProperties
  <2>4. \A i \in 1 .. Len(h) + Len(q) :
          (h \o q)[i] = IF i <= Len(h) THEN h[i] ELSE q[i - Len(h)]
    BY <1>1, ConcatProperties
  <2>5. /\ \A i \in 1 .. Len(q) : Append(q, w)[i] = q[i]
        /\ Append(q, w)[Len(q) + 1] = w
    BY AppendProperties
  <2>6. PICK m \in Nat, n \in Nat : m = Len(h) /\ n = Len(q)
    <3>1. Len(h) \in Nat /\ Len(q) \in Nat  BY <1>1
    <3> QED  BY ONLY <3>1, Zenon
  <2>7. \A i \in 1 .. m + n + 1 : (h \o Append(q, w))[i] = Append(h \o q, w)[i]
    <3> TAKE i \in 1 .. m + n + 1
    <3>1. i \in 1 .. m + (n + 1)  OBVIOUS
    <3>2. CASE i <= m
      <4>1. i \in 1 .. m + n  BY <3>2
      <4> QED  BY <4>1, <3>1, <3>2, <2>2, <2>3, <2>4, <2>6
    <3>3. CASE i > m /\ i <= m + n
      <4>1. i \in 1 .. m + n /\ i - m \in 1 .. n /\ ~(i <= m)  BY <3>3
      <4>2. (h \o Append(q, w))[i] = Append(q, w)[i - m]  BY <4>1, <3>1, <2>2, <2>6
      <4>3. (h \o q)[i] = q[i - m]  BY <4>1, <2>4, <2>6
      <4>4. Append(q, w)[i - m] = q[i - m]  BY <4>1, <2>5, <2>6
      <4>5. Append(h \o q, w)[i] = (h \o q)[i]  BY <4>1, <2>3, <2>6
      <4> QED  BY <4>2, <4>3, <4>4, <4>5
    <3>4. CASE i = m + n + 1
      <4>1. i - m = n + 1 /\ ~(i <= m)  BY <3>4
      <4> QED  BY <4>1, <3>1, <3>4, <2>2, <2>3, <2>5, <2>6
    <3>5. i <= m \/ (i > m /\ i <= m + n) \/ i = m + n + 1  OBVIOUS
    <3> QED  BY <3>2, <3>3, <3>4, <3>5
  <2>8. Len(h \o Append(q, w)) = m + n + 1 /\ Len(Append(h \o q, w)) = m + n + 1
    BY <2>2, <2>3, <2>6
  <2> QED  BY <2>1, <2>7, <2>8, SeqEqual
<1>4. h = << >> => h \o q = q  OBVIOUS
<1>5. ASSUME h # << >> PROVE h \o q # << >> /\ Tail(h \o q) = q
  <2>1. PICK x \in S : h = <<x>>  BY <1>5
  <2>2. Len(h) = 1  BY <2>1
  <2>3. PICK n \in Nat : n = Len(q)
    <3>1. Len(q) \in Nat  OBVIOUS
    <3> QED  BY ONLY <3>1, Zenon
  <2>4. Len(h \o q) = 1 + n  BY <1>2, <2>2, <2>3
  <2>5. h \o q # << >>
    <3>1. 1 + n # 0  OBVIOUS
    <3> QED  BY <3>1, <2>4, <1>2, EmptySeq
  <2>6. /\ Tail(h \o q) \in Seq(S) /\ Len(Tail(h \o q)) = n
        /\ \A i \in 1 .. n : Tail(h \o q)[i] = (h \o q)[i + 1]
    <3>1. /\ Tail(h \o q) \in Seq(S) /\ Len(Tail(h \o q)) = Len(h \o q) - 1
          /\ \A i \in 1 .. Len(Tail(h \o q)) : Tail(h \o q)[i] = (h \o q)[i + 1]
      BY <1>2, <2>5, HeadTailProperties
    <3>2. 1 + n - 1 = n  OBVIOUS
    <3> QED  BY <3>1, <3>2, <2>4
  <2>7. \A i \in 1 .. n : (h \o q)[i + 1] = q[i]
    <3> TAKE i \in 1 .. n
    <3>1. i + 1 \in 1 .. 1 + n /\ ~(i + 1 <= 1) /\ i + 1 - 1 = i  OBVIOUS
    <3>2. \A j \in 1 .. Len(h) + Len(q) :
            (h \o q)[j] = IF j <= Len(h) THEN h[j] ELSE q[j - Len(h)]
      BY <1>1, ConcatProperties
    <3>3. \A j \in 1 .. 1 + n : (h \o q)[j] = IF j <= 1 THEN h[j] ELSE q[j - 1]
      BY <3>2, <2>2, <2>3
    <3>4. PICK j \in 1 .. 1 + n : j = i + 1 /\ j - 1 = i /\ ~(j <= 1)  BY <3>1
    <3>5. (h \o q)[j] = IF j <= 1 THEN h[j] ELSE q[j - 1]  BY ONLY <3>3, j \in 1 .. 1 + n, Zenon
    <3>6. (h \o q)[j] = q[j - 1]  BY ONLY <3>4, <3>5, Zenon
    <3> QED  BY ONLY <3>4, <3>6, Zenon
  <2>8. \A i \in 1 .. Len(q) : Tail(h \o q)[i] = q[i]  BY <2>3, <2>6, <2>7
  <2> QED  BY <2>3, <2>5, <2>6, <2>8, SeqEqual
<1>6. q # << >> => <<Head(q)>> \o Tail(q) = q  OBVIOUS
<1> QED  BY <1>1, <1>2, <1>3, <1>4, <1>5, <1>6

\* The output stage and the memory behind it are one queue: a word leaves it when the
\* reader pops, not when it moves to the output stage.
LEMMA MovesAreQueueSteps ==
  ASSUME SidesInv,
         NEW wrclk \in BOOLEAN, NEW wr_en \in BOOLEAN, NEW w \in Word, NEW rdclk \in BOOLEAN,
         NEW rd_en \in BOOLEAN, NEW put \in BOOLEAN, NEW take \in BOOLEAN,
         Moves(wrclk, wr_en, w, rdclk, rd_en, put, take)
  PROVE  Cdc!Queue!Next \/ Cdc!Contents' = Cdc!Contents
<1>0. /\ put => wrclk /\ Stocked + Lag2 < Depth
      /\ take => rdclk /\ Seen2 > 0
  BY MovesPointers
<1> DEFINE S == Word \cup {Garbage}
<1>1. PICK q \in Seq(S) : q = Cdc!InMemory
  <2>1. Cdc!InMemory \in Seq(S)  BY MemoryMoves
  <2> QED  BY ONLY <2>1, Zenon
<1>2. PICK h : h = Cdc!OutStage  OBVIOUS
<1>3. PICK h2 : h2 = Cdc!OutStage'  OBVIOUS
<1>4. PICK rest : rest = IF take THEN Tail(q) ELSE q  OBVIOUS
<1>5. /\ Cdc!InMemory' = IF put THEN Append(rest, w) ELSE rest
      /\ Len(q) = Stocked
      /\ take => q # << >>
  <2>1. /\ Cdc!InMemory' = IF put THEN Append(Rest(take), w) ELSE Rest(take)
        /\ Cdc!InMemory \in Seq(Word \cup {Garbage}) /\ Len(Cdc!InMemory) = Stocked
        /\ take => /\ Cdc!InMemory # << >>
                   /\ Head(Cdc!InMemory) = cdc_mem[Addr(cdc_rd_ptr)]
        /\ Len(Rest(take)) = Stocked - One(take)
    BY MemoryMoves
  <2>2. rest = Rest(take)  BY <1>1, <1>4 DEF Rest
  <2> QED  BY <1>1, <2>1, <2>2
<1>6. /\ head_valid \in BOOLEAN /\ (head_valid => Block) /\ Block \in BOOLEAN
      /\ head_q \in S
  BY BlockAssumption DEF SidesInv, SidesTypes
<1>7. h = << >> \/ \E x \in S : h = <<x>>  BY <1>2, <1>6 DEF Cdc!OutStage
<1>8. h2 = IF Block /\ take THEN <<Head(q)>> ELSE IF rdclk /\ rd_en THEN << >> ELSE h
  <2>1. Cdc!Crossing!Edge(wrclk, wr_en, w, rdclk, rd_en)  BY MovesAreEdges
  <2>2. take = (rdclk /\ Cdc!Crossing!MemRd(rd_en))
    BY FlagsOfCrossing DEF Moves, CrossingAgrees
  <2>3. Cdc!OutStage' = IF Block /\ (rdclk /\ Cdc!Crossing!MemRd(rd_en))
                        THEN <<Head(Cdc!InMemory)>>
                        ELSE IF rdclk /\ rd_en THEN << >> ELSE Cdc!OutStage
    BY <2>1 DEF Cdc!Crossing!Edge
  <2> QED  BY <2>2, <2>3, <1>1, <1>2, <1>3
<1>9. take => rdclk /\ (Block => h = << >> \/ rd_en) /\ (~Block => rd_en)
  <2>1. take => rdclk /\ Cdc!MemRd(rd_en)  BY DEF Moves
  <2>2. h = << >> <=> ~head_valid  BY <1>2, <1>6 DEF Cdc!OutStage
  <2> QED  BY <2>1, <2>2, <1>6 DEF Cdc!MemRd
<1>10. ~Block => h = << >>  BY <1>2, <1>6 DEF Cdc!OutStage
<1>11. rest \in Seq(S)
  <2>1. CASE take
    <3>1. q # << >>  BY <1>5, <2>1
    <3>2. Tail(q) \in Seq(S)  BY <3>1, HeadTailProperties
    <3> QED  BY <3>2, <2>1, <1>4
  <2>2. CASE ~take  BY <2>2, <1>4
  <2> QED  BY <2>1, <2>2
<1>12. h2 = << >> \/ \E x \in S : h2 = <<x>>
  <2>1. CASE Block /\ take
    <3>1. Head(q) \in S  BY <2>1, <1>5, HeadTailProperties
    <3> QED  BY <3>1, <2>1, <1>8
  <2>2. CASE ~(Block /\ take)  BY <2>2, <1>7, <1>8
  <2> QED  BY <2>1, <2>2
<1>13. w \in S  OBVIOUS
<1> HIDE DEF S
<1>14. /\ h \o q \in Seq(S) /\ Len(h \o q) = Len(h) + Len(q) /\ Len(h) \in 0 .. 1
       /\ h \o Append(q, w) = Append(h \o q, w)
       /\ h = << >> => h \o q = q
       /\ h # << >> => h \o q # << >> /\ Tail(h \o q) = q
       /\ q # << >> => <<Head(q)>> \o Tail(q) = q
  BY ONLY q \in Seq(S), <1>7, <1>13, JoinedMoves
<1>15. /\ h2 \o rest \in Seq(S) /\ Len(h2 \o rest) = Len(h2) + Len(rest) /\ Len(h2) \in 0 .. 1
       /\ h2 \o Append(rest, w) = Append(h2 \o rest, w)
       /\ h2 = << >> => h2 \o rest = rest
       /\ h2 # << >> => h2 \o rest # << >> /\ Tail(h2 \o rest) = rest
       /\ rest # << >> => <<Head(rest)>> \o Tail(rest) = rest
  BY ONLY <1>11, <1>12, <1>13, JoinedMoves
<1>16. PICK c, x : c = h \o q /\ x = h2 \o rest  OBVIOUS
<1>17. \/ x = c
       \/ c # << >> /\ x = Tail(c)
  <2>1. CASE Block /\ take
    <3>1. q # << >> /\ h2 = <<Head(q)>> /\ rest = Tail(q)  BY <2>1, <1>4, <1>5, <1>8
    <3>2. x = q  BY <3>1, <1>14, <1>16
    <3> QED  BY <3>2, <1>14, <1>16
  <2>2. CASE Block /\ ~take
    <3>1. rest = q  BY <2>2, <1>4
    <3>2. CASE rdclk /\ rd_en
      <4>1. h2 = << >>  BY <2>2, <3>2, <1>8
      <4>2. x = q  BY <4>1, <3>1, <1>15, <1>16
      <4> QED  BY <4>2, <1>14, <1>16
    <3>3. CASE ~(rdclk /\ rd_en)
      <4>1. h2 = h  BY <2>2, <3>3, <1>8
      <4> QED  BY <4>1, <3>1, <1>16
    <3> QED  BY <3>2, <3>3
  <2>3. CASE ~Block
    <3>1. h = << >>  BY <2>3, <1>10
    <3>2. h2 = << >>  BY <2>3, <3>1, <1>8
    <3>3. c = q /\ x = rest  BY <3>1, <3>2, <1>14, <1>15, <1>16
    <3> QED  BY <3>3, <1>4, <1>5
  <2> QED  BY <2>1, <2>2, <2>3, <1>6
<1>18. Cdc!Contents = c  BY <1>1, <1>2, <1>16 DEF Cdc!Contents
<1>19. Cdc!Contents' = IF put THEN Append(x, w) ELSE x
  <2>1. Cdc!Contents' = h2 \o Cdc!InMemory'  BY <1>3 DEF Cdc!Contents
  <2>2. CASE put  BY <2>1, <2>2, <1>5, <1>15, <1>16
  <2>3. CASE ~put  BY <2>1, <2>3, <1>5, <1>16
  <2> QED  BY <2>2, <2>3
<1>20. put => Len(c) < (IF Block THEN Depth + 1 ELSE Depth)
  <2> SUFFICES ASSUME put PROVE Len(c) < (IF Block THEN Depth + 1 ELSE Depth)  OBVIOUS
  <2>1. Stocked + Lag2 < Depth  BY <1>0
  <2>2. PICK n \in Nat, l \in Nat, k \in 0 .. 1 : n = Stocked /\ l = Lag2 /\ k = Len(h)
    <3>1. Stocked \in Nat /\ Lag2 \in Nat  BY SidesRange
    <3>2. Len(h) \in 0 .. 1  BY <1>14
    <3> QED  BY ONLY <3>1, <3>2, Zenon
  <2>3. n + l < Depth  BY <2>1, <2>2
  <2>4. Len(c) = k + n  BY <2>2, <1>5, <1>14, <1>16
  <2>5. Depth \in Nat  BY FifoAssumption
  <2>6. CASE Block
    <3>1. k + n < Depth + 1  BY ONLY <2>3, <2>5, n \in Nat, l \in Nat, k \in 0 .. 1
    <3> QED  BY <3>1, <2>4, <2>6
  <2>7. CASE ~Block
    <3>1. k = 0  BY <2>2, <2>7, <1>10
    <3>2. k + n < Depth  BY ONLY <3>1, <2>3, <2>5, n \in Nat, l \in Nat
    <3> QED  BY <3>2, <2>4, <2>7
  <2> QED  BY <2>6, <2>7, <1>6
<1>21. CASE put
  <2>1. Cdc!Contents' = Append(x, w)  BY <1>19, <1>21
  <2>2. CASE x = c
    <3>1. Cdc!Queue!Put(w)  BY <2>1, <2>2, <1>18, <1>20, <1>21 DEF Cdc!Queue!Put
    <3> QED  BY <3>1 DEF Cdc!Queue!Next
  <2>3. CASE c # << >> /\ x = Tail(c)
    <3>1. Cdc!Queue!PutGet(w)  BY <2>1, <2>3, <1>18 DEF Cdc!Queue!PutGet
    <3> QED  BY <3>1 DEF Cdc!Queue!Next
  <2> QED  BY <2>2, <2>3, <1>17
<1>22. CASE ~put
  <2>1. Cdc!Contents' = x  BY <1>19, <1>22
  <2>2. CASE x = c  BY <2>1, <2>2, <1>18
  <2>3. CASE c # << >> /\ x = Tail(c)
    <3>1. Cdc!Queue!Get  BY <2>1, <2>3, <1>18 DEF Cdc!Queue!Get
    <3> QED  BY <3>1 DEF Cdc!Queue!Next
  <2> QED  BY <2>2, <2>3, <1>17
<1> QED  BY <1>21, <1>22

\* Every clock edge that changes the FIFO is a step, or no step, of both pictures of it.
LEMMA StepsOfTheFifo ==
  ASSUME SidesInv, [Cdc!Next]_(Cdc!vars)
  PROVE  /\ [Cdc!Queue!Next]_(Cdc!Contents)
         /\ [Cdc!Crossing!Next]_(Cdc!Crossing!vars)
<1>1. CASE Cdc!Next
  <2>1. SidesTypes  BY DEF SidesInv
  <2>2. \E wrclk, wr_en, rdclk, rd_en, put, take \in BOOLEAN, w \in Word :
          (wrclk \/ (rdclk /\ ~wr_en)) /\ Moves(wrclk, wr_en, w, rdclk, rd_en, put, take)
    BY ONLY <2>1, <1>1, StepMoves
  <2>3. PICK wrclk, wr_en, rdclk, rd_en, put, take \in BOOLEAN, w \in Word :
          (wrclk \/ (rdclk /\ ~wr_en)) /\ Moves(wrclk, wr_en, w, rdclk, rd_en, put, take)
    BY ONLY <2>2, Zenon
  <2>4. Cdc!Queue!Next \/ Cdc!Contents' = Cdc!Contents  BY <2>3, MovesAreQueueSteps
  <2>5. Cdc!Crossing!Edge(wrclk, wr_en, w, rdclk, rd_en)  BY <2>3, MovesAreEdges
  <2>6. Cdc!Crossing!Next
    <3>1. CASE wrclk
      <4>1. wrclk = TRUE  BY <3>1
      <4>2. Cdc!Crossing!Edge(TRUE, wr_en, w, rdclk, rd_en)  BY <2>5, <4>1, Zenon
      <4> QED  BY <4>2 DEF Cdc!Crossing!Next
    <3>2. CASE ~wrclk
      <4>1. wrclk = FALSE /\ wr_en = FALSE /\ rdclk = TRUE  BY <2>3, <3>2
      <4>2. Cdc!Crossing!Edge(FALSE, FALSE, w, TRUE, rd_en)  BY <2>5, <4>1, Zenon
      <4> QED  BY <4>2 DEF Cdc!Crossing!Next
    <3> QED  BY <3>1, <3>2
  <2> QED  BY <2>4, <2>6
<1>2. CASE UNCHANGED Cdc!vars
  <2>1. /\ cdc_mem' = cdc_mem /\ cdc_wr_ptr' = cdc_wr_ptr /\ cdc_rd_ptr' = cdc_rd_ptr
        /\ rd_sync1' = rd_sync1 /\ rd_sync2' = rd_sync2
        /\ wr_sync1' = wr_sync1 /\ wr_sync2' = wr_sync2
        /\ head_q' = head_q /\ head_valid' = head_valid
    BY <1>2 DEF Cdc!vars, Cdc!wrSide, Cdc!rdSide
  <2>2. /\ Stocked' = Stocked /\ Seen1' = Seen1 /\ Seen2' = Seen2
        /\ Lag1' = Lag1 /\ Lag2' = Lag2
    BY <2>1 DEF Stocked, Seen1, Seen2, Lag1, Lag2
  <2>3. Cdc!InMemory' = Cdc!InMemory  BY <2>1, <2>2, MemoryIsWindow
  <2>4. Cdc!OutStage' = Cdc!OutStage  BY <2>1 DEF Cdc!OutStage
  <2>5. Cdc!Contents' = Cdc!Contents  BY <2>3, <2>4 DEF Cdc!Contents
  <2>6. Cdc!Crossing!vars' = Cdc!Crossing!vars
    <3>1. /\ Cdc!Dist(cdc_rd_ptr, Bin(wr_sync1))' = Cdc!Dist(cdc_rd_ptr, Bin(wr_sync1))
          /\ Cdc!Dist(cdc_rd_ptr, Bin(wr_sync2))' = Cdc!Dist(cdc_rd_ptr, Bin(wr_sync2))
          /\ Cdc!Dist(Bin(rd_sync1), cdc_rd_ptr)' = Cdc!Dist(Bin(rd_sync1), cdc_rd_ptr)
          /\ Cdc!Dist(Bin(rd_sync2), cdc_rd_ptr)' = Cdc!Dist(Bin(rd_sync2), cdc_rd_ptr)
      BY <2>1
    <3> QED  BY <2>3, <2>4, <3>1 DEF Cdc!Crossing!vars
  <2> QED  BY <2>5, <2>6
<1> QED  BY <1>1, <1>2

\* Before the first edge both pictures show an empty FIFO nobody has seen move.
LEMMA FifoStartsEmpty ==
  ASSUME Cdc!Init, SidesInv
  PROVE  Cdc!Queue!Init /\ Cdc!Crossing!Init
<1>1. /\ cdc_wr_ptr = 0 /\ cdc_rd_ptr = 0 /\ head_valid = FALSE
      /\ rd_sync1 = Gray(0) /\ rd_sync2 = Gray(0) /\ wr_sync1 = Gray(0) /\ wr_sync2 = Gray(0)
  BY DEF Cdc!Init
<1>2. 0 \in Ptr /\ Dist(0, 0) = 0  BY FifoAssumption DEF Ptr, Dist
<1>3. Bin(Gray(0)) = 0  BY <1>2, CodeOf
<1>4. Stocked = 0  BY <1>1, <1>2 DEF Stocked
<1>5. Cdc!InMemory = << >>
  <2>1. cdc_mem \in [Cells -> Word \cup {Garbage}]  BY DEF SidesInv, SidesTypes
  <2>2. cdc_rd_ptr \in Fifo!Ptr  BY <1>1, <1>2, SameRing
  <2>3. 0 \in 0 .. Depth  BY FifoAssumption
  <2>4. Window(cdc_mem, cdc_rd_ptr, 0) = << >>  BY <2>1, <2>2, <2>3, WindowEmpty
  <2> QED  BY <2>4, <1>4, MemoryIsWindow
<1>6. Cdc!OutStage = << >>  BY <1>1 DEF Cdc!OutStage
<1>7. Cdc!Contents = << >>  BY <1>5, <1>6 DEF Cdc!Contents
<1>8. Cdc!Dist(0, 0) = 0  BY <1>2, SameRing
<1> QED  BY <1>1, <1>3, <1>5, <1>6, <1>7, <1>8 DEF Cdc!Queue!Init, Cdc!Crossing!Init

\* Whatever its depth, RAM style and words, and for every coding in which consecutive
\* pointers differ in one bit, the FIFO is one bounded queue, and each side sees it with
\* the lag of its two flip-flops and never ahead of the truth (async_fifo.v 47-174).
THEOREM CrossingImplementsFifo == CrossingSpec => ImplementsFifo
<1>1. Cdc!Init /\ SidesInv => Cdc!Queue!Init /\ Cdc!Crossing!Init  BY FifoStartsEmpty
<1>2. SidesInv /\ [Cdc!Next]_(Cdc!vars) => /\ [Cdc!Queue!Next]_(Cdc!Contents)
                                           /\ [Cdc!Crossing!Next]_(Cdc!Crossing!vars)
  BY StepsOfTheFifo
<1> QED  BY <1>1, <1>2, SidesInductive, PTL
         DEF CrossingSpec, Cdc!Spec, ImplementsFifo, Cdc!ImplementsFifo, Cdc!ImplementsQueue,
             Cdc!ImplementsCrossing, Cdc!Queue!Spec, Cdc!Crossing!Spec

\* Full, empty, the fill count and the word offered are at every moment those of the queue
\* with lagging views: what the crossings of the MAC are modelled with is what the Gray-coded
\* pointers of this FIFO show (async_fifo.v 88-104, 137-174).
THEOREM CrossingShowsQueue == CrossingSpec => []CrossingAgrees
<1>1. SidesInv => CrossingAgrees  BY FlagsOfCrossing
<1> QED  BY <1>1, SidesInductive, PTL DEF CrossingSpec
=============================================================================
