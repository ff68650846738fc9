----------------------------- MODULE SimModels ------------------------------
(***************************************************************************)
(* The three subjects of the simulation side by side: the two blocks whose *)
(* reference models live in sim/cocotb/lib, each against its reference,    *)
(* and the runner that turns the suites into one exit code.  They share no *)
(* state, so each behaviour is one of them.                                *)
(***************************************************************************)
EXTENDS Integers, Sequences, FiniteSets

CONSTANTS Depth, MAX_FRAME, MIN_FRAME, MaxBytes, MaxCtl, MaxToggles,   \* MiiTxSaf
          Packets, First, CSUM_MAX_FRAME,                              \* CsumCalc
          FileSets, NameLists, NoVhdl, VhdlOf, Modules, Proofs, MaxJobs  \* SuiteRunner

VARIABLES part,   \* the one that runs
          stream, mem, frame_bytes, dropping, frame_wr, hot, hot_eof, rd_seen, wp_sync,
          fw_sync, st, rd_ptr, frame_rd, src_ctl, cur, dcnt, crc, ctl, start_ok, toggles,
          wire, payloads, errors, ctls,
          place, sent, packet, frame, bytes, cut, idx, idle, e,
          pc, runner, files, named, hdls, workers, looked, suites, broken, todo, at, lang,
          jobs, skipped, started, owner, busy, codes, raised, results

Saf  == INSTANCE MiiTxSaf
Csum == INSTANCE CsumCalc WITH MAX_FRAME <- CSUM_MAX_FRAME
Run  == INSTANCE SuiteRunner

safVars  == <<stream, mem, frame_bytes, dropping, frame_wr, hot, hot_eof, rd_seen, wp_sync,
              fw_sync, st, rd_ptr, frame_rd, src_ctl, cur, dcnt, crc, ctl, start_ok, toggles,
              wire, payloads, errors, ctls>>
csumVars == <<place, sent, packet, frame, bytes, cut, idx, idle, e>>
runVars  == <<pc, runner, files, named, hdls, workers, looked, suites, broken, todo, at, lang,
              jobs, skipped, started, owner, busy, codes, raised, results>>

ASSUME SafAssumption == /\ Depth \in Nat \ {0}
                        /\ MAX_FRAME \in Nat /\ MIN_FRAME \in Nat

(* The packets are ones the builder makes, and among them are all the kinds *)
(* the randomized suites draw.                                              *)
ASSUME PacketsAssumption ==
  /\ \A p \in Packets \cup First : Csum!IsPacket(p)
  /\ Csum!CoversRandomPacket(Packets \cup First)
  /\ Csum!OptionKinds(Packets \cup First)

(* Files declare finitely many suites, and "vhdl_" before two names gives  *)
(* two names.                                                              *)
ASSUME RunAssumption ==
  /\ \A fs \in FileSets : /\ fs \in Seq([suites : SUBSET Nat, readable : BOOLEAN])
                          /\ \A f \in DOMAIN fs : IsFiniteSet(fs[f].suites)
  /\ \A names \in NameLists : names \in Seq(Nat)
  /\ Modules \in SUBSET Nat /\ IsFiniteSet(Modules)
  /\ Proofs \in Nat /\ MaxJobs \in Nat
  /\ VhdlOf \subseteq Nat \X Nat
  /\ \A p, q \in VhdlOf : p[1] = q[1] <=> p[2] = q[2]

allVars  == <<part, safVars, csumVars, runVars>>

Init == /\ part \in {"saf", "csum", "run"}
        /\ Saf!Init /\ Csum!Init /\ Run!Init

(* A step of the transmitter: of one of its processes, for the fairness. *)
SafStep(A) == part = "saf" /\ A /\ UNCHANGED <<part, csumVars, runVars>>

RunSaf  == SafStep(Saf!Next)
RunCsum == part = "csum" /\ Csum!Next /\ UNCHANGED <<part, safVars, runVars>>
RunRun  == part = "run" /\ Run!Next /\ UNCHANGED <<part, safVars, csumVars>>

Next == RunSaf \/ RunCsum \/ RunRun

(* Both clocks of the transmitter run, and the source goes on as long as it *)
(* is taken.                                                                *)
Spec == /\ Init /\ [][Next]_allVars
        /\ WF_allVars(SafStep(Saf!Source))
        /\ WF_allVars(SafStep(Saf!SyncRead)) /\ WF_allVars(SafStep(Saf!SyncWrite))
        /\ WF_allVars(SafStep(Saf!Start(TRUE))) /\ WF_allVars(SafStep(Saf!Start(FALSE)))
        /\ WF_allVars(SafStep(Saf!Framer))

-----------------------------------------------------------------------------
(* The frames on the wire are the ones lib/model.py predicts for the bytes  *)
(* sent so far (mii_tx_saf.v 113-161, 270-313; lib/model.py 22-68), and     *)
WireIsReference == Saf!WireIsReference

(* the transmitter never wedges: unless its gate stays closed it takes      *)
(* every byte and sends every frame it committed (mii_tx_saf.v 116).        *)
SafDrains == part = "saf" => Saf!SafDrains

(* The streaming checksum engine agrees with the reference that has the     *)
(* whole frame (csum_calc.v 164-392; lib/csum.py 260-304).                  *)
ChecksumAsReference == Csum!ChecksumAsReference

(* An exit code of zero means that everything that was asked for ran and    *)
(* passed (sim/cocotb/run.py 199-268, sim/parity/run_all.py 51-96).         *)
GreenMeansAllRan == Run!GreenMeansAllRan
=============================================================================
