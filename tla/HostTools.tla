----------------------------- MODULE HostTools ------------------------------
(***************************************************************************)
(* The host scripts side by side, each with the board it drives.  They are *)
(* run one at a time and share no state, so each behaviour is one script   *)
(* with its board; the variables of the others keep their initial values.  *)
(***************************************************************************)
EXTENDS Integers, Sequences

CONSTANTS Base, MaxEvents, MaxFaults, ReadTries, SessionTries,   \* SfpCounters
          Full, Frame, Margin, Quanta, Speeds, Stalls, Attempts, LastTap,   \* PauseSelftest
          Sat, FOLD, MaxFrames,   \* StatsBench
          MaxSeq, MaxHurts, LbFaults, Retries, LbSpeeds,   \* LbSelftest
          Ids, MaxBoots, MaxLost, Depth,   \* UartMonitor
          ThrSat, ThrPackets, MaxDumps, MaxGarbled, Recent,   \* UdpThroughput
          MaxPorts, MaxPackets, MaxLoss   \* UdpRegression

ASSUME SfpAssumption == /\ Base \in Nat \ {0, 1}
                        /\ MaxEvents \in Nat
                        /\ MaxFaults \in Nat
                        /\ ReadTries \in Nat \ {0}
                        /\ SessionTries \in Nat \ {0}

ASSUME PauseAssumption == /\ Full \in Nat /\ Frame \in Nat \ {0} /\ Margin \in Nat
                          /\ Full >= 8
                          /\ Quanta \subseteq Nat
                          /\ Speeds \subseteq Seq([hold : Nat, write : Nat]) \ {<<>>}
                          /\ Stalls \subseteq Nat /\ 0 \in Stalls
                          /\ Attempts \in Nat \ {0}
                          /\ LastTap \in Nat

ASSUME StatsAssumption == /\ FOLD \in Nat \ {0}
                          /\ Sat \in Nat /\ FOLD <= Sat
                          /\ MaxFrames \in Nat

ASSUME UartAssumption == /\ Ids \in Seq(STRING)
                         /\ \A i \in 1 .. Len(Ids) : Ids[i] \notin {"LINK", "TX", "RX", "DONE"}

ASSUME ThrAssumption == ThrSat \in Nat /\ Recent \in Nat

VARIABLES tool,   \* the script that runs
          sfp_pc, build, opts, sfp_attempt, reads, prev, raw, pcs, mac, cleared, idx,
          count, clear_on, stat, pause_on, events, sfp_faults, since, untaken, window,
          torn,
          pause_pc, mac_kind, quanta, pause_todo, step, passing, best, cur, tap, failed,
          counted, void, pause_attempt, now, on1, prev0, slack, pause_x, stall, longest,
          stats_reg, acc, lock, fpc, fold, stats_fi, stats_got, if_tx, if_rx, in_tx,
          in_rx, stats_pc, stats_tries, before, after, stats_si, verdict, verdicts,
          frames, stats_lost, dropped, stats_base,
          lb_pc, script, left, lb_tries, lb_s, ctrl, busy, tx_seq, loop, cnt, seen_any,
          exp_seq, hurts, lb_faults, first, back,
          boot, pos, link, tx_owner, rx, uart_uart, uart_pc, on_board, results, done,
          icmp_ok, all_pass, neighbor, uart_lost, damaged, last,
          thr_reg, thr_at, thr_rd, dumps, samples, thr_pc, thr_base, final, thr_sent,
          flying, garbled, misread, ovf, due, dumped,
          net, rep, packets, reg_pc, probe, reg_todo, port, ports, reg_sent, stats,
          reg_got, code

Sfp == INSTANCE SfpCounters WITH
          pc <- sfp_pc, attempt <- sfp_attempt,
          faults <- sfp_faults
Pause == INSTANCE PauseSelftest WITH
          pc <- pause_pc, todo <- pause_todo,
          attempt <- pause_attempt, x <- pause_x
Stats == INSTANCE StatsBench WITH
          reg <- stats_reg, fi <- stats_fi, got <- stats_got,
          pc <- stats_pc, tries <- stats_tries, si <- stats_si, lost <- stats_lost,
          base <- stats_base
Lb == INSTANCE LbSelftest WITH
          MaxFaults <- LbFaults, Speeds <- LbSpeeds, pc <- lb_pc,
          tries <- lb_tries, s <- lb_s, faults <- lb_faults
Uart == INSTANCE UartMonitor WITH
          uart <- uart_uart, pc <- uart_pc, lost <- uart_lost
Thr == INSTANCE UdpThroughput WITH
          Sat <- ThrSat, MaxPackets <- ThrPackets,
          reg <- thr_reg, at <- thr_at, rd <- thr_rd, pc <- thr_pc, base <- thr_base,
          sent <- thr_sent
Reg == INSTANCE UdpRegression WITH
          pc <- reg_pc, todo <- reg_todo, sent <- reg_sent,
          got <- reg_got

sfpVars == <<sfp_pc, build, opts, sfp_attempt, reads, prev, raw, pcs, mac, cleared, idx,
             count, clear_on, stat, pause_on, events, sfp_faults, since, untaken,
             window, torn>>
pauseVars == <<pause_pc, mac_kind, quanta, pause_todo, step, passing, best, cur, tap,
               failed, counted, void, pause_attempt, now, on1, prev0, slack, pause_x, stall, longest>>
statsVars == <<stats_reg, acc, lock, fpc, fold, stats_fi, stats_got, if_tx, if_rx, in_tx,
               in_rx, stats_pc, stats_tries, before, after, stats_si, verdict, verdicts,
               frames, stats_lost, dropped, stats_base>>
lbVars == <<lb_pc, script, left, lb_tries, lb_s, ctrl, busy, tx_seq, loop, cnt, seen_any,
            exp_seq, hurts, lb_faults, first, back>>
uartVars == <<boot, pos, link, tx_owner, rx, uart_uart, uart_pc, on_board, results, done,
              icmp_ok, all_pass, neighbor, uart_lost, damaged, last>>
thrVars == <<thr_reg, thr_at, thr_rd, dumps, samples, thr_pc, thr_base, final, thr_sent,
             flying, garbled, misread, ovf, due, dumped>>
regVars == <<net, rep, packets, reg_pc, probe, reg_todo, port, ports, reg_sent, stats,
             reg_got, code>>

Init == /\ tool \in {"sfp", "pause", "stats", "lb", "uart", "thr", "reg"}
        /\ Sfp!Init /\ Pause!Init /\ Stats!Init /\ Lb!Init /\ Uart!Init /\ Thr!Init /\ Reg!Init

RunSfp == /\ tool = "sfp" /\ Sfp!Next
          /\ UNCHANGED <<tool, pauseVars, statsVars, lbVars, uartVars, thrVars, regVars>>
RunPause == /\ tool = "pause" /\ Pause!Next
            /\ UNCHANGED <<tool, sfpVars, statsVars, lbVars, uartVars, thrVars, regVars>>
RunStats == /\ tool = "stats" /\ Stats!Next
            /\ UNCHANGED <<tool, sfpVars, pauseVars, lbVars, uartVars, thrVars, regVars>>
RunLb == /\ tool = "lb" /\ Lb!Next
         /\ UNCHANGED <<tool, sfpVars, pauseVars, statsVars, uartVars, thrVars, regVars>>
RunUart == /\ tool = "uart" /\ Uart!Next
           /\ UNCHANGED <<tool, sfpVars, pauseVars, statsVars, lbVars, thrVars, regVars>>
RunThr == /\ tool = "thr" /\ Thr!Next
          /\ UNCHANGED <<tool, sfpVars, pauseVars, statsVars, lbVars, uartVars, regVars>>
RunReg == /\ tool = "reg" /\ Reg!Next
          /\ UNCHANGED <<tool, sfpVars, pauseVars, statsVars, lbVars, uartVars, thrVars>>

Next == RunSfp \/ RunPause \/ RunStats \/ RunLb \/ RunUart \/ RunThr \/ RunReg

allVars == <<tool, sfpVars, pauseVars, statsVars, lbVars, uartVars, thrVars, regVars>>

Spec == Init /\ [][Next]_allVars

-----------------------------------------------------------------------------
(* What the scripts say is true, as their modules state it.                 *)

(* A read of the demo's counters is one the board really had                *)
(* (sfp_counters.py 91-100),                                                *)
ReadTrusted == Sfp!ReadTrusted

(* what a clear reports has been counted since (sfp_counters.py 103-155);   *)
ClearIsFresh == Sfp!ClearIsFresh

(* the PAUSE test blames the MAC and only the MAC                           *)
(* (rgmii_lb_selftest.py 239-329),                                          *)
PauseVerdict == Pause!PauseVerdict

(* and the tap sweep ends in the middle of the widest eye                   *)
(* (rgmii_lb_selftest.py 194-207, 332-338);                                 *)
TapIsCentred == Pause!TapIsCentred

(* counters that differ in the benchmark have a cause in its test           *)
(* (linux_bench.py 215-248);                                                *)
VerdictExplained == Stats!VerdictExplained

(* the loopback verdict is about the frames of its own run                  *)
(* (gmii_lb_selftest.py 83-112);                                            *)
LoopVerdict == Lb!LoopVerdict

(* a PASS of the monitor is about one boot of the board                     *)
(* (serial_monitor.py 159-284);                                             *)
PassIsOneBoot == Uart!PassIsOneBoot

(* the overflow verdict is about the overflows of its own test              *)
(* (udp_throughput.py 194-250);                                             *)
OverflowVerdict == Thr!OverflowVerdict

(* and a profile is judged by the packets of that profile                   *)
(* (udp_iperf_stats.py 22-46).                                              *)
CountsOwnPackets == Reg!CountsOwnPackets
=============================================================================
