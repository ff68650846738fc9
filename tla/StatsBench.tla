------------------------------ MODULE StatsBench ------------------------------
(***************************************************************************)
(* linux_bench.py and the counters it judges by: the MAC's saturating      *)
(* statistics (eth_stats.v), the driver's 64-bit totals with the work item *)
(* that folds the hardware counters into them (emaczero.c 900-990), and    *)
(* the benchmark that takes a snapshot before and after each test and      *)
(* compares what the MAC and the interface counted.                        *)
(*                                                                         *)
(* Three counters stand for the table of 21: hw_tx_frames, a group of its  *)
(* own, and hw_rx_frames and hw_rx_errors, which one write clears.  The    *)
(* fold, the snapshot and the traffic interleave access by access.         *)
(***************************************************************************)
EXTENDS Integers, Sequences

CONSTANTS Sat,       \* all-ones of a counter (2^32 - 1)
          FOLD,      \* EMZ_STAT_FOLD (2^31)
          MaxFrames  \* bound on the frames of the benchmark

Stats    == 1 .. 3
TxFrames == 1
RxFrames == 2
RxErrors == 3
Groups   == <<{TxFrames}, {RxFrames, RxErrors}>>

VARIABLES reg,      \* the hardware counters
          acc,      \* priv->stats_acc
          lock,     \* holder of priv->stats_lock
          fpc,      \* where emz_stats_fold is
          fold,     \* its fold[]: the groups to fold
          fi,       \* its loop counter
          got,      \* what it read of each counter it is folding
          if_tx, if_rx,  \* the interface's packet counts
          in_tx, in_rx,  \* frames the MAC counted and the interface not yet
          pc,       \* where linux_bench.py is
          tries,    \* attempts of iperf3
          before, after, \* the snapshots: name -> value
          si,       \* counter the snapshot is at
          verdict, verdicts,
          frames,   \* frames so far
          lost,     \* ghost: counts the hardware took and no total will show
          dropped,  \* ghost: good frames the MAC counted and the driver dropped
          base      \* ghost: lost and dropped when the test began

driver == <<acc, lock, fpc, fold, fi, got>>
netdev == <<if_tx, if_rx, in_tx, in_rx>>
bench  == <<pc, tries, before, after, si, verdict, verdicts>>
vars   == <<reg, driver, netdev, bench, frames, lost, dropped, base>>

Zero  == [i \in Stats |-> 0]
Empty == <<>>
Missing == -1      \* a counter the snapshot does not have

Init == /\ reg = Zero /\ acc = Zero /\ lock = "free" /\ fpc = "idle" /\ fold = {}
        /\ fi = 1 /\ got = Zero
        /\ if_tx = 0 /\ if_rx = 0 /\ in_tx = 0 /\ in_rx = 0
        /\ pc = "next" /\ tries = 0 /\ before = Empty /\ after = Empty /\ si = 1
        /\ verdict = "none" /\ verdicts = {}
        /\ frames = 0 /\ lost = Zero /\ dropped = 0
        /\ base = [lost |-> Zero, dropped |-> 0]

-----------------------------------------------------------------------------
(* eth_stats.v: SAT_INC, and the clear that wins over an event. *)
SAT_INC(v) == IF v = Sat THEN v ELSE v + 1

Count(S) == /\ reg' = [i \in Stats |-> IF i \in S THEN SAT_INC(reg[i]) ELSE reg[i]]
            /\ lost' = [i \in Stats |-> IF i \in S /\ reg[i] = Sat THEN lost[i] + 1
                                                                   ELSE lost[i]]

Traffic == /\ pc = "traffic" /\ frames < MaxFrames
           /\ frames' = frames + 1
           /\ UNCHANGED <<driver, bench, if_tx, if_rx, dropped, base>>

TxFrame == Traffic /\ Count({TxFrames}) /\ in_tx' = in_tx + 1 /\ UNCHANGED in_rx
RxGood  == Traffic /\ Count({RxFrames}) /\ in_rx' = in_rx + 1 /\ UNCHANGED in_tx
RxBad   == Traffic /\ Count({RxFrames, RxErrors}) /\ UNCHANGED <<in_tx, in_rx>>

(* The driver completes a transmitted frame, delivers a received one, or    *)
(* drops it for want of memory.                                             *)
Complete == /\ in_tx > 0 /\ in_tx' = in_tx - 1 /\ if_tx' = if_tx + 1
            /\ UNCHANGED <<reg, driver, bench, if_rx, in_rx, frames, lost, dropped, base>>

Deliver == /\ in_rx > 0 /\ in_rx' = in_rx - 1
           /\ \/ if_rx' = if_rx + 1 /\ UNCHANGED dropped
              \/ dropped' = dropped + 1 /\ UNCHANGED if_rx
           /\ UNCHANGED <<reg, driver, bench, if_tx, in_tx, frames, lost, base>>

-----------------------------------------------------------------------------
(* emz_stats_work: take the lock, find the groups that are due, ... *)
FoldStart == /\ fpc = "idle" /\ lock = "free"
             /\ lock' = "fold" /\ fpc' = "scan" /\ fi' = 1 /\ fold' = {}
             /\ UNCHANGED <<reg, acc, got, netdev, bench, frames, lost, dropped, base>>

FoldScan == /\ fpc = "scan"
            /\ fold' = fold \cup {g \in 1 .. 2 : fi \in Groups[g] /\ reg[fi] >= FOLD}
            /\ IF fi < 3 THEN fi' = fi + 1 /\ UNCHANGED fpc
                         ELSE fi' = 3 /\ fpc' = "fold"
            /\ UNCHANGED <<reg, acc, lock, got, netdev, bench, frames, lost, dropped, base>>

TheGroup == CHOOSE g \in fold : \A h \in fold : g <= h

(* ... read each of a group backwards into the totals ... *)
FoldRead == /\ fpc = "fold" /\ fold # {} /\ fi > 0
            /\ fi' = fi - 1
            /\ IF fi \in Groups[TheGroup]
               THEN /\ acc' = [acc EXCEPT ![fi] = @ + reg[fi]]
                    /\ got' = [got EXCEPT ![fi] = reg[fi]]
               ELSE UNCHANGED <<acc, got>>
            /\ UNCHANGED <<reg, lock, fpc, fold, netdev, bench, frames, lost, dropped, base>>

(* ... and clear the group, with all it has counted since it was read. *)
FoldClear == /\ fpc = "fold" /\ fold # {} /\ fi = 0
             /\ LET G == Groups[TheGroup] IN
                /\ reg' = [i \in Stats |-> IF i \in G THEN 0 ELSE reg[i]]
                /\ lost' = [i \in Stats |-> IF i \in G THEN lost[i] + reg[i] - got[i]
                                                       ELSE lost[i]]
                /\ got' = [i \in Stats |-> IF i \in G THEN 0 ELSE got[i]]
             /\ fold' = fold \ {TheGroup}
             /\ fi' = 3
             /\ UNCHANGED <<acc, lock, fpc, netdev, bench, frames, dropped, base>>

FoldEnd == /\ fpc = "fold" /\ fold = {}
           /\ lock' = "free" /\ fpc' = "idle" /\ fi' = 1
           /\ UNCHANGED <<reg, acc, fold, got, netdev, bench, frames, lost, dropped, base>>

-----------------------------------------------------------------------------
(* snapshot: ethtool -S reads the totals under the lock, then the interface *)
(* counts follow.  A kernel message on the serial console may garble a line *)
(* of the answer; one missing counter makes the snapshot useless.           *)

(* Mutant: the totals are read without the lock. *)
SnapUnlocked(at, next) ==
  /\ pc = at /\ pc' = next /\ si' = 1
  /\ UNCHANGED <<reg, driver, netdev, tries, before, after, verdict, verdicts, frames, lost,
                 dropped, base>>

SnapStart(at, next) ==
  /\ pc = at
  /\ lock = "free" /\ lock' = "snap"
  /\ pc' = next /\ si' = 1
  /\ UNCHANGED <<reg, acc, fpc, fold, fi, got, netdev, tries, before, after, verdict,
                 verdicts, frames, lost, dropped, base>>

(* emz_stat_total *)
Total(i) == acc[i] + reg[i]

SnapTotal(at, snap) ==
  /\ pc = at /\ si <= 3
  /\ \/ snap' = Append(snap, Total(si)) /\ si' = si + 1
     \/ snap' = <<Missing, Missing, Missing>> /\ si' = 4
  /\ UNCHANGED <<reg, driver, netdev, pc, tries, verdict, verdicts, frames, lost, dropped, base>>

SnapIf(at, snap, next) ==
  /\ pc = at /\ si = 4
  /\ snap' = snap \o <<if_tx, if_rx>>
  /\ lock' = IF lock = "snap" THEN "free" ELSE lock
  /\ pc' = next /\ si' = 1
  /\ UNCHANGED <<reg, acc, fpc, fold, fi, got, netdev, tries, verdict, verdicts, frames, lost,
                 dropped, base>>

(* BoardError: no answer, or no end of it.  The ethtool of the board ends   *)
(* by itself.                                                               *)
BoardFails == /\ pc \in {"snap1", "snap2"}
              /\ lock' = IF lock = "snap" THEN "free" ELSE lock
              /\ pc' = "raised" /\ before' = Empty /\ after' = Empty /\ si' = 1
              /\ UNCHANGED <<reg, acc, fpc, fold, fi, got, netdev, tries, verdict, verdicts,
                             frames, lost, dropped, base>>

(* iperf3: a busy server is tried again, twice; any other error ends the   *)
(* benchmark.                                                              *)
Iperf3 == /\ pc = "iperf"
          /\ \/ pc' = "traffic" /\ UNCHANGED <<tries, before>>
             \/ tries < 2 /\ tries' = tries + 1 /\ UNCHANGED <<pc, before>>
             \/ pc' = "raised" /\ before' = Empty /\ UNCHANGED tries
          /\ UNCHANGED <<reg, driver, netdev, after, si, verdict, verdicts, frames, lost,
                         dropped, base>>

(* The --settle seconds: what was in flight has been counted. *)
Settled == in_tx = 0 /\ in_rx = 0

Settle == /\ pc = "traffic" /\ Settled
          /\ pc' = "settled"
          /\ UNCHANGED <<reg, driver, netdev, tries, before, after, si, verdict, verdicts,
                         frames, lost, dropped, base>>

(* accounting *)
Verdict(b, a) ==
  IF \E k \in 1 .. 3 : Missing \in {b[k], a[k]} THEN "invalid"
  ELSE LET delta == [k \in 1 .. 5 |-> a[k] - b[k]]
       IN IF \E k \in 1 .. 5 : delta[k] < 0 THEN "invalid"
          ELSE IF /\ delta[TxFrames] = delta[4]
                  /\ delta[RxFrames] - delta[RxErrors] = delta[5]
               THEN "agree" ELSE "differ"

Accounting == /\ pc = "accounting"
              /\ verdict' = Verdict(before, after)
              /\ verdicts' = verdicts \cup {verdict'}
              /\ pc' = "judged"
              /\ UNCHANGED <<reg, driver, netdev, tries, before, after, si, frames, lost,
                             dropped, base>>

(* main: the next test, or the report. *)
NextTest == /\ pc = "judged" /\ frames < MaxFrames
            /\ pc' = "next"
            /\ before' = Empty /\ after' = Empty /\ tries' = 0 /\ verdict' = "none"
            /\ base' = [lost |-> lost, dropped |-> dropped]
            /\ UNCHANGED <<reg, driver, netdev, si, verdicts, frames, lost, dropped>>

Report == /\ pc = "judged"
          /\ pc' = IF verdicts = {"agree"} THEN "exit0" ELSE "exit1"
          /\ UNCHANGED <<reg, driver, netdev, tries, before, after, si, verdict, verdicts,
                         frames, lost, dropped, base>>

Next == \/ TxFrame \/ RxGood \/ RxBad \/ Complete \/ Deliver
        \/ FoldStart \/ FoldScan \/ FoldRead \/ FoldClear \/ FoldEnd
        \/ SnapStart("next", "snap1") \/ SnapStart("settled", "snap2")
        \/ SnapTotal("snap1", before) /\ UNCHANGED after
        \/ SnapTotal("snap2", after) /\ UNCHANGED before
        \/ SnapIf("snap1", before, "iperf") /\ UNCHANGED after
        \/ SnapIf("snap2", after, "accounting") /\ UNCHANGED before
        \/ BoardFails \/ Iperf3 \/ Settle \/ Accounting \/ NextTest \/ Report

Spec == Init /\ [][Next]_vars

-----------------------------------------------------------------------------
(* The report is right about the driver.  Counts that disagree have a cause *)
(* in the test: the driver dropped a frame, or the MAC counted one while    *)
(* the fold was between reading that counter and clearing it.  And counts   *)
(* that agree, in a test in which no count was lost, mean that every good   *)
(* frame reached the interface (linux_bench.py 215-248, emaczero.c 942-990) *)
VerdictExplained ==
  pc = "judged" =>
    LET nothing_lost == lost = base.lost
        all_there    == dropped = base.dropped
    IN /\ verdict = "differ" => ~nothing_lost \/ ~all_there
       /\ (verdict = "agree" /\ nothing_lost) => all_there
=============================================================================
