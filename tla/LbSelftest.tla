------------------------------ MODULE LbSelftest ------------------------------
(***************************************************************************)
(* The loopback self-tests: gmii_lb_selftest.py and the traffic part of    *)
(* rgmii_lb_selftest.py, with the generator and the checker of             *)
(* gmii_lb_selftest.v they drive over JTAG.  The generator sends numbered  *)
(* frames while the run bit is up, the checker counts what comes back, and *)
(* the host clears, runs, stops, drains and judges the counters.           *)
(*                                                                         *)
(* A frame is its sequence number, which also fixes its length, and        *)
(* whether it is damaged.  The loop under test may drop, damage or repeat  *)
(* a frame.  A run of the script that dies leaves the board as it is, with *)
(* traffic running, and the next one starts from there.                    *)
(***************************************************************************)
EXTENDS Integers, Sequences

CONSTANTS MaxSeq,    \* bound on the frames generated
          MaxHurts,  \* bound on the frames the loop loses, damages or repeats
          MaxFaults, \* bound on the JTAG accesses that fail
          Retries,   \* retries=5 of fcapz
          Speeds     \* number of speeds rgmii_lb_selftest.py runs

VARIABLES pc, script, left, tries, s,            \* the host
          ctrl,                                  \* the EIO output bits
          busy, tx_seq,                          \* the generator
          loop,                                  \* frames on their way back
          cnt, seen_any, exp_seq,                \* the checker
          hurts, faults,                         \* spent bounds
          first,                                 \* ghost: first frame of the run
          back                                   \* ghost: frames that came back in the run

host  == <<pc, script, left, tries, s>>
board == <<ctrl, busy, tx_seq, loop, cnt, seen_any, exp_seq>>
vars  == <<host, board, hurts, faults, first, back>>

Zero == [tx_frames |-> 0, rx_ok |-> 0, rx_ok_big |-> 0, rx_bad |-> 0, seq_gap |-> 0,
         max_ok_len |-> 0]
Small   == 1
Big     == 2       \* more than 4083 bytes
Largest == 3       \* 9014 bytes

(* payload_len of the sequence number *)
Length(q) == (q % 3) + 1

Init == /\ pc = "main" /\ script = "gmii" /\ left = 1 /\ tries = 0 /\ s = Zero
        /\ ctrl = [run |-> FALSE, clear |-> FALSE] /\ busy = FALSE /\ tx_seq = 0
        /\ loop = <<>> /\ cnt = Zero /\ seen_any = FALSE /\ exp_seq = 0
        /\ hurts = 0 /\ faults = 0 /\ first = 0 /\ back = <<>>

-----------------------------------------------------------------------------
(* The board. *)

TxStart == /\ ~busy /\ ctrl.run /\ tx_seq < MaxSeq
           /\ busy' = TRUE
           /\ UNCHANGED <<host, ctrl, tx_seq, loop, cnt, seen_any, exp_seq, hurts, faults,
                          first, back>>

(* The current frame completes whatever the run bit does meanwhile. *)
TxEnd == /\ busy /\ busy' = FALSE
         /\ tx_seq' = tx_seq + 1
         /\ loop' = Append(loop, [seq |-> tx_seq, bad |-> FALSE])
         /\ cnt' = IF ctrl.clear THEN cnt ELSE [cnt EXCEPT !.tx_frames = @ + 1]
         /\ UNCHANGED <<host, ctrl, seen_any, exp_seq, hurts, faults, first, back>>

(* The loop hurts a frame. *)
Hurt(new) == /\ loop # <<>> /\ hurts < MaxHurts
             /\ ~Head(loop).bad
             /\ hurts' = hurts + 1
             /\ loop' = new \o Tail(loop)
             /\ UNCHANGED <<host, ctrl, busy, tx_seq, cnt, seen_any, exp_seq, faults, first,
                            back>>

Drop   == Hurt(<<>>)
Damage == Hurt(<<[Head(loop) EXCEPT !.bad = TRUE]>>)
Repeat == Hurt(<<Head(loop), Head(loop)>>)

Larger(a, b) == IF a > b THEN a ELSE b

(* The checker at the last byte of a frame. *)
Judged(f) ==
  LET gap == IF seen_any /\ f.seq # exp_seq THEN 1 ELSE 0
      len == Length(f.seq)
  IN IF f.bad THEN [cnt EXCEPT !.rx_bad = @ + 1, !.seq_gap = @ + gap]
     ELSE [cnt EXCEPT !.rx_ok = @ + 1, !.seq_gap = @ + gap,
                      !.rx_ok_big = @ + (IF len >= Big THEN 1 ELSE 0),
                      !.max_ok_len = Larger(@, len)]

RxFrame == /\ loop # <<>>
           /\ loop' = Tail(loop)
           /\ back' = Append(back, Head(loop))
           /\ IF ctrl.clear
              THEN UNCHANGED <<cnt, seen_any, exp_seq>>
              ELSE /\ cnt' = Judged(Head(loop))
                   /\ seen_any' = TRUE
                   /\ exp_seq' = Head(loop).seq + 1
           /\ UNCHANGED <<host, ctrl, busy, tx_seq, hurts, faults, first>>

-----------------------------------------------------------------------------
(* The host. *)

(* main: the marker and the ready bits, or nothing is written. *)
Main(which) == /\ pc = "main"
               /\ script' = which
               /\ left' = IF which = "gmii" THEN 1 ELSE Speeds
               /\ pc' = IF which = "gmii" THEN "clear" ELSE "speed"
               /\ UNCHANGED <<tries, s, board, hurts, faults, first, back>>

NotReady == /\ pc = "main" /\ pc' = "refused"
            /\ UNCHANGED <<script, left, tries, s, board, hurts, faults, first, back>>

(* fcapz tries a command again, whether or not the one that failed had      *)
(* reached the board; the library the RGMII script uses raises at once.     *)
Failed == /\ faults < MaxFaults /\ faults' = faults + 1
          /\ IF script = "gmii" /\ tries + 1 < Retries
             THEN tries' = tries + 1 /\ UNCHANGED pc
             ELSE tries' = 0 /\ pc' = "died"

Put(run, clear) ==
  /\ ctrl' = [run |-> run, clear |-> clear]
  /\ cnt' = IF clear THEN Zero ELSE cnt
  /\ seen_any' = (seen_any /\ ~clear)
  /\ UNCHANGED <<busy, tx_seq, loop, exp_seq>>

Write(at, run, clear, next) ==
  /\ pc = at
  /\ \/ Put(run, clear) /\ pc' = next /\ tries' = 0 /\ UNCHANGED faults
     \/ Failed /\ (Put(run, clear) \/ UNCHANGED board)
  /\ UNCHANGED <<script, left, s, hurts, first, back>>

(* set_speed stops the traffic first. *)
SetSpeed == Write("speed", FALSE, FALSE, "clear")

Clear == Write("clear", FALSE, TRUE, "cleared")

(* Mutant: a sleep that is too short for the loop to drain. *)
NotDrained == TRUE

(* The sleeps after clear and after stop outlast what is still on its way. *)
Drained == ~busy /\ loop = <<>>

(* Asleep until then; what is sent from here on belongs to the run. *)
Sleep == /\ pc = "cleared" /\ Drained
         /\ pc' = IF script = "gmii" THEN "run" ELSE "unclear"
         /\ first' = tx_seq /\ back' = <<>>
         /\ UNCHANGED <<script, left, tries, s, board, hurts, faults>>

Unclear == Write("unclear", FALSE, FALSE, "run")
Run     == Write("run", TRUE, FALSE, "traffic")

(* The traffic time is over, or a progress read fails. *)
Traffic == /\ pc = "traffic"
           /\ \/ pc' = "stop" /\ UNCHANGED <<tries, faults>>
              \/ Failed
           /\ UNCHANGED <<script, left, s, board, hurts, first, back>>

Stop == Write("stop", FALSE, FALSE, "stopped")

Drain == /\ pc = "stopped" /\ Drained
         /\ pc' = "final"
         /\ UNCHANGED <<script, left, tries, s, board, hurts, faults, first, back>>

Final == /\ pc = "final"
         /\ \/ s' = cnt /\ pc' = "judge" /\ tries' = 0 /\ UNCHANGED faults
            \/ Failed /\ UNCHANGED s
         /\ UNCHANGED <<script, left, board, hurts, first, back>>

(* Every frame came back exact; a frame with terror is also a bad one. *)
clean == /\ s.tx_frames > 0
         /\ s.rx_ok = s.tx_frames
         /\ s.rx_bad = 0 /\ s.seq_gap = 0

(* checks: the largest lengths were among them, too. *)
Checks == clean /\ s.rx_ok_big > 0 /\ s.max_ok_len = Largest

Judge == /\ pc = "judge"
         /\ pc' = IF Checks THEN "pass" ELSE "fail"
         /\ UNCHANGED <<script, left, tries, s, board, hurts, faults, first, back>>

(* The next speed, or a later run of the script. *)
NextSpeed == /\ pc \in {"pass", "fail"} /\ left > 1
             /\ left' = left - 1 /\ pc' = "speed"
             /\ UNCHANGED <<script, tries, s, board, hurts, faults, first, back>>

Rerun == /\ pc = "died" \/ (pc \in {"pass", "fail"} /\ left = 1)
         /\ tx_seq < MaxSeq
         /\ pc' = "main"
         /\ UNCHANGED <<script, left, tries, s, board, hurts, faults, first, back>>

Next == \/ TxStart \/ TxEnd \/ RxFrame \/ Drop \/ Damage \/ Repeat
        \/ \E which \in {"gmii", "rgmii"} : Main(which)
        \/ NotReady \/ SetSpeed \/ Clear \/ Sleep \/ Unclear \/ Run \/ Traffic \/ Stop
        \/ Drain \/ Final \/ Judge \/ NextSpeed \/ Rerun

Spec == Init /\ [][Next]_vars

-----------------------------------------------------------------------------
(* Every frame of the run came back once, unhurt and in order. *)
Whole == back = [i \in 1 .. tx_seq - first |-> [seq |-> first + i - 1, bad |-> FALSE]]

(* PASS and FAIL are about this run alone.  The script says PASS only if    *)
(* the loop brought back every frame of the run once, whole and in order,   *)
(* although a lost last frame leaves no gap and an earlier run that died    *)
(* left its frames on the way; and FAIL only if the loop hurt one of them   *)
(* or no frame of the largest length was sent (gmii_lb_selftest.py 83-112). *)
LoopVerdict ==
  /\ pc = "pass" => Whole
  /\ pc = "fail" => ~Whole \/ \A q \in first .. tx_seq - 1 : Length(q) # Largest
=============================================================================
