---------------------------- MODULE UdpThroughput -----------------------------
(***************************************************************************)
(* udp_throughput.py: a sender thread blasts packets at the board while a  *)
(* monitor thread collects the counter lines that test_sequencer.v prints  *)
(* about once a second; main takes a baseline before and a last value      *)
(* after, and gives the verdict on the overflow counter.                   *)
(*                                                                         *)
(* Two lines stand for the four of a dump: RXF, the frames received, and   *)
(* OVF, the frames the full RX FIFO cost.  A line may be garbled: the      *)
(* monitor then drops it, or still matches it and takes a value, or a key, *)
(* that the board did not print.  The board is not reset during a test and *)
(* counts no frames but those of the test.                                 *)
(***************************************************************************)
EXTENDS Integers, Sequences, SequencesExt

CONSTANTS Sat,        \* all-ones of a counter, where it stops
          MaxPackets, \* bound on the packets sent
          MaxDumps,   \* bound on the dumps of the board
          MaxGarbled, \* bound on the lines garbled
          Recent      \* the lines of samples[-8:]

VARIABLES reg,        \* the board's counters
          at, rd,     \* where its dump is, and the value it is printing
          dumps,
          samples,    \* samples of the monitor thread: <<key, value>>
          pc, base, final,
          sent,       \* sender.sent_pkts
          flying,     \* packets sent that have not reached the board
          garbled,    \* spent bound
          misread,    \* ghost: a garbled line was taken for a sample
          ovf,        \* ghost: overflows of this test
          due,        \* ghost: those the board had counted when it read OVF
                      \* for the first time after the sender had ended
          dumped      \* since the sender ended, OVF was "read", and "printed"

board == <<reg, at, rd, dumps>>
tool  == <<pc, base, final, sent>>
line  == <<garbled, misread>>
ghost == <<ovf, due, dumped>>
vars  == <<board, samples, tool, flying, line, ghost>>

Keys    == <<"RXF", "OVF">>
Missing == -1
None    == [k \in {"RXF", "OVF"} |-> Missing]

Init == /\ reg = [k \in {"RXF", "OVF"} |-> 0] /\ at = 1 /\ rd = Missing /\ dumps = 0
        /\ samples = <<>>
        /\ pc = "main" /\ base = None /\ final = None /\ sent = 0
        /\ flying = 0 /\ garbled = 0 /\ misread = FALSE
        /\ ovf = 0 /\ due = 0 /\ dumped = "no"

-----------------------------------------------------------------------------
(* The board. *)
SatInc(v) == IF v = Sat THEN v ELSE v + 1

(* A packet reaches the board, at any time after it was sent: it is         *)
(* received, or costs an overflow; or it was lost on the way.               *)
Arrive == /\ flying > 0 /\ flying' = flying - 1
          /\ \/ reg' = [reg EXCEPT !["RXF"] = SatInc(@)] /\ UNCHANGED <<ovf, due>>
             \/ /\ reg' = [reg EXCEPT !["OVF"] = SatInc(@)] /\ ovf' = ovf + 1
                /\ due' = IF dumped = "no" THEN due + 1 ELSE due
             \/ UNCHANGED <<reg, ovf, due>>
          /\ UNCHANGED <<at, rd, dumps, samples, tool, line, dumped>>

(* A counter of the dump is read ... *)
DumpRead == /\ pc # "main" /\ rd = Missing /\ dumps < MaxDumps
            /\ rd' = reg[Keys[at]]
            /\ dumped' = IF pc = "settle" /\ Keys[at] = "OVF" /\ dumped = "no" THEN "read"
                                                                            ELSE dumped
            /\ UNCHANGED <<reg, at, dumps, samples, tool, flying, line, ovf, due>>

Step == /\ rd' = Missing
        /\ IF at = Len(Keys) THEN at' = 1 /\ dumps' = dumps + 1
                             ELSE at' = at + 1 /\ UNCHANGED dumps
        /\ dumped' = IF dumped = "read" THEN "printed" ELSE dumped
        /\ UNCHANGED <<reg, tool, flying, ovf, due>>

(* ... and then printed: the monitor thread appends what LINE_RE matches. *)
DumpPrint == /\ rd # Missing /\ pc \in {"warmup", "send", "settle"}
             /\ samples' = Append(samples, <<Keys[at], rd>>)
             /\ Step
             /\ UNCHANGED line

(* A damaged line is no match, or LINE_RE, which takes any one to eight hex *)
(* digits, matches what is left of it.                                      *)
DumpGarbled == /\ rd # Missing /\ pc \in {"warmup", "send", "settle"}
               /\ garbled < MaxGarbled /\ garbled' = garbled + 1
               /\ Step
               /\ \/ UNCHANGED <<samples, misread>>
                  \/ /\ \E k \in ToSet(Keys), v \in 0 .. Sat : samples' = Append(samples, <<k, v>>)
                     /\ misread' = TRUE

-----------------------------------------------------------------------------
(* The host. *)

(* main opens the port; the board has counted before, up to saturation. *)
Main(n) == /\ pc = "main" /\ pc' = "warmup"
           /\ reg' = [reg EXCEPT !["OVF"] = n]
           /\ UNCHANGED <<at, rd, dumps, samples, base, final, sent, flying, line, ghost>>

NoPort == /\ pc = "main" /\ pc' = "exit2"
          /\ UNCHANGED <<board, samples, base, final, sent, flying, line, ghost>>

(* The last value of each key in a list of samples. *)
Latest(list) ==
  [k \in {"RXF", "OVF"} |->
     LET I == {i \in DOMAIN list : list[i][1] = k}
     IN IF I = {} THEN Missing ELSE list[CHOOSE i \in I : \A j \in I : j <= i][2]]

(* base: the recent samples of the warmup. *)
LastEight(list) == Latest(IF Len(list) > Recent THEN SubSeq(list, Len(list) - Recent + 1, Len(list))
                                           ELSE list)

Baseline == /\ pc = "warmup" /\ pc' = "send"
            /\ base' = LastEight(samples)
            /\ UNCHANGED <<board, samples, final, sent, flying, line, ghost>>

(* Sender.run: sendto hands a packet to the host's socket buffer; one that  *)
(* fails is tried again.                                                    *)
Send == /\ pc = "send" /\ sent < MaxPackets
        /\ sent' = sent + 1 /\ flying' = flying + 1
        /\ UNCHANGED <<board, samples, pc, base, final, line, ghost>>

(* The sender's time is over; packets may still be on their way. *)
SendEnds == /\ pc = "send" /\ pc' = "settle"
            /\ UNCHANGED <<board, samples, base, final, sent, flying, line, ghost>>

(* Mutant: no wait for the board's next dump. *)
SettledAtOnce == TRUE

(* In the 1.5 s after the sender the board reads and prints OVF once more. *)
Settled == dumped = "printed"

(* stop_evt is set, and final is the last sample of each key. *)
Finish == /\ pc = "settle" /\ Settled
          /\ pc' = "judge"
          /\ final' = Latest(samples)
          /\ UNCHANGED <<board, samples, base, sent, flying, line, ghost>>

(* The verdict: base.get("OVF", 0). *)
Verdict == final["OVF"] # Missing
           /\ final["OVF"] # (IF base["OVF"] = Missing THEN 0 ELSE base["OVF"])

Judge == /\ pc = "judge"
         /\ pc' = IF Verdict THEN "exit1" ELSE "exit0"
         /\ UNCHANGED <<board, samples, base, final, sent, flying, line, ghost>>

Next == \/ Arrive \/ DumpRead \/ DumpPrint \/ DumpGarbled
        \/ \E n \in 0 .. Sat : Main(n)
        \/ NoPort \/ Baseline \/ Send \/ SendEnds \/ Finish \/ Judge

Spec == Init /\ [][Next]_vars

-----------------------------------------------------------------------------
(* The verdict is about this test.  With a baseline, and if no garbled line *)
(* was taken for a sample, "OVERFLOW detected" means that a packet of this  *)
(* test overflowed, whatever the counter held before and whatever lines     *)
(* were dropped.  And "no overflow", if no line was garbled at all and the  *)
(* counter had room, means that none of the packets did that the board had  *)
(* counted when it next read its counter after the sender had ended: also   *)
(* one that was still on its way when the sender ended, but not one that    *)
(* arrives after that (udp_throughput.py 87-95, 193-250).                   *)
OverflowVerdict ==
  /\ (pc = "exit1" /\ ~misread /\ base["OVF"] # Missing) => ovf > 0
  /\ (pc = "exit0" /\ garbled = 0 /\ base["OVF"] # Missing /\ base["OVF"] < Sat) => due = 0
=============================================================================
