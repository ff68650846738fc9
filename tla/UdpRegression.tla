---------------------------- MODULE UdpRegression -----------------------------
(***************************************************************************)
(* run_hw_regression.py with the profile script it starts, the counters'   *)
(* query of udp_iperf_stats.py that both use, and the board's side:        *)
(* udp_iperf_sink.v, which counts, and udp_stats_reply.v, which answers    *)
(* "G" with the counters and "C" with the counters before clearing them.   *)
(*                                                                         *)
(* The network keeps the order of each direction and may lose or delay any *)
(* datagram.  A query has a socket of its own, with a port of its own, and *)
(* a timeout; nothing is asked twice.  The profile is the host to FPGA     *)
(* half of udp_bidirectional_test.py: clear, send, get, judge the loss.    *)
(***************************************************************************)
EXTENDS Integers, Sequences

CONSTANTS MaxPorts,   \* bound on the queries made
          MaxPackets, \* bound on the packets of one profile
          MaxLoss     \* packets --max-loss-pct allows to be lost

VARIABLES net,        \* host to board: [k, port]
          rep,        \* board to host: [port, packets]
          packets,    \* the sink's counter
          pc,
          probe,      \* the queries are probes (no --skip-probe)
          todo,       \* profiles still to run
          port,       \* port of the open socket, 0 when it is closed
          ports,      \* ports used so far
          sent,       \* packets of this profile
          stats,      \* what the last query returned
          got,        \* ghost: packets of this profile the sink received
          code        \* return code of the profile that ran last

board == <<packets, got>>
vars  == <<net, rep, board, pc, probe, todo, port, ports, sent, stats, code>>

Init == /\ net = <<>> /\ rep = <<>> /\ packets = 0 /\ got = 0
        /\ pc = "main" /\ probe = FALSE /\ todo = 0 /\ port = 0 /\ ports = 0
        /\ sent = 0 /\ stats = 0 /\ code = 0

-----------------------------------------------------------------------------
(* The network and the board. *)

LoseRequest == /\ net # <<>> /\ net' = Tail(net)
               /\ UNCHANGED <<rep, board, pc, probe, todo, port, ports, sent, stats, code>>

LoseReply == /\ rep # <<>> /\ rep' = Tail(rep)
             /\ UNCHANGED <<net, board, pc, probe, todo, port, ports, sent, stats, code>>

(* udp_iperf_sink *)
SinkPacket == /\ net # <<>> /\ Head(net).k = "data"
              /\ net' = Tail(net)
              /\ packets' = packets + 1 /\ got' = got + 1
              /\ UNCHANGED <<rep, pc, probe, todo, port, ports, sent, stats, code>>

(* "C" clears the counters once the reply holds their snapshot. *)
Cleared(k) == IF k = "C" THEN 0 ELSE packets

(* udp_stats_reply: a query that meets a reply still being sent is dropped. *)
StatsReply == /\ net # <<>> /\ Head(net).k \in {"G", "C"}
              /\ net' = Tail(net)
              /\ \/ /\ rep' = Append(rep, [port |-> Head(net).port, packets |-> packets])
                    /\ packets' = Cleared(Head(net).k)
                 \/ rep # <<>> /\ UNCHANGED <<rep, packets>>
              /\ UNCHANGED <<got, pc, probe, todo, port, ports, sent, stats, code>>

-----------------------------------------------------------------------------
(* The host. *)

(* main: profiles, --skip-probe; --dry-run runs nothing. *)
Main(n, skip) == /\ pc = "main" /\ ports < MaxPorts
                 /\ todo' = n /\ probe' = ~skip
                 /\ pc' = IF skip THEN "clear" ELSE "probe"
                 /\ UNCHANGED <<net, rep, board, port, ports, sent, stats, code>>

DryRun == /\ pc = "main" /\ pc' = "dry"
          /\ UNCHANGED <<net, rep, board, probe, todo, port, ports, sent, stats, code>>

(* query: a socket, the command, ... *)
Query(at, k, wait) == /\ pc = at /\ ports < MaxPorts
                      /\ ports' = ports + 1 /\ port' = ports + 1
                      /\ net' = Append(net, [k |-> k, port |-> ports + 1])
                      /\ pc' = wait
                      /\ UNCHANGED <<rep, board, probe, todo, sent, stats, code>>

(* Mutant: the socket of an earlier query is used again. *)
AnyPort(r) == TRUE

(* A datagram for a socket that is closed is not received. *)
Mine(r) == r.port = port

Discard == /\ rep # <<>> /\ ~Mine(Head(rep))
           /\ rep' = Tail(rep)
           /\ UNCHANGED <<net, board, pc, probe, todo, port, ports, sent, stats, code>>

(* ... and the reply within the timeout, ... *)
Answer(at, next) == /\ pc = at /\ rep # <<>> /\ Mine(Head(rep))
                    /\ rep' = Tail(rep)
                    /\ stats' = Head(rep).packets
                    /\ port' = 0
                    /\ pc' = next
                    /\ IF at = "clear_wait" THEN got' = 0 /\ sent' = 0
                                           ELSE UNCHANGED <<got, sent>>
                    /\ UNCHANGED <<net, packets, probe, todo, ports, code>>

(* ... or an exception: the probe's ends main, the others the profile. *)
QueryTimeout(at) == /\ pc = at
                    /\ port' = 0
                    /\ IF at = "probe_wait" THEN pc' = "exit2" /\ UNCHANGED code
                                       ELSE code' = 1 /\ pc' = "profile_over"
                    /\ UNCHANGED <<net, rep, board, probe, todo, ports, sent, stats>>

(* host_to_fpga_sender *)
Send == /\ pc = "send" /\ sent < MaxPackets
        /\ sent' = sent + 1
        /\ net' = Append(net, [k |-> "data", port |-> 0])
        /\ UNCHANGED <<rep, board, pc, probe, todo, port, ports, stats, code>>

SendOver == /\ pc = "send" /\ pc' = "get"
            /\ UNCHANGED <<net, rep, board, probe, todo, port, ports, sent, stats, code>>

(* host_pass *)
HostPass == stats > 0 /\ sent - stats <= MaxLoss

(* The rate of this direction, and the other direction, may fail it too. *)
Judge == /\ pc = "judge"
         /\ \/ code' = IF HostPass THEN 0 ELSE 1
            \/ code' = 1
         /\ pc' = "profile_over"
         /\ UNCHANGED <<net, rep, board, probe, todo, port, ports, sent, stats>>

(* main's loop: the first return code that is not zero is its own. *)
ProfileOver == /\ pc = "profile_over"
               /\ todo' = todo - 1
               /\ pc' = IF code # 0 THEN "exit1" ELSE IF todo = 1 THEN "exit0" ELSE "clear"
               /\ UNCHANGED <<net, rep, board, probe, port, ports, sent, stats, code>>

(* The regression, or another one, is started again. *)
Again == /\ pc \in {"exit0", "exit1", "exit2"}
         /\ pc' = "main"
         /\ UNCHANGED <<net, rep, board, probe, todo, port, ports, sent, stats, code>>

Next == \/ LoseRequest \/ LoseReply \/ SinkPacket \/ StatsReply \/ Discard
        \/ \E n \in 1 .. 2, skip \in BOOLEAN : Main(n, skip)
        \/ DryRun
        \/ Query("probe", "G", "probe_wait")
        \/ Answer("probe_wait", "clear") \/ QueryTimeout("probe_wait")
        \/ Query("clear", "C", "clear_wait")
        \/ Answer("clear_wait", "send") \/ QueryTimeout("clear_wait")
        \/ Send \/ SendOver
        \/ Query("get", "G", "get_wait")
        \/ Answer("get_wait", "judge") \/ QueryTimeout("get_wait")
        \/ Judge \/ ProfileOver \/ Again

Spec == Init /\ [][Next]_vars

-----------------------------------------------------------------------------
(* The numbers a profile judges are its own.  What the last query returned  *)
(* is what the sink received of this profile, never the count of an earlier *)
(* one nor the late answer to a query that was given up; so the regression  *)
(* says 0 only if no more than the allowed packets of its last profile were *)
(* lost (run_hw_regression.py 65-133, udp_iperf_stats.py 22-46).            *)
CountsOwnPackets ==
  /\ pc = "judge" => stats = got
  /\ pc = "exit0" => code = 0 /\ got > 0 /\ sent - got <= MaxLoss
=============================================================================
