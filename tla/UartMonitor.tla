----------------------------- MODULE UartMonitor ------------------------------
(***************************************************************************)
(* serial_monitor.py and the UART output of test_sequencer.v it judges.    *)
(* The board prints one line per step of its boot and may be reset at any  *)
(* point of it; the host keeps the last line of each name in a dictionary  *)
(* and, after DONE or its timeout, judges the dictionary and pings the     *)
(* board.                                                                  *)
(*                                                                         *)
(* A line is its name, whether its value is the expected one, and the boot *)
(* that printed it (which the host does not see).  Ids stands for the      *)
(* lines VER, SCR, PHY1, PHY2 and BMCR, which are judged alike.            *)
(***************************************************************************)
EXTENDS Integers, Sequences, SequencesExt, FiniteSets

CONSTANTS Ids,       \* names of the identification lines, in order
          MaxBoots,  \* bound on the boots of the board
          MaxLost,   \* bound on the lines damaged on the way
          Depth      \* bound on the lines the host has not read yet

VARIABLES boot, pos, link, tx_owner, rx,    \* the board
          uart,                             \* lines in the host's buffer
          pc, on_board, results, done, icmp_ok, all_pass,   \* the host
          neighbor,                         \* the neighbor table's entry for the board's IP
          lost,                             \* spent bound
          damaged,                          \* ghost: lines of this boot that were damaged
          last                              \* ghost: the boot that printed the DONE

board == <<boot, pos, link, tx_owner, rx>>
host  == <<pc, on_board, results, done, icmp_ok, all_pass>>
vars  == <<board, uart, host, neighbor, lost, damaged, last>>

Script == Ids \o <<"LINK", "TX", "RX", "DONE">>
Names  == ToSet(Script) \ {"DONE"}
None   == "none"
Missing == [val |-> None, boot |-> 0]

Init == /\ boot = 1 /\ pos = 1 /\ link = FALSE /\ tx_owner = "sequencer" /\ rx = FALSE
        /\ uart = <<>>
        /\ pc = "main" /\ on_board = FALSE /\ results = [n \in Names |-> Missing]
        /\ done = FALSE /\ icmp_ok = FALSE /\ all_pass = TRUE
        /\ neighbor = None /\ lost = 0 /\ damaged = {} /\ last = 0

-----------------------------------------------------------------------------
(* The board. *)

Line(n, v) == [name |-> n, val |-> v, boot |-> boot]

(* A line reaches the host if it has the port open; one may be damaged. *)
Sent(n, v) ==
  \/ /\ Len(uart) < Depth
     /\ uart' = IF pc = "read" /\ on_board THEN Append(uart, Line(n, v)) ELSE uart
     /\ UNCHANGED <<lost, damaged>>
  \/ /\ lost < MaxLost /\ lost' = lost + 1
     /\ damaged' = damaged \cup {n}
     /\ UNCHANGED uart

PrintId == /\ pos <= Len(Ids)
           /\ \E v \in {"ok", "bad"} : Sent(Script[pos], v)
           /\ pos' = pos + 1
           /\ UNCHANGED <<boot, link, tx_owner, rx, host, neighbor, last>>

(* The link is polled for three seconds; without one TX and RX are skipped. *)
PrintLink == /\ pos <= Len(Script) /\ Script[pos] = "LINK"
             /\ \E up \in BOOLEAN :
                  /\ link' = up
                  /\ Sent("LINK", IF up THEN "ok" ELSE "bad")
                  /\ pos' = IF up THEN pos + 1 ELSE Len(Script)
             /\ UNCHANGED <<boot, tx_owner, rx, host, neighbor, last>>

(* The gratuitous ARP has gone out or not; TX is handed to the responders. *)
PrintTx == /\ pos <= Len(Script) /\ Script[pos] = "TX"
           /\ \E v \in {"ok", "bad"} : Sent("TX", v)
           /\ tx_owner' = "responders"
           /\ pos' = pos + 1
           /\ UNCHANGED <<boot, link, rx, host, neighbor, last>>

(* A frame arrives: one of ping_board's, or anyone else's. *)
FrameArrives == /\ link /\ ~rx /\ rx' = TRUE
                /\ pos < Len(Script)
                /\ UNCHANGED <<boot, pos, link, tx_owner, uart, host, neighbor, lost, damaged,
                               last>>

(* The counter as soon as it moves, or TO after two seconds. *)
PrintRx == /\ pos <= Len(Script) /\ Script[pos] = "RX"
           /\ Sent("RX", IF rx THEN "ok" ELSE "bad")
           /\ pos' = pos + 1
           /\ UNCHANGED <<boot, link, tx_owner, rx, host, neighbor, last>>

PrintDone == /\ pos <= Len(Script) /\ Script[pos] = "DONE"
             /\ Sent("DONE", "ok")
             /\ pos' = pos + 1
             /\ UNCHANGED <<boot, link, tx_owner, rx, host, neighbor, last>>

Reset == /\ boot < MaxBoots
         /\ boot' = boot + 1
         /\ pos' = 1 /\ link' = FALSE /\ tx_owner' = "sequencer" /\ rx' = FALSE
         /\ damaged' = {}
         /\ UNCHANGED <<uart, host, neighbor, lost, last>>

-----------------------------------------------------------------------------
(* The host. *)

(* find_arty_port: the board's channel B, else an FTDI port, else any. *)
FindPort(ports) ==
  LET First(K) == LET F == {i \in DOMAIN ports : ports[i] \in K}
                  IN IF F = {} THEN None ELSE ports[CHOOSE i \in F : \A j \in F : i <= j]
      best == First({"arty"})
      good == First({"arty", "ftdi"})
  IN IF best # None THEN best ELSE IF good # None THEN good ELSE First({"arty", "ftdi", "other"})

Main(ports) == /\ pc = "main"
               /\ IF FindPort(ports) = None THEN pc' = "exit1" ELSE pc' = "read"
               /\ on_board' = (FindPort(ports) = "arty")
               /\ UNCHANGED <<results, done, icmp_ok, all_pass, board, uart, neighbor, lost,
                              damaged, last>>

(* The port cannot be opened. *)
CannotOpen == /\ pc = "main" /\ pc' = "exit1"
              /\ UNCHANGED <<on_board, results, done, icmp_ok, all_pass, board, uart, neighbor,
                             lost, damaged, last>>

(* One readline of the loop. *)
ReadLine == /\ pc = "read" /\ uart # <<>>
            /\ uart' = Tail(uart)
            /\ LET l == Head(uart) IN
               IF l.name = "DONE"
               THEN /\ done' = TRUE /\ pc' = "judge" /\ last' = l.boot
                    /\ UNCHANGED results
               ELSE /\ results' = [results EXCEPT ![l.name] = [val |-> l.val, boot |-> l.boot]]
                    /\ UNCHANGED <<done, pc, last>>
            /\ UNCHANGED <<on_board, icmp_ok, all_pass, board, neighbor, lost, damaged>>

(* The timeout, or the port went away. *)
Timeout == /\ pc = "read" /\ pc' = "judge"
           /\ UNCHANGED <<on_board, results, done, icmp_ok, all_pass, board, uart, neighbor,
                          lost, damaged, last>>

(* Mutant: TX and RX are judged whatever the link line says. *)
Phase1NoLink == \A n \in Names \ {"LINK"} : results[n].val = "ok"

(* Phase 1: the identification lines and LINK, and with a link TX and RX. *)
Phase1 == /\ \A n \in ToSet(Ids) \cup {"LINK"} : results[n].val = "ok"
          /\ \A n \in {"TX", "RX"} : results[n].val = "ok"

Judge == /\ pc = "judge"
         /\ all_pass' = Phase1
         /\ pc' = IF results["LINK"].val = "ok" THEN "ping" ELSE "report"
         /\ UNCHANGED <<on_board, results, done, icmp_ok, board, uart, neighbor, lost, damaged,
                        last>>

(* Who answers for the board's address: the responders, once they own TX,  *)
(* or another machine that was given the same one.                         *)
Answers == {who \in {"board", "other"} :
              who = "board" => link /\ tx_owner = "responders"}

(* run_ping_test: the replies of 20 pings, counted as at least 18, fewer,  *)
(* or none (also when ping itself fails); the first of them fills the      *)
(* neighbor table.                                                         *)
Ping == /\ pc = "ping"
        /\ \/ \E who \in Answers :
                \/ icmp_ok' = TRUE /\ neighbor' = who
                \/ icmp_ok' = FALSE /\ neighbor' = who
           \/ icmp_ok' = FALSE /\ UNCHANGED neighbor
        /\ all_pass' = (all_pass /\ icmp_ok')
        /\ pc' = "arp"
        /\ UNCHANGED <<on_board, results, done, board, uart, lost, damaged, last>>

(* check_arp_table: no entry is no failure once a ping was answered. *)
ArpOk(mac) == mac = "board" \/ (mac = None /\ icmp_ok)

Arp == /\ pc = "arp"
       /\ \E mac \in {neighbor, None} :
            /\ all_pass' = (all_pass /\ ArpOk(mac))
            /\ neighbor' = mac          \* the cache may have dropped the entry
       /\ pc' = "sustained"
       /\ UNCHANGED <<on_board, results, done, icmp_ok, board, uart, lost, damaged, last>>

(* The optional sustained ping. *)
Sustained == /\ pc = "sustained"
             /\ \/ UNCHANGED all_pass
                \/ all_pass' = FALSE
             /\ pc' = "report"
             /\ UNCHANGED <<on_board, results, done, icmp_ok, board, uart, neighbor, lost,
                            damaged, last>>

Report == /\ pc = "report"
          /\ pc' = IF all_pass THEN "exit0" ELSE "exit1"
          /\ UNCHANGED <<on_board, results, done, icmp_ok, all_pass, board, uart, neighbor,
                         lost, damaged, last>>

Ports == {<<>>, <<"other">>, <<"ftdi", "arty">>, <<"other", "ftdi">>}

Next == \/ PrintId \/ PrintLink \/ PrintTx \/ FrameArrives \/ PrintRx \/ PrintDone \/ Reset
        \/ \E ports \in Ports : Main(ports)
        \/ CannotOpen \/ ReadLine \/ Timeout \/ Judge \/ Ping \/ Arp \/ Sustained \/ Report

Spec == Init /\ [][Next]_vars

-----------------------------------------------------------------------------
(* "ALL TESTS PASSED" is about one boot of this board.  When the DONE was   *)
(* read, every result the verdict used was printed by the boot that printed *)
(* it, although the dictionary also holds the lines of boots that a reset   *)
(* cut short: a line can be an older one only where that boot's own line,   *)
(* or its LINK line, was damaged on the way.  And nobody but the board      *)
(* answered for its address, as far as the neighbor table knows             *)
(* (serial_monitor.py 158-367).                                             *)
PassIsOneBoot ==
  pc = "exit0" =>
    /\ on_board
    /\ neighbor # "other"
    /\ (done /\ last = boot) =>
         \A n \in Names : results[n].boot = last \/ {n, "LINK"} \cap damaged # {}
=============================================================================
