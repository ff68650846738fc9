-------------------------- MODULE HostToolsProofs ---------------------------
(***************************************************************************)
(* Proofs about the host scripts with their boards, for every bound on     *)
(* their events, faults, retries and numbers that the assumptions of       *)
(* HostTools allow.                                                        *)
(***************************************************************************)
EXTENDS HostTools, SequenceTheorems, TLAPS

-----------------------------------------------------------------------------
(* Queues.  What a step does to a queue of datagrams, lines or samples.     *)

\* Taking the first element.
LEMMA TailOf ==
  ASSUME NEW S, NEW s \in Seq(S), s # <<>>
  PROVE  /\ Len(s) \in Nat \ {0} /\ Head(s) = s[1] /\ s[1] \in S
         /\ Tail(s) \in Seq(S) /\ Len(Tail(s)) = Len(s) - 1
         /\ \A i \in 1 .. Len(Tail(s)) : i + 1 \in 1 .. Len(s) /\ Tail(s)[i] = s[i + 1]
  OBVIOUS

\* Adding a last element.
LEMMA AppendOf ==
  ASSUME NEW S, NEW s \in Seq(S), NEW e \in S
  PROVE  /\ Append(s, e) \in Seq(S) /\ Len(Append(s, e)) = Len(s) + 1 /\ Len(s) \in Nat
         /\ Append(s, e)[Len(s) + 1] = e
         /\ \A i \in 1 .. Len(s) : Append(s, e)[i] = s[i]
  OBVIOUS

-----------------------------------------------------------------------------
(* The counters' query of the hardware regression.                          *)

Datagrams == [k : {"data", "G", "C"}, port : Nat]
Answers   == [port : Nat, packets : Nat]

\* What is on the network and in the script's variables.
RegTypes ==
  /\ net \in Seq(Datagrams) /\ rep \in Seq(Answers)
  /\ packets \in Nat /\ reg_got \in Nat /\ reg_sent \in Nat /\ stats \in Nat
  /\ port \in Nat /\ ports \in Nat

\* No datagram of s has a port above b.
PortsTo(s, b) == \A i \in 1 .. Len(s) : s[i].port <= b

\* A datagram of s with port p is its last and asks k.
AskedLast(s, p, k) == \A i \in 1 .. Len(s) : s[i].port = p => i = Len(s) /\ s[i].k = k

\* No datagram of s clears the counters.
NoClear(s) == \A i \in 1 .. Len(s) : s[i].k # "C"

\* Answers in s on port p hold n packets.
Hold(s, p, n) == \A i \in 1 .. Len(s) : s[i].port = p => s[i].packets = n

\* No answer in s is for port p.
NoneFor(s, p) == \A i \in 1 .. Len(s) : s[i].port # p

\* The first datagram goes.
LEMMA NetTail ==
  ASSUME NEW s \in Seq(Datagrams), s # <<>>, NEW b \in Nat, NEW p \in Nat, NEW k
  PROVE  /\ Tail(s) \in Seq(Datagrams) /\ Head(s) \in Datagrams
         /\ PortsTo(s, b) => PortsTo(Tail(s), b) /\ Head(s).port <= b
         /\ AskedLast(s, p, k) =>
              /\ AskedLast(Tail(s), p, k)
              /\ Head(s).port = p => Tail(s) = <<>> /\ Head(s).k = k
         /\ NoClear(s) => NoClear(Tail(s)) /\ Head(s).k # "C"
<1> DEFINE t == Tail(s)
<1>1. /\ Len(s) \in Nat \ {0} /\ Head(s) = s[1] /\ s[1] \in Datagrams
      /\ t \in Seq(Datagrams) /\ Len(t) = Len(s) - 1
      /\ \A i \in 1 .. Len(t) : i + 1 \in 1 .. Len(s) /\ t[i] = s[i + 1]
  BY TailOf
<1>2. Len(t) = 0 => t = <<>>  BY <1>1, EmptySeq
<1>3. PICK n \in Nat : n = Len(s)  BY <1>1
<1>4. PICK m \in Nat : m = Len(t)
  <2>1. Len(t) \in Nat  BY <1>1
  <2> QED  BY <2>1
<1> HIDE DEF t
<1>5. n = m + 1 /\ 1 \in 1 .. n  BY <1>1, <1>3, <1>4
<1>6. PortsTo(s, b) => PortsTo(t, b) /\ s[1].port <= b
  BY <1>1, <1>3, <1>4, <1>5 DEF PortsTo
<1>7. AskedLast(s, p, k) => /\ AskedLast(t, p, k)
                            /\ s[1].port = p => t = <<>> /\ s[1].k = k
  <2> SUFFICES ASSUME AskedLast(s, p, k)
               PROVE  AskedLast(t, p, k) /\ (s[1].port = p => t = <<>> /\ s[1].k = k)
    OBVIOUS
  <2>1. \A i \in 1 .. n : s[i].port = p => i = n /\ s[i].k = k  BY <1>3 DEF AskedLast
  <2>2. s[1].port = p => n = 1 /\ s[1].k = k  BY <2>1, <1>5
  <2>3. ASSUME NEW i \in 1 .. m, t[i].port = p
        PROVE  i = m /\ t[i].k = k
    <3>1. i + 1 \in 1 .. n /\ t[i] = s[i + 1]  BY <1>1, <1>3, <1>4
    <3> QED  BY <3>1, <2>1, <2>3, <1>5
  <2> QED  BY <2>2, <2>3, <1>2, <1>4, <1>5 DEF AskedLast
<1>8. NoClear(s) => NoClear(t) /\ s[1].k # "C"
  BY <1>1, <1>3, <1>4, <1>5 DEF NoClear
<1> QED  BY <1>1, <1>6, <1>7, <1>8 DEF t

\* A datagram is sent.
LEMMA NetAppend ==
  ASSUME NEW s \in Seq(Datagrams), NEW e \in Datagrams, NEW b \in Nat
  PROVE  /\ Append(s, e) \in Seq(Datagrams)
         /\ PortsTo(s, b) => PortsTo(Append(s, e), b + 1) \/ e.port > b + 1
         /\ PortsTo(s, b) /\ e.port <= b => PortsTo(Append(s, e), b)
         /\ PortsTo(s, b) /\ e.port = b + 1 => AskedLast(Append(s, e), b + 1, e.k)
         /\ NoClear(s) /\ e.k # "C" => NoClear(Append(s, e))
<1> DEFINE t == Append(s, e)
<1>1. /\ t \in Seq(Datagrams) /\ Len(t) = Len(s) + 1 /\ Len(s) \in Nat
      /\ t[Len(s) + 1] = e /\ \A i \in 1 .. Len(s) : t[i] = s[i]
      /\ \A i \in 1 .. Len(s) : s[i] \in Datagrams
  BY AppendOf
<1>2. PICK n \in Nat : n = Len(s)  BY <1>1
<1> HIDE DEF t
<1>3. Len(t) = n + 1 /\ t[n + 1] = e /\ \A i \in 1 .. n : t[i] = s[i] /\ s[i].port \in Nat
  BY <1>1, <1>2 DEF Datagrams
<1>4. e.port \in Nat /\ \A i \in 1 .. n + 1 : i \in 1 .. n \/ i = n + 1  BY DEF Datagrams
<1>5. PortsTo(s, b) => PortsTo(t, b + 1) \/ e.port > b + 1
  BY <1>2, <1>3, <1>4 DEF PortsTo
<1>6. PortsTo(s, b) /\ e.port <= b => PortsTo(t, b)  BY <1>2, <1>3, <1>4 DEF PortsTo
<1>7. PortsTo(s, b) /\ e.port = b + 1 => AskedLast(t, b + 1, e.k)
  BY <1>2, <1>3, <1>4 DEF PortsTo, AskedLast
<1>8. NoClear(s) /\ e.k # "C" => NoClear(t)  BY <1>2, <1>3, <1>4 DEF NoClear
<1> QED  BY <1>1, <1>5, <1>6, <1>7, <1>8 DEF t

\* The first answer goes.
LEMMA RepTail ==
  ASSUME NEW s \in Seq(Answers), s # <<>>, NEW b \in Nat, NEW p \in Nat, NEW n \in Nat
  PROVE  /\ Tail(s) \in Seq(Answers) /\ Head(s) \in Answers
         /\ PortsTo(s, b) => PortsTo(Tail(s), b)
         /\ Hold(s, p, n) => Hold(Tail(s), p, n) /\ (Head(s).port = p => Head(s).packets = n)
         /\ NoneFor(s, p) => NoneFor(Tail(s), p)
         /\ Head(s).port = p => ~NoneFor(s, p)
<1> DEFINE t == Tail(s)
<1>1. /\ Len(s) \in Nat \ {0} /\ Head(s) = s[1] /\ s[1] \in Answers
      /\ t \in Seq(Answers)
      /\ \A i \in 1 .. Len(t) : i + 1 \in 1 .. Len(s) /\ t[i] = s[i + 1]
  BY TailOf
<1> HIDE DEF t
<1>2. 1 \in 1 .. Len(s)  BY <1>1
<1>3. PortsTo(s, b) => PortsTo(t, b)  BY <1>1 DEF PortsTo
<1>4. Hold(s, p, n) => Hold(t, p, n) /\ (s[1].port = p => s[1].packets = n)
  BY <1>1, <1>2 DEF Hold
<1>5. NoneFor(s, p) => NoneFor(t, p)  BY <1>1 DEF NoneFor
<1>6. s[1].port = p => ~NoneFor(s, p)  BY <1>2 DEF NoneFor
<1> QED  BY <1>1, <1>3, <1>4, <1>5, <1>6 DEF t

\* The board answers.
LEMMA RepAppend ==
  ASSUME NEW s \in Seq(Answers), NEW e \in Answers, NEW b \in Nat, NEW p \in Nat, NEW n \in Nat
  PROVE  /\ Append(s, e) \in Seq(Answers)
         /\ PortsTo(s, b) /\ e.port <= b => PortsTo(Append(s, e), b)
         /\ Hold(s, p, n) /\ (e.port = p => e.packets = n) => Hold(Append(s, e), p, n)
         /\ NoneFor(s, p) /\ e.port # p => NoneFor(Append(s, e), p)
<1> DEFINE t == Append(s, e)
<1>1. /\ t \in Seq(Answers) /\ Len(t) = Len(s) + 1 /\ Len(s) \in Nat
      /\ t[Len(s) + 1] = e /\ \A i \in 1 .. Len(s) : t[i] = s[i]
  BY AppendOf
<1>2. PICK m \in Nat : m = Len(s)  BY <1>1
<1> HIDE DEF t
<1>3. Len(t) = m + 1 /\ t[m + 1] = e /\ \A i \in 1 .. m : t[i] = s[i]  BY <1>1, <1>2
<1>4. \A i \in 1 .. m + 1 : i \in 1 .. m \/ i = m + 1  OBVIOUS
<1>5. PortsTo(s, b) /\ e.port <= b => PortsTo(t, b)  BY <1>2, <1>3, <1>4 DEF PortsTo
<1>6. Hold(s, p, n) /\ (e.port = p => e.packets = n) => Hold(t, p, n)
  BY <1>2, <1>3, <1>4 DEF Hold
<1>7. NoneFor(s, p) /\ e.port # p => NoneFor(t, p)  BY <1>2, <1>3, <1>4 DEF NoneFor
<1> QED  BY <1>1, <1>5, <1>6, <1>7 DEF t

Waits == {"probe_wait", "clear_wait", "get_wait"}

\* The query that a wait is for.
Asks(w) == IF w = "clear_wait" THEN "C" ELSE "G"

\* Ports are used once: no datagram under way has one that is still to come.  While an
\* answer is awaited, its query is the last datagram on the way to the board.
OneAsked ==
  /\ PortsTo(net, ports) /\ PortsTo(rep, ports)
  /\ reg_pc \in Waits => port = ports /\ port > 0 /\ AskedLast(net, port, Asks(reg_pc))

\* So when its answer is under way the board has taken all that was sent before it: the
\* counters are cleared, or they are what the answer says.
AnsweredLast ==
  /\ reg_pc = "clear_wait" => NoneFor(rep, port) \/ (net = <<>> /\ packets = 0)
  /\ reg_pc = "get_wait" =>
       NoneFor(rep, port) \/ (net = <<>> /\ Hold(rep, port, packets))

\* From the answer to the clear on, the sink has counted this profile and nothing else.
OwnCount == reg_pc \in {"send", "get", "get_wait"} => packets = reg_got /\ NoClear(net)

\* What is judged, and what a return code of 0 means.
OwnVerdict ==
  /\ reg_pc = "judge" => net = <<>> /\ stats = reg_got
  /\ (reg_pc \in {"profile_over", "exit0"} /\ code = 0) =>
        net = <<>> /\ stats = reg_got /\ Reg!HostPass
  /\ reg_pc = "exit0" => code = 0

RegInv == RegTypes /\ OneAsked /\ AnsweredLast /\ OwnCount /\ OwnVerdict
\* Initially nothing is under way.
LEMMA RegStarts == Reg!Init => RegInv
  BY DEF Reg!Init, RegInv, RegTypes, PortsTo, OneAsked, AnsweredLast, OwnCount, OwnVerdict,
         Waits

\* What the conjuncts need to know of the script.
RegFrame == UNCHANGED <<reg_pc, port, ports, reg_sent, stats, code>>

\* A datagram or an answer that is lost, or an answer that comes too late.
LEMMA RegLoses ==
  ASSUME RegInv, Reg!LoseRequest \/ Reg!LoseReply \/ Reg!Discard
  PROVE  RegInv'
<1> USE DEF RegInv
<1>1. RegFrame /\ UNCHANGED <<packets, reg_got>> /\ Reg!HostPass' = Reg!HostPass
  BY DEF Reg!LoseRequest, Reg!LoseReply, Reg!Discard, RegFrame, Reg!HostPass, Reg!board
<1>2. CASE Reg!LoseRequest
  <2>1. net # <<>> /\ net' = Tail(net) /\ rep' = rep  BY <1>2 DEF Reg!LoseRequest
  <2>2. /\ net' \in Seq(Datagrams)
        /\ PortsTo(net, ports) => PortsTo(net', ports)
        /\ AskedLast(net, port, Asks(reg_pc)) => AskedLast(net', port, Asks(reg_pc))
        /\ NoClear(net) => NoClear(net')
    BY <2>1, NetTail DEF RegTypes
  <2>3. RegTypes'  BY <1>1, <2>1, <2>2 DEF RegTypes, RegFrame
  <2>4. OneAsked'  BY <1>1, <2>1, <2>2 DEF OneAsked, RegFrame
  <2>5. net # <<>>  BY <2>1
  <2> HIDE <2>1
  <2>6. AnsweredLast'
    <3>1. rep' = rep  BY <2>1
    <3> QED  BY <1>1, <3>1, <2>5 DEF AnsweredLast, RegFrame
  <2>7. OwnCount' /\ OwnVerdict'  BY <1>1, <2>2, <2>5 DEF OwnCount, OwnVerdict, RegFrame
  <2> QED  BY <2>3, <2>4, <2>6, <2>7
<1>3. CASE Reg!LoseReply \/ Reg!Discard
  <2>1. rep # <<>> /\ rep' = Tail(rep) /\ net' = net
    BY <1>3 DEF Reg!LoseReply, Reg!Discard
  <2>2. /\ rep' \in Seq(Answers)
        /\ PortsTo(rep, ports) => PortsTo(rep', ports)
        /\ Hold(rep, port, packets) => Hold(rep', port, packets)
        /\ NoneFor(rep, port) => NoneFor(rep', port)
    BY <2>1, RepTail DEF RegTypes
  <2>3. net' = net  BY <2>1
  <2>4. RegTypes'  BY <1>1, <2>3, <2>2 DEF RegTypes, RegFrame
  <2>5. OneAsked'  BY <1>1, <2>3, <2>2 DEF OneAsked, RegFrame
  <2>6. AnsweredLast'  BY <1>1, <2>3, <2>2 DEF AnsweredLast, RegFrame
  <2>7. OwnCount' /\ OwnVerdict'  BY <1>1, <2>3 DEF OwnCount, OwnVerdict, RegFrame
  <2> QED  BY <2>4, <2>5, <2>6, <2>7
<1> QED  BY <1>2, <1>3

\* A packet the sink takes is one of this profile, if it is in time for its count.
LEMMA RegSinks ==
  ASSUME RegInv, Reg!SinkPacket
  PROVE  RegInv'
<1> USE DEF RegInv
<1>1. RegFrame /\ packets' = packets + 1 /\ reg_got' = reg_got + 1 /\ rep' = rep
      /\ net # <<>> /\ Reg!HostPass' = Reg!HostPass
  BY DEF Reg!SinkPacket, RegFrame, Reg!HostPass
<1>2. /\ net' \in Seq(Datagrams)
      /\ PortsTo(net, ports) => PortsTo(net', ports)
      /\ AskedLast(net, port, Asks(reg_pc)) => AskedLast(net', port, Asks(reg_pc))
      /\ NoClear(net) => NoClear(net')
  BY NetTail DEF RegTypes, Reg!SinkPacket
<1>3. RegTypes'  BY <1>1, <1>2 DEF RegTypes, RegFrame
<1>4. OneAsked'  BY <1>1, <1>2 DEF OneAsked, RegFrame
<1>5. AnsweredLast'  BY <1>1 DEF AnsweredLast, RegFrame
<1>6. OwnCount' /\ OwnVerdict'  BY <1>1, <1>2 DEF OwnCount, OwnVerdict, RegFrame
<1> QED  BY <1>3, <1>4, <1>5, <1>6

\* The board answers a query, or drops it: if it is the one that is awaited, it was the
\* last datagram.
LEMMA RegReplies ==
  ASSUME RegInv, Reg!StatsReply
  PROVE  RegInv'
<1> USE DEF RegInv
<1> DEFINE q == Head(net)
           e == [port |-> q.port, packets |-> packets]
<1>1. RegFrame /\ reg_got' = reg_got /\ net # <<>> /\ Reg!HostPass' = Reg!HostPass
      /\ q.k \in {"G", "C"}
  BY DEF Reg!StatsReply, RegFrame, Reg!HostPass
<1>2. /\ net' \in Seq(Datagrams) /\ q \in Datagrams
      /\ PortsTo(net, ports) => PortsTo(net', ports) /\ q.port <= ports
      /\ AskedLast(net, port, Asks(reg_pc)) =>
           /\ AskedLast(net', port, Asks(reg_pc))
           /\ q.port = port => net' = <<>> /\ q.k = Asks(reg_pc)
      /\ NoClear(net) => NoClear(net') /\ q.k # "C"
  BY NetTail DEF RegTypes, Reg!StatsReply
<1>3. e \in Answers /\ e.port = q.port /\ e.packets = packets
  BY <1>2 DEF Answers, Datagrams, RegTypes
<1>4. \/ rep' = rep /\ packets' = packets
      \/ rep' = Append(rep, e) /\ packets' = (IF q.k = "C" THEN 0 ELSE packets)
  BY DEF Reg!StatsReply, Reg!Cleared
<1>5. \/ rep' = rep /\ packets' = packets
      \/ /\ rep' \in Seq(Answers)
         /\ PortsTo(rep, ports) /\ e.port <= ports => PortsTo(rep', ports)
         /\ Hold(rep, port, packets) /\ (e.port = port => e.packets = packets)
              => Hold(rep', port, packets)
         /\ NoneFor(rep, port) /\ e.port # port => NoneFor(rep', port)
         /\ packets' = (IF q.k = "C" THEN 0 ELSE packets)
  <2>1. rep \in Seq(Answers) /\ ports \in Nat /\ port \in Nat /\ packets \in Nat
    BY DEF RegTypes
  <2>2. /\ Append(rep, e) \in Seq(Answers)
        /\ PortsTo(rep, ports) /\ e.port <= ports => PortsTo(Append(rep, e), ports)
        /\ Hold(rep, port, packets) /\ (e.port = port => e.packets = packets)
             => Hold(Append(rep, e), port, packets)
        /\ NoneFor(rep, port) /\ e.port # port => NoneFor(Append(rep, e), port)
    BY <2>1, <1>3, RepAppend
  <2> HIDE DEF q, e
  <2> QED  BY <2>2, <1>4
<1> HIDE DEF q, e
<1>6. RegTypes'  BY <1>1, <1>2, <1>5 DEF RegTypes, RegFrame
<1>7. OneAsked'  BY <1>1, <1>2, <1>3, <1>5 DEF OneAsked, RegFrame
<1>8. AnsweredLast'
  <2>1. CASE reg_pc = "clear_wait"
    <3>1. NoneFor(rep, port)  BY <1>1, <2>1 DEF AnsweredLast
    <3>2. q.port = port => net' = <<>> /\ q.k = "C"
      BY <1>2, <2>1 DEF OneAsked, Waits, Asks
    <3> QED  BY <3>1, <3>2, <1>1, <1>3, <1>5, <2>1 DEF AnsweredLast, RegFrame
  <2>2. CASE reg_pc = "get_wait"
    <3>1. NoneFor(rep, port)  BY <1>1, <2>2 DEF AnsweredLast
    <3>2. NoneFor(rep, port) => Hold(rep, port, packets)  BY DEF NoneFor, Hold
    <3>3. q.port = port => net' = <<>>  BY <1>2, <2>2 DEF OneAsked, Waits
    <3>4. packets' = packets  BY <1>2, <1>5, <2>2 DEF OwnCount
    <3> QED  BY <3>1, <3>2, <3>3, <3>4, <1>1, <1>3, <1>5, <2>2 DEF AnsweredLast, RegFrame
  <2> QED  BY <2>1, <2>2, <1>1 DEF AnsweredLast, RegFrame
<1>9. OwnCount'  BY <1>1, <1>2, <1>5 DEF OwnCount, RegFrame
<1>10. OwnVerdict'  BY <1>1 DEF OwnVerdict, RegFrame
<1> QED  BY <1>6, <1>7, <1>8, <1>9, <1>10

\* A query takes a port nobody has had: no answer under way is for it.
LEMMA RegAsks ==
  ASSUME RegInv,
         \/ Reg!Query("probe", "G", "probe_wait")
         \/ Reg!Query("clear", "C", "clear_wait")
         \/ Reg!Query("get", "G", "get_wait")
  PROVE  RegInv'
<1> USE DEF RegInv
<1>1. PICK k \in {"G", "C"} :
        /\ reg_pc' \in Waits /\ k = Asks(reg_pc')
        /\ reg_pc' = "get_wait" => reg_pc = "get"
        /\ ports' = ports + 1 /\ port' = ports + 1
        /\ net' = Append(net, [k |-> k, port |-> ports + 1])
        /\ UNCHANGED <<rep, packets, reg_got, reg_sent, stats, code>>
  BY DEF Reg!Query, Reg!board, Waits, Asks
<1> DEFINE e == [k |-> k, port |-> ports + 1]
<1>2. e \in Datagrams /\ e.port = ports + 1 /\ e.k = k  BY DEF Datagrams, RegTypes
<1>3. /\ net' \in Seq(Datagrams) /\ PortsTo(net', ports + 1)
      /\ AskedLast(net', ports + 1, k)
      /\ NoClear(net) /\ k # "C" => NoClear(net')
  BY <1>1, <1>2, NetAppend DEF RegTypes, OneAsked
<1>4. ports \in Nat /\ \A i \in 1 .. Len(rep) : rep[i] \in Answers  BY DEF RegTypes
<1>5. PortsTo(rep, ports + 1) /\ NoneFor(rep, ports + 1)
  BY <1>4 DEF OneAsked, PortsTo, NoneFor, Answers
<1>6. /\ reg_pc' \in Waits /\ k = Asks(reg_pc') /\ ports' = ports + 1 /\ port' = ports + 1
      /\ reg_pc' = "get_wait" => reg_pc = "get"
      /\ UNCHANGED <<rep, packets, reg_got, reg_sent, stats, code>>
  BY <1>1
<1> HIDE DEF e
<1>7. RegTypes'  BY <1>3, <1>4, <1>6 DEF RegTypes
<1>8. OneAsked'  BY <1>3, <1>4, <1>5, <1>6 DEF OneAsked
<1>9. AnsweredLast'  BY <1>5, <1>6 DEF AnsweredLast
<1>10. OwnCount'  BY <1>3, <1>6 DEF OwnCount, Waits, Asks
<1>11. OwnVerdict'  BY <1>6 DEF OwnVerdict, Waits
<1> QED  BY <1>7, <1>8, <1>9, <1>10, <1>11

\* An answer in time is the one that was asked for.
LEMMA RegAnswers ==
  ASSUME RegInv,
         \/ Reg!Answer("probe_wait", "clear")
         \/ Reg!Answer("clear_wait", "send")
         \/ Reg!Answer("get_wait", "judge")
  PROVE  RegInv'
<1> USE DEF RegInv
<1>1. /\ \/ reg_pc = "probe_wait" /\ reg_pc' = "clear" /\ UNCHANGED <<reg_got, reg_sent>>
         \/ reg_pc = "clear_wait" /\ reg_pc' = "send" /\ reg_got' = 0 /\ reg_sent' = 0
         \/ reg_pc = "get_wait" /\ reg_pc' = "judge" /\ UNCHANGED <<reg_got, reg_sent>>
      /\ rep # <<>> /\ Head(rep).port = port /\ stats' = Head(rep).packets /\ port' = 0
      /\ UNCHANGED <<net, packets, ports, code>>
  BY DEF Reg!Answer, Reg!Mine
<1>2. /\ rep' \in Seq(Answers) /\ Head(rep) \in Answers
      /\ PortsTo(rep, ports) => PortsTo(rep', ports)
      /\ Hold(rep, port, packets) => (Head(rep).port = port => Head(rep).packets = packets)
      /\ ~NoneFor(rep, port)
  <2>1. rep \in Seq(Answers) /\ rep # <<>> /\ ports \in Nat /\ port \in Nat /\ packets \in Nat
    BY <1>1 DEF RegTypes
  <2>2. rep' = Tail(rep)  BY DEF Reg!Answer
  <2> QED  BY <2>1, <2>2, <1>1, RepTail
<1>3. RegTypes'
  <2>1. stats' \in Nat  BY <1>1, <1>2 DEF Answers
  <2>2. reg_got' \in Nat /\ reg_sent' \in Nat  BY <1>1 DEF RegTypes
  <2>3. UNCHANGED <<net, packets, ports>> /\ port' \in Nat /\ rep' \in Seq(Answers)
    BY <1>1, <1>2
  <2> QED  BY <2>1, <2>2, <2>3 DEF RegTypes
<1>4. OneAsked'  BY <1>1, <1>2 DEF OneAsked, Waits
<1>5. AnsweredLast'  BY <1>1 DEF AnsweredLast
<1>6. reg_pc' = "send" => packets' = reg_got' /\ NoClear(net')
  BY <1>1, <1>2 DEF AnsweredLast, NoClear
<1>7. reg_pc' = "judge" => net' = <<>> /\ stats' = reg_got'
  BY <1>1, <1>2 DEF AnsweredLast, OwnCount
<1> QED  BY <1>1, <1>3, <1>4, <1>5, <1>6, <1>7 DEF OwnCount, OwnVerdict

\* The packets of the profile.
LEMMA RegSends ==
  ASSUME RegInv, Reg!Send
  PROVE  RegInv'
<1> USE DEF RegInv
<1> DEFINE e == [k |-> "data", port |-> 0]
<1>1. /\ reg_pc = "send" /\ reg_pc' = "send" /\ reg_sent' = reg_sent + 1
      /\ UNCHANGED <<rep, packets, reg_got, port, ports, stats, code>>
  BY DEF Reg!Send, Reg!board
<1>2. e \in Datagrams /\ e.port = 0 /\ e.k # "C"  BY DEF Datagrams
<1>3. net' = Append(net, e)  BY DEF Reg!Send
<1>4. /\ net' \in Seq(Datagrams)
      /\ PortsTo(net, ports) /\ 0 <= ports => PortsTo(net', ports)
      /\ NoClear(net) => NoClear(net')
  BY <1>2, <1>3, NetAppend DEF RegTypes
<1> HIDE DEF e
<1>5. RegTypes'  BY <1>1, <1>4 DEF RegTypes
<1>6. OneAsked'  BY <1>1, <1>4 DEF OneAsked, Waits, RegTypes
<1> QED  BY <1>1, <1>4, <1>5, <1>6 DEF AnsweredLast, OwnCount, OwnVerdict

\* The steps of the scripts that neither ask nor send.
LEMMA RegDecides ==
  ASSUME RegInv,
         \/ \E n \in 1 .. 2, skip \in BOOLEAN : Reg!Main(n, skip)
         \/ Reg!DryRun \/ Reg!SendOver \/ Reg!Judge \/ Reg!ProfileOver \/ Reg!Again
         \/ \E w \in Waits : Reg!QueryTimeout(w)
  PROVE  RegInv'
<1> USE DEF RegInv
<1>1. UNCHANGED <<net, rep, packets, reg_got, ports, reg_sent, stats>>
      /\ port' \in {port, 0} /\ reg_pc' \notin Waits
  BY DEF Reg!Main, Reg!DryRun, Reg!SendOver, Reg!Judge, Reg!ProfileOver, Reg!Again,
         Reg!QueryTimeout, Reg!board, Waits
<1>2. RegTypes' /\ OneAsked' /\ AnsweredLast'
  BY <1>1 DEF RegTypes, OneAsked, AnsweredLast, Waits
<1>3. reg_pc' = "send" => FALSE
  BY DEF Reg!Main, Reg!DryRun, Reg!SendOver, Reg!Judge, Reg!ProfileOver, Reg!Again,
         Reg!QueryTimeout
<1>4. reg_pc' = "get" => reg_pc = "send"
  BY DEF Reg!Main, Reg!DryRun, Reg!SendOver, Reg!Judge, Reg!ProfileOver, Reg!Again,
         Reg!QueryTimeout
<1>5. OwnCount'  BY <1>1, <1>3, <1>4 DEF OwnCount, Waits
<1>6. Reg!HostPass' = Reg!HostPass  BY <1>1 DEF Reg!HostPass
<1>7. OwnVerdict'
  <2>1. CASE Reg!Judge  BY <2>1, <1>1, <1>6 DEF Reg!Judge, OwnVerdict
  <2>2. CASE Reg!ProfileOver  BY <2>2, <1>1, <1>6 DEF Reg!ProfileOver, OwnVerdict
  <2>3. CASE ~Reg!Judge /\ ~Reg!ProfileOver
    <3>1. reg_pc' # "judge" /\ reg_pc' # "exit0" /\ (reg_pc' = "profile_over" => code' = 1)
      BY <2>3 DEF Reg!Main, Reg!DryRun, Reg!SendOver, Reg!Again, Reg!QueryTimeout
    <3> QED  BY <3>1 DEF OwnVerdict
  <2> QED  BY <2>1, <2>2, <2>3
<1> QED  BY <1>2, <1>5, <1>7

\* The regression of the whole runs as the regression alone.
LEMMA RegRuns == Spec => Reg!Spec
<1>1. Init => Reg!Init
  BY DEF Init
<1>2. [Next]_allVars => [Reg!Next]_(Reg!vars)
  BY DEF Next, allVars, RunSfp, RunPause, RunStats, RunLb, RunUart, RunThr, RunReg, regVars,
         Reg!vars, Reg!board
<1> QED  BY <1>1, <1>2, PTL DEF Spec, Reg!Spec

\* The numbers a profile is judged by are its own (run_hw_regression.py 65-133,
\* udp_iperf_stats.py 22-46), for any number of profiles, queries, packets and losses: never
\* the count of an earlier profile, nor the late answer to a query that was given up.
THEOREM ProfileCountsOwn == Spec => []CountsOwnPackets
<1>1. RegInv /\ [Reg!Next]_(Reg!vars) => RegInv'
  <2> SUFFICES ASSUME RegInv, [Reg!Next]_(Reg!vars) PROVE RegInv'  OBVIOUS
  <2>1. CASE Reg!Next
    <3>1. \A a, b : Reg!QueryTimeout(a) /\ a \in Waits => \E w \in Waits : Reg!QueryTimeout(w)
      OBVIOUS
    <3>2. "probe_wait" \in Waits /\ "clear_wait" \in Waits /\ "get_wait" \in Waits
      BY DEF Waits
    <3> QED  BY <2>1, <3>1, <3>2, RegLoses, RegSinks, RegReplies, RegAsks, RegAnswers,
                RegSends, RegDecides DEF Reg!Next
  <2>2. CASE UNCHANGED Reg!vars
    BY <2>2 DEF Reg!vars, Reg!board, RegInv, RegTypes, OneAsked, AnsweredLast, OwnCount,
                OwnVerdict, Reg!HostPass
  <2> QED  BY <2>1, <2>2
<1>2. RegInv => CountsOwnPackets
  BY DEF RegInv, OwnVerdict, CountsOwnPackets, Reg!CountsOwnPackets, Reg!HostPass
<1> QED  BY <1>1, <1>2, RegStarts, RegRuns, PTL DEF Reg!Spec
-----------------------------------------------------------------------------
(* The throughput script.                                                   *)

KeySet  == {"RXF", "OVF"}
Samples == KeySet \X Nat

\* What the counters, the dump, the monitor's list and the results are made of.
ThrTypes ==
  /\ thr_reg \in [KeySet -> Nat] /\ thr_reg["OVF"] <= ThrSat
  /\ thr_at \in {1, 2} /\ thr_rd \in Nat \cup {-1}
  /\ samples \in Seq(Samples)
  /\ thr_base \in [KeySet -> Nat \cup {-1}] /\ final \in [KeySet -> Nat \cup {-1}]
  /\ flying \in Nat /\ garbled \in Nat /\ misread \in BOOLEAN
  /\ ovf \in Nat /\ due \in Nat /\ dumped \in {"no", "read", "printed"}
  /\ thr_pc \in {"main", "warmup", "send", "settle", "judge", "exit0", "exit1", "exit2"}

\* The last sample of k in s.
IsLast(s, k, i) ==
  i \in 1 .. Len(s) /\ s[i][1] = k /\ \A j \in 1 .. Len(s) : s[j][1] = k => j <= i

HasLast(s, k) ==
  (\E i \in 1 .. Len(s) : IsLast(s, k, i)) \/ \A i \in 1 .. Len(s) : s[i][1] # k

\* The overflow samples of s lie between a and b.
Between(s, a, b) == \A i \in 1 .. Len(s) : s[i][1] = "OVF" => a <= s[i][2] /\ s[i][2] <= b

\* So does the value that is being printed.
PrintsBetween(a, b) == (thr_rd # -1 /\ thr_at = 2) => a <= thr_rd /\ thr_rd <= b

\* A line that was taken for another is a garbled line.
Garbles == misread => garbled # 0

\* Before the first packet the overflow counter stands still.
StandsStill ==
  thr_pc \in {"main", "warmup"} =>
    /\ ovf = 0 /\ dumped = "no" /\ flying = 0
    /\ thr_pc = "main" => thr_rd = -1 /\ samples = <<>>
    /\ ~misread => Between(samples, thr_reg["OVF"], thr_reg["OVF"])
    /\ PrintsBetween(thr_reg["OVF"], thr_reg["OVF"])

InTest == thr_pc \in {"send", "settle", "judge", "exit0", "exit1"}

Counted(b, n) == IF b + n < ThrSat THEN b + n ELSE ThrSat

\* There is a baseline, and no sample is another than the board printed.
Sound == ~misread /\ thr_base["OVF"] # -1

\* From the baseline on the counter is the baseline and the overflows of this test, as far
\* as it can count, and what is printed lies between the two.
CountsFromBase ==
  (InTest /\ Sound) =>
    /\ thr_reg["OVF"] = Counted(thr_base["OVF"], ovf) /\ thr_base["OVF"] <= ThrSat
    /\ Between(samples, thr_base["OVF"], thr_reg["OVF"])
    /\ PrintsBetween(thr_base["OVF"], thr_reg["OVF"])

\* What is due is the overflows so far, until the counter is read after the last packet
\* was sent.
IsDue == due <= ovf /\ (dumped = "no" => due = ovf)

\* Once it has been read, what is printed holds what is due; and once that is printed, so
\* does the last sample, unless a line was garbled.
DueNow == Counted(thr_base["OVF"], due)
PrintsDue == (thr_rd # -1 /\ thr_at = 2) => DueNow <= thr_rd

ReadAfterSend ==
  /\ thr_pc = "send" => dumped = "no"
  /\ thr_pc = "settle" /\ dumped = "read" => thr_rd # -1 /\ thr_at = 2
  /\ thr_pc = "settle" /\ Sound =>
       /\ dumped # "no" => PrintsDue
       /\ dumped = "printed" /\ garbled = 0 => DueNow <= Thr!Latest(samples)["OVF"]

\* What is judged, and the verdict.
Result ==
  /\ thr_pc \in {"judge", "exit0", "exit1"} =>
       /\ dumped = "printed"
       /\ Sound /\ garbled = 0 => DueNow <= final["OVF"]
       /\ Sound /\ final["OVF"] # -1 =>
            thr_base["OVF"] <= final["OVF"] /\ final["OVF"] <= thr_reg["OVF"]
  /\ thr_pc = "exit1" => Thr!Verdict
  /\ thr_pc = "exit0" => ~Thr!Verdict

ThrInv == ThrTypes /\ HasLast(samples, "OVF") /\ HasLast(samples, "RXF") /\ Garbles
          /\ StandsStill /\ CountsFromBase /\ IsDue /\ ReadAfterSend /\ Result

\* The counters' sums.
LEMMA CountedUp ==
  ASSUME NEW b \in Nat, b <= ThrSat, NEW n \in Nat, NEW m \in Nat, n <= m
  PROVE  /\ Counted(b, n) \in Nat /\ b <= Counted(b, n) /\ Counted(b, n) <= Counted(b, m)
         /\ Counted(b, n + 1) = IF Counted(b, n) = ThrSat THEN ThrSat ELSE Counted(b, n) + 1
         /\ Counted(b, n) = b /\ b < ThrSat => n = 0
         /\ Counted(b, n) # b => n > 0
BY ThrAssumption DEF Counted

\* Latest finds the last sample, ...
LEMMA LatestIs ==
  ASSUME NEW s \in Seq(Samples), NEW k \in KeySet, NEW i \in 1 .. Len(s), IsLast(s, k, i)
  PROVE  Thr!Latest(s)[k] = s[i][2] /\ s[i][2] \in Nat
<1> DEFINE I == {j \in DOMAIN s : s[j][1] = k}
<1>1. I = {j \in 1 .. Len(s) : s[j][1] = k}  OBVIOUS
<1>2. i \in I /\ \A j \in I : j <= i  BY <1>1 DEF IsLast
<1>3. I \subseteq Int  BY <1>1
<1>4. \A x \in I : (\A j \in I : j <= x) => x = i  BY <1>2, <1>3
<1>5. (CHOOSE x \in I : \A j \in I : j <= x) = i  BY <1>2, <1>4
<1>6. Thr!Latest(s)[k] = IF I = {} THEN -1 ELSE s[CHOOSE x \in I : \A j \in I : j <= x][2]
  BY DEF Thr!Latest, Thr!Missing, KeySet
<1>7. s[i][2] \in Nat
  <2>1. s[i] \in Samples  OBVIOUS
  <2> QED  BY <2>1 DEF Samples
<1>8. I # {}  BY <1>2
<1> HIDE DEF I
<1> QED  BY <1>5, <1>6, <1>7, <1>8

\* ... or that there is none.
LEMMA LatestNone ==
  ASSUME NEW s \in Seq(Samples), NEW k \in KeySet, \A i \in 1 .. Len(s) : s[i][1] # k
  PROVE  Thr!Latest(s)[k] = -1
<1> DEFINE I == {j \in DOMAIN s : s[j][1] = k}
<1>1. I = {}  OBVIOUS
<1>2. Thr!Latest(s)[k] = IF I = {} THEN -1 ELSE s[CHOOSE x \in I : \A j \in I : j <= x][2]
  BY DEF Thr!Latest, Thr!Missing, KeySet
<1> HIDE DEF I
<1> QED  BY <1>1, <1>2

\* So it is one of the samples, and lies where they do.
LEMMA LatestWithin ==
  ASSUME NEW s \in Seq(Samples), HasLast(s, "OVF"), NEW a \in Nat, NEW b \in Nat,
         Between(s, a, b)
  PROVE  Thr!Latest(s)["OVF"] # -1 => /\ Thr!Latest(s)["OVF"] \in Nat
                                      /\ a <= Thr!Latest(s)["OVF"]
                                      /\ Thr!Latest(s)["OVF"] <= b
<1>1. "OVF" \in KeySet  BY DEF KeySet
<1>2. CASE \A i \in 1 .. Len(s) : s[i][1] # "OVF"  BY <1>1, <1>2, LatestNone
<1>3. CASE \E i \in 1 .. Len(s) : IsLast(s, "OVF", i)
  <2>1. PICK i \in 1 .. Len(s) : IsLast(s, "OVF", i)  BY <1>3
  <2>2. Thr!Latest(s)["OVF"] = s[i][2] /\ s[i][2] \in Nat  BY <1>1, <2>1, LatestIs
  <2>3. a <= s[i][2] /\ s[i][2] <= b  BY <2>1 DEF IsLast, Between
  <2> QED  BY <2>2, <2>3
<1> QED  BY <1>2, <1>3 DEF HasLast

\* The result is a value for each key.
LEMMA LatestType ==
  ASSUME NEW s \in Seq(Samples), HasLast(s, "OVF"), HasLast(s, "RXF")
  PROVE  Thr!Latest(s) \in [KeySet -> Nat \cup {-1}]
<1>1. \A k \in KeySet : HasLast(s, k)  BY DEF KeySet
<1>2. \A k \in KeySet : Thr!Latest(s)[k] \in Nat \cup {-1}
  <2> TAKE k \in KeySet
  <2>1. CASE \A i \in 1 .. Len(s) : s[i][1] # k  BY <2>1, LatestNone
  <2>2. CASE \E i \in 1 .. Len(s) : IsLast(s, k, i)  BY <2>2, LatestIs
  <2> QED  BY <1>1, <2>1, <2>2 DEF HasLast
<1>3. Thr!Latest(s) = [k \in KeySet |-> Thr!Latest(s)[k]]  BY DEF Thr!Latest, KeySet
<1> HIDE DEF Thr!Latest
<1> QED  BY <1>2, <1>3

\* Places of the end of a list of n that begins at c.
LEMMA EndPlaces ==
  ASSUME NEW n \in Nat, NEW c \in 1 .. n
  PROVE  /\ n - c + 1 \in Nat
         /\ \A j \in 1 .. n - c + 1 : c + j - 1 \in 1 .. n /\ c <= c + j - 1
         /\ \A i \in 1 .. n : c <= i => /\ i - c + 1 \in 1 .. n - c + 1
                                       /\ c + (i - c + 1) - 1 = i
         /\ \A i \in 1 .. n : \A j \in 1 .. n - c + 1 : c + j - 1 <= i => j <= i - c + 1
         /\ \A i \in 1 .. n : c <= i \/ i < c
  OBVIOUS

\* The recent samples have a last one of k if the whole list has.
LEMMA RecentLast ==
  ASSUME NEW s \in Seq(Samples), NEW k, HasLast(s, k),
         NEW n \in Nat, n = Len(s), NEW c \in 1 .. n
  PROVE  /\ SubSeq(s, c, n) \in Seq(Samples)
         /\ HasLast(SubSeq(s, c, n), k)
         /\ \A a, b : Between(s, a, b) => Between(SubSeq(s, c, n), a, b)
<1> DEFINE t == SubSeq(s, c, n)
<1>1. n = Len(s)  OBVIOUS
<1>2. /\ t \in Seq(Samples) /\ Len(t) = n - c + 1
      /\ \A j \in 1 .. n - c + 1 : t[j] = s[c + j - 1]
  BY <1>1, SubSeqProperties
<1> HIDE DEF t
<1>3. PICK m \in Nat : m = n - c + 1  BY EndPlaces
<1>4. /\ \A j \in 1 .. m : c + j - 1 \in 1 .. n /\ c <= c + j - 1
      /\ \A i \in 1 .. n : c <= i => i - c + 1 \in 1 .. m /\ c + (i - c + 1) - 1 = i
      /\ \A i \in 1 .. n : \A j \in 1 .. m : c + j - 1 <= i => j <= i - c + 1
      /\ \A i \in 1 .. n : c <= i \/ i < c
  BY <1>3, EndPlaces
<1>5. Len(t) = m /\ \A j \in 1 .. m : t[j] = s[c + j - 1]  BY <1>2, <1>3
<1>6. \A a, b : Between(s, a, b) => Between(t, a, b)  BY <1>1, <1>4, <1>5 DEF Between
<1>7. CASE \A i \in 1 .. n : s[i][1] # k  BY <1>2, <1>4, <1>5, <1>6, <1>7 DEF HasLast, t
<1>8. CASE \E i \in 1 .. n : IsLast(s, k, i)
  <2>1. PICK i \in 1 .. n : s[i][1] = k /\ \A j \in 1 .. n : s[j][1] = k => j <= i
    BY <1>8, <1>1 DEF IsLast
  <2>2. \A j \in 1 .. m : t[j][1] = k => c + j - 1 <= i  BY <2>1, <1>4, <1>5
  <2>3. CASE i < c
    <3>1. \A j \in 1 .. m : t[j][1] # k
      <4> SUFFICES ASSUME NEW j \in 1 .. m, t[j][1] = k PROVE FALSE  OBVIOUS
      <4>1. c + j - 1 <= i /\ c <= c + j - 1  BY <2>2, <1>4
      <4> QED  BY <4>1, <2>3
    <3> QED  BY <3>1, <1>2, <1>5, <1>6 DEF HasLast, t
  <2>4. CASE c <= i
    <3>1. i - c + 1 \in 1 .. m /\ t[i - c + 1][1] = k  BY <2>1, <2>4, <1>4, <1>5
    <3>2. \A j \in 1 .. m : t[j][1] = k => j <= i - c + 1  BY <2>2, <1>4
    <3>3. IsLast(t, k, i - c + 1)  BY <3>1, <3>2, <1>5 DEF IsLast
    <3> QED  BY <3>1, <3>3, <1>2, <1>5, <1>6 DEF HasLast, t
  <2> QED  BY <2>3, <2>4, <1>4
<1> QED  BY <1>1, <1>7, <1>8 DEF HasLast

\* A sample that is appended is the last of its key and changes no other key's.
LEMMA SampleLast ==
  ASSUME NEW s \in Seq(Samples), NEW k \in KeySet, NEW v \in Nat,
         HasLast(s, "OVF"), HasLast(s, "RXF")
  PROVE  /\ Append(s, <<k, v>>) \in Seq(Samples)
         /\ HasLast(Append(s, <<k, v>>), "OVF") /\ HasLast(Append(s, <<k, v>>), "RXF")
         /\ k = "OVF" => Thr!Latest(Append(s, <<k, v>>))["OVF"] = v
         /\ k # "OVF" => Thr!Latest(Append(s, <<k, v>>))["OVF"] = Thr!Latest(s)["OVF"]
         /\ \A a, b : Between(s, a, b) /\ (k = "OVF" => a <= v /\ v <= b)
                        => Between(Append(s, <<k, v>>), a, b)
<1> DEFINE e == <<k, v>>
           t == Append(s, e)
<1>1. e \in Samples /\ e[1] = k /\ e[2] = v  BY DEF Samples
<1>2. /\ t \in Seq(Samples) /\ Len(t) = Len(s) + 1 /\ Len(s) \in Nat
      /\ t[Len(s) + 1] = e /\ \A i \in 1 .. Len(s) : t[i] = s[i]
  BY <1>1, AppendOf
<1>3. PICK n \in Nat : n = Len(s)  BY <1>2
<1> HIDE DEF e, t
<1>4. /\ t \in Seq(Samples) /\ Len(t) = n + 1 /\ t[n + 1][1] = k /\ t[n + 1][2] = v
      /\ \A i \in 1 .. n : t[i] = s[i]
      /\ \A i \in 1 .. n + 1 : i \in 1 .. n \/ i = n + 1
      /\ n + 1 \in 1 .. n + 1 /\ \A i \in 1 .. n : i \in 1 .. n + 1 /\ i <= n + 1
  BY <1>1, <1>2, <1>3
<1>5. IsLast(t, k, n + 1)  BY <1>4 DEF IsLast
<1>6. ASSUME NEW h, h # k, NEW i \in 1 .. n, IsLast(s, h, i)
      PROVE  IsLast(t, h, i)
  BY <1>6, <1>3, <1>4 DEF IsLast
<1>7. ASSUME NEW h \in KeySet, HasLast(s, h)
      PROVE  HasLast(t, h)
  <2>1. CASE h = k  BY <2>1, <1>4, <1>5 DEF HasLast
  <2>2. CASE h # k /\ \E i \in 1 .. n : IsLast(s, h, i)
    BY <2>2, <1>4, <1>6 DEF HasLast
  <2>3. CASE h # k /\ \A i \in 1 .. n : s[i][1] # h
    BY <2>3, <1>4 DEF HasLast
  <2> QED  BY <2>1, <2>2, <2>3, <1>3, <1>7 DEF HasLast
<1>8. k = "OVF" => Thr!Latest(t)["OVF"] = v
  BY <1>4, <1>5, LatestIs
<1>9. k # "OVF" => Thr!Latest(t)["OVF"] = Thr!Latest(s)["OVF"]
  <2> SUFFICES ASSUME k # "OVF" PROVE Thr!Latest(t)["OVF"] = Thr!Latest(s)["OVF"]
    OBVIOUS
  <2>0. "OVF" \in KeySet  BY DEF KeySet
  <2>1. CASE \E i \in 1 .. n : IsLast(s, "OVF", i)
    <3>1. PICK i \in 1 .. n : IsLast(s, "OVF", i)  BY <2>1
    <3>2. IsLast(t, "OVF", i) /\ t[i] = s[i] /\ i \in 1 .. Len(t)  BY <3>1, <1>4, <1>6
    <3>3. Thr!Latest(s)["OVF"] = s[i][2]  BY <2>0, <3>1, <1>3, LatestIs
    <3>4. Thr!Latest(t)["OVF"] = t[i][2]  BY <2>0, <3>2, <1>4, LatestIs
    <3> QED  BY <3>2, <3>3, <3>4
  <2>2. CASE \A i \in 1 .. n : s[i][1] # "OVF"
    <3>1. \A i \in 1 .. Len(t) : t[i][1] # "OVF"  BY <2>2, <1>4
    <3>2. Thr!Latest(s)["OVF"] = -1  BY <2>0, <2>2, <1>3, LatestNone
    <3>3. Thr!Latest(t)["OVF"] = -1  BY <2>0, <3>1, <1>4, LatestNone
    <3> QED  BY <3>2, <3>3
  <2> QED  BY <2>1, <2>2, <1>3 DEF HasLast
<1>10. \A a, b : Between(s, a, b) /\ (k = "OVF" => a <= v /\ v <= b) => Between(t, a, b)
  BY <1>3, <1>4 DEF Between
<1>11. HasLast(t, "OVF") /\ HasLast(t, "RXF")  BY <1>7 DEF KeySet
<1> QED  BY <1>4, <1>8, <1>9, <1>10, <1>11 DEF e, t
LEMMA ThrStarts == Thr!Init => ThrInv
<1> SUFFICES ASSUME Thr!Init PROVE ThrInv  OBVIOUS
<1>1. /\ thr_reg = [k \in KeySet |-> 0] /\ thr_at = 1 /\ thr_rd = -1 /\ samples = <<>>
      /\ thr_pc = "main" /\ thr_base = [k \in KeySet |-> -1] /\ final = [k \in KeySet |-> -1]
      /\ flying = 0 /\ garbled = 0 /\ misread = FALSE /\ ovf = 0 /\ due = 0 /\ dumped = "no"
  BY DEF Thr!Init, Thr!Missing, Thr!None, KeySet
<1>2. <<>> \in Seq(Samples)  OBVIOUS
<1>2a. misread \in BOOLEAN  BY <1>1
<1>2b. samples \in Seq(Samples)  BY <1>1, <1>2
<1>3. ThrTypes  BY <1>1, <1>2a, <1>2b, ThrAssumption DEF ThrTypes, KeySet
<1>4. HasLast(samples, "OVF") /\ HasLast(samples, "RXF")  BY <1>1 DEF HasLast
<1>5. Garbles /\ CountsFromBase /\ IsDue /\ ReadAfterSend /\ Result
  BY <1>1 DEF Garbles, CountsFromBase, InTest, IsDue, ReadAfterSend, Result
<1>6. StandsStill  BY <1>1 DEF StandsStill, Between, PrintsBetween
<1> QED  BY <1>3, <1>4, <1>5, <1>6 DEF ThrInv

\* The key of each line of a dump.
LEMMA LineKeys ==
  ASSUME ThrTypes
  PROVE  /\ Len(Thr!Keys) = 2 /\ Thr!Missing = -1
         /\ Thr!Keys[thr_at] \in KeySet /\ thr_reg[Thr!Keys[thr_at]] \in Nat
         /\ Thr!Keys[thr_at] = "OVF" <=> thr_at = 2
BY DEF ThrTypes, Thr!Keys, Thr!Missing, KeySet

\* What the dump leaves alone: the counters and the script.
ThrFrame == UNCHANGED <<thr_reg, thr_pc, thr_base, final, flying, ovf, due>>

\* The base of a sound test.
LEMMA SoundBase ==
  ASSUME ThrInv, InTest, Sound
  PROVE  /\ thr_base["OVF"] \in Nat /\ thr_base["OVF"] <= ThrSat
         /\ thr_reg["OVF"] = Counted(thr_base["OVF"], ovf)
         /\ DueNow \in Nat /\ DueNow <= thr_reg["OVF"] /\ thr_base["OVF"] <= DueNow
<1>1. /\ thr_base["OVF"] \in Nat \cup {-1} /\ ovf \in Nat /\ due \in Nat /\ due <= ovf
  BY DEF ThrInv, ThrTypes, KeySet, IsDue
<1>2. thr_reg["OVF"] = Counted(thr_base["OVF"], ovf) /\ thr_base["OVF"] <= ThrSat
  BY DEF ThrInv, CountsFromBase
<1>3. thr_base["OVF"] \in Nat  BY <1>1 DEF Sound
<1> QED  BY <1>1, <1>2, <1>3, CountedUp DEF DueNow

\* The board reads a counter: it stands where the others that are printed stand.
LEMMA ThrReads == ThrInv /\ Thr!DumpRead => ThrInv'
<1> SUFFICES ASSUME ThrInv, Thr!DumpRead PROVE ThrInv'  OBVIOUS
<1>1. ThrTypes /\ ThrFrame /\ UNCHANGED <<samples, garbled, misread, thr_at>>
  BY DEF Thr!DumpRead, Thr!tool, Thr!line, ThrFrame, ThrInv
<1>2. /\ thr_pc # "main" /\ thr_rd' \in Nat
      /\ thr_at = 2 => thr_rd' = thr_reg["OVF"]
      /\ dumped' = IF thr_pc = "settle" /\ thr_at = 2 /\ dumped = "no" THEN "read" ELSE dumped
      /\ thr_rd = -1
  BY <1>1, LineKeys DEF Thr!DumpRead, ThrTypes
<1>3. thr_reg["OVF"] \in Nat  BY <1>1 DEF ThrTypes, KeySet
<1>4. ThrTypes'  BY <1>1, <1>2 DEF ThrTypes, ThrFrame
<1>5. StandsStill' /\ Garbles'
  BY <1>1, <1>2, <1>3 DEF ThrInv, StandsStill, Garbles, ThrFrame, PrintsBetween
<1>6. Sound' = Sound /\ DueNow' = DueNow /\ InTest' = InTest
  BY <1>1 DEF Sound, DueNow, InTest, ThrFrame
<1>7. CountsFromBase'
  <2> SUFFICES ASSUME InTest, Sound PROVE CountsFromBase'
    BY <1>6 DEF CountsFromBase
  <2>1. /\ thr_reg["OVF"] = Counted(thr_base["OVF"], ovf) /\ thr_base["OVF"] <= ThrSat
        /\ Between(samples, thr_base["OVF"], thr_reg["OVF"])
    BY DEF ThrInv, CountsFromBase
  <2>2. /\ thr_base["OVF"] \in Nat /\ DueNow \in Nat /\ thr_base["OVF"] <= DueNow
        /\ DueNow <= thr_reg["OVF"]
    BY SoundBase
  <2>3. PICK b \in Nat, w \in Nat : b = thr_base["OVF"] /\ w = thr_reg["OVF"]  BY <2>2, <1>3
  <2>4. b <= w  BY <2>2, <2>3
  <2>5. PrintsBetween(b, w)'
    BY <1>1, <1>2, <2>3, <2>4 DEF PrintsBetween
  <2> QED  BY <1>1, <2>1, <2>3, <2>5 DEF CountsFromBase, ThrFrame, PrintsBetween
<1>8. ReadAfterSend'
  <2>1. Sound /\ thr_pc = "settle" => PrintsDue'
    <3> SUFFICES ASSUME Sound, thr_pc = "settle", thr_at = 2 PROVE DueNow <= thr_rd'
      BY <1>1, <1>6 DEF PrintsDue
    <3>1. InTest  BY DEF InTest
    <3> QED  BY <3>1, SoundBase, <1>2
  <2>2. thr_pc' = thr_pc  BY <1>1 DEF ThrFrame
  <2>3. dumped = "read" => thr_pc # "settle"  BY <1>2 DEF ThrInv, ReadAfterSend
  <2>4. thr_pc = "settle" /\ dumped' = "read" => thr_rd' # -1 /\ thr_at' = 2
    BY <1>1, <1>2, <2>3
  <2>5. thr_pc = "send" => dumped' = "no"  BY <1>2 DEF ThrInv, ReadAfterSend
  <2>6. (thr_pc = "settle" /\ Sound /\ dumped' = "printed" /\ garbled' = 0) =>
          DueNow <= Thr!Latest(samples')["OVF"]
    BY <1>1, <1>2 DEF ThrInv, ReadAfterSend
  <2> QED  BY <1>6, <2>1, <2>2, <2>4, <2>5, <2>6 DEF ReadAfterSend
<1>9. IsDue' /\ Result'
  BY <1>1, <1>2, <1>6 DEF ThrInv, IsDue, Result, ThrFrame, Thr!Verdict
<1> QED  BY <1>1, <1>4, <1>5, <1>7, <1>8, <1>9 DEF ThrInv

\* The parts that only name the counters, the script and the list.
LEMMA ThrFramed ==
  ASSUME ThrInv, ThrFrame, thr_rd' = -1, samples' \in Seq(Samples),
         HasLast(samples, "OVF")', HasLast(samples, "RXF")',
         thr_at' \in {1, 2}, garbled' \in Nat, garbled' = 0 => garbled = 0,
         misread' \in BOOLEAN, misread => misread', misread' => garbled' # 0,
         dumped' = IF dumped = "read" THEN "printed" ELSE dumped, thr_rd # -1,
         ~misread' =>
           \A a, b : Between(samples, a, b) /\ PrintsBetween(a, b) => Between(samples', a, b),
         (dumped' = "printed" /\ thr_pc = "settle" /\ Sound /\ garbled' = 0) =>
           DueNow <= Thr!Latest(samples')["OVF"]
  PROVE  ThrInv'
<1>1. ThrTypes'  BY DEF ThrInv, ThrTypes, ThrFrame
<1>2. StandsStill' /\ Garbles'
  BY DEF ThrInv, StandsStill, Garbles, ThrFrame, PrintsBetween
<1>3. (Sound' => Sound) /\ DueNow' = DueNow /\ InTest' = InTest
  BY DEF Sound, DueNow, InTest, ThrFrame
<1>4. CountsFromBase'
  BY <1>3 DEF ThrInv, CountsFromBase, ThrFrame, PrintsBetween, Sound
<1>5. ReadAfterSend'
  BY <1>3 DEF ThrInv, ReadAfterSend, ThrFrame, PrintsDue, ThrTypes
<1>6. IsDue'  BY DEF ThrInv, IsDue, ThrFrame
<1>7. Result'  BY <1>3 DEF ThrInv, Result, ThrFrame, Thr!Verdict
<1> QED  BY <1>1, <1>2, <1>4, <1>5, <1>6, <1>7 DEF ThrInv

\* What ends a line.
LEMMA ThrLine ==
  ASSUME ThrInv, Thr!Step
  PROVE  /\ ThrFrame /\ thr_rd' = -1 /\ thr_at' \in {1, 2}
         /\ dumped' = IF dumped = "read" THEN "printed" ELSE dumped
<1>1. ThrTypes  BY DEF ThrInv
<1>2. Len(Thr!Keys) = 2  BY <1>1, LineKeys
<1> QED  BY <1>1, <1>2 DEF Thr!Step, Thr!tool, Thr!Missing, ThrTypes, ThrFrame

\* A line that the monitor matches is a sample.
LEMMA ThrPrints == ThrInv /\ Thr!DumpPrint => ThrInv'
<1> SUFFICES ASSUME ThrInv, Thr!DumpPrint PROVE ThrInv'  OBVIOUS
<1>1. /\ Thr!Step /\ UNCHANGED <<garbled, misread>> /\ thr_rd # -1
      /\ thr_pc \in {"warmup", "send", "settle"}
      /\ samples' = Append(samples, <<Thr!Keys[thr_at], thr_rd>>)
  BY DEF Thr!DumpPrint, Thr!Missing, Thr!line
<1>2. /\ ThrTypes /\ HasLast(samples, "OVF") /\ HasLast(samples, "RXF") /\ ReadAfterSend
      /\ Garbles
  BY DEF ThrInv
<1>3. ThrFrame /\ thr_rd' = -1 /\ thr_at' \in {1, 2}
      /\ dumped' = IF dumped = "read" THEN "printed" ELSE dumped
  BY <1>1, ThrLine
<1>4. PICK k \in KeySet : k = Thr!Keys[thr_at]  BY <1>2, LineKeys
<1>5. k = "OVF" <=> thr_at = 2  BY <1>2, <1>4, LineKeys
<1>6. thr_rd \in Nat /\ samples \in Seq(Samples)  BY <1>1, <1>2 DEF ThrTypes
<1>7. samples' = Append(samples, <<k, thr_rd>>)  BY <1>1, <1>4
<1>8. /\ samples' \in Seq(Samples)
      /\ HasLast(samples', "OVF") /\ HasLast(samples', "RXF")
      /\ k = "OVF" => Thr!Latest(samples')["OVF"] = thr_rd
      /\ k # "OVF" => Thr!Latest(samples')["OVF"] = Thr!Latest(samples)["OVF"]
      /\ \A a, b : Between(samples, a, b) /\ (k = "OVF" => a <= thr_rd /\ thr_rd <= b)
                     => Between(samples', a, b)
  BY <1>2, <1>6, <1>7, SampleLast
<1>9. \A a, b : Between(samples, a, b) /\ PrintsBetween(a, b) => Between(samples', a, b)
  BY <1>1, <1>5, <1>8 DEF PrintsBetween
<1>10. ASSUME dumped' = "printed", thr_pc = "settle", Sound, garbled' = 0
       PROVE  DueNow <= Thr!Latest(samples')["OVF"]
  <2>1. dumped # "no" /\ garbled = 0  BY <1>1, <1>3, <1>10
  <2>2. PrintsDue  BY <2>1, <1>2, <1>10 DEF ReadAfterSend
  <2>3. CASE k = "OVF"  BY <2>2, <2>3, <1>1, <1>5, <1>8 DEF PrintsDue
  <2>4. CASE k # "OVF"
    <3>1. dumped = "printed"  BY <2>4, <1>2, <1>3, <1>5, <1>10 DEF ReadAfterSend
    <3> QED  BY <3>1, <2>1, <2>4, <1>2, <1>8, <1>10 DEF ReadAfterSend
  <2> QED  BY <2>3, <2>4
<1>11. garbled' \in Nat /\ (garbled' = 0 => garbled = 0) /\ misread' \in BOOLEAN
       /\ (misread => misread') /\ (misread' => garbled' # 0)
  BY <1>1, <1>2 DEF ThrTypes, Garbles
<1> QED  BY <1>1, <1>3, <1>8, <1>9, <1>10, <1>11, ThrFramed

\* A garbled line is none, or is any.
LEMMA ThrGarbles == ThrInv /\ Thr!DumpGarbled => ThrInv'
<1> SUFFICES ASSUME ThrInv, Thr!DumpGarbled PROVE ThrInv'  OBVIOUS
<1>1. /\ Thr!Step /\ thr_rd # -1 /\ garbled' = garbled + 1
      /\ \/ UNCHANGED <<samples, misread>>
         \/ /\ \E k \in KeySet, v \in 0 .. ThrSat : samples' = Append(samples, <<k, v>>)
            /\ misread' = TRUE
  <2>1. Thr!ToSet(Thr!Keys) = KeySet  BY DEF Thr!ToSet, Thr!Keys, KeySet
  <2> QED  BY <2>1 DEF Thr!DumpGarbled, Thr!Missing
<1>2. /\ ThrTypes /\ HasLast(samples, "OVF") /\ HasLast(samples, "RXF")
  BY DEF ThrInv
<1>3. ThrFrame /\ thr_rd' = -1 /\ thr_at' \in {1, 2}
      /\ dumped' = IF dumped = "read" THEN "printed" ELSE dumped
  BY <1>1, ThrLine
<1>4. garbled' \in Nat /\ garbled' # 0  BY <1>1, <1>2 DEF ThrTypes
<1>5. misread' \in BOOLEAN /\ (misread => misread')  BY <1>1, <1>2 DEF ThrTypes
<1>6. samples' \in Seq(Samples) /\ HasLast(samples', "OVF") /\ HasLast(samples', "RXF")
  <2>1. CASE UNCHANGED <<samples, misread>>  BY <2>1, <1>2 DEF ThrTypes
  <2>2. CASE \E k \in KeySet, v \in 0 .. ThrSat : samples' = Append(samples, <<k, v>>)
    <3>1. PICK k \in KeySet, v \in 0 .. ThrSat : samples' = Append(samples, <<k, v>>)
      BY <2>2
    <3>2. v \in Nat /\ samples \in Seq(Samples)  BY <1>2, ThrAssumption DEF ThrTypes
    <3> QED  BY <3>1, <3>2, <1>2, SampleLast
  <2> QED  BY <2>1, <2>2, <1>1
<1>7. ~misread' =>
        \A a, b : Between(samples, a, b) /\ PrintsBetween(a, b) => Between(samples', a, b)
  BY <1>1
<1> QED  BY <1>1, <1>3, <1>4, <1>5, <1>6, <1>7, ThrFramed

\* main opens the port.
LEMMA ThrOpens == ThrInv /\ (Thr!NoPort \/ \E n \in 0 .. ThrSat : Thr!Main(n)) => ThrInv'
<1>1. ThrInv /\ Thr!NoPort => ThrInv'
  BY DEF ThrInv, Thr!NoPort, Thr!board, Thr!line, Thr!ghost, ThrTypes, Garbles, StandsStill,
         CountsFromBase, InTest, IsDue, ReadAfterSend, Result
<1>2. ASSUME ThrInv, NEW n \in 0 .. ThrSat, Thr!Main(n) PROVE ThrInv'
  <2>1. /\ thr_pc = "main" /\ thr_pc' = "warmup" /\ thr_reg' = [thr_reg EXCEPT !["OVF"] = n]
        /\ UNCHANGED <<thr_at, thr_rd, samples, thr_base, final, flying, garbled, misread, ovf,
                       due, dumped>>
    BY <1>2 DEF Thr!Main, Thr!line, Thr!ghost
  <2>2. ThrTypes /\ samples = <<>> /\ thr_rd = -1 /\ ovf = 0 /\ dumped = "no" /\ flying = 0
    BY <1>2, <2>1 DEF ThrInv, StandsStill
  <2>3. thr_reg' \in [KeySet -> Nat] /\ thr_reg'["OVF"] = n /\ n \in Nat /\ n <= ThrSat
    BY <2>1, <2>2, ThrAssumption DEF ThrTypes, KeySet
  <2>4. ThrTypes'  BY <2>1, <2>2, <2>3 DEF ThrTypes
  <2> QED
    BY <1>2, <2>1, <2>2, <2>3, <2>4 DEF ThrInv, HasLast, Garbles, StandsStill, Between,
       PrintsBetween, CountsFromBase, InTest, IsDue, ReadAfterSend, Result
<1> QED  BY <1>1, <1>2

\* The baseline is a value the counter had, and it has not moved since.
LEMMA ThrBaseline == ThrInv /\ Thr!Baseline => ThrInv'
<1> SUFFICES ASSUME ThrInv, Thr!Baseline PROVE ThrInv'  OBVIOUS
<1>1. /\ thr_pc = "warmup" /\ thr_pc' = "send" /\ thr_base' = Thr!LastEight(samples)
      /\ UNCHANGED <<thr_reg, thr_at, thr_rd, samples, final, flying, garbled, misread, ovf, due,
                     dumped>>
  BY DEF Thr!Baseline, Thr!board, Thr!line, Thr!ghost
<1>2. /\ ThrTypes /\ HasLast(samples, "OVF") /\ HasLast(samples, "RXF") /\ Garbles /\ IsDue
      /\ ~misread => Between(samples, thr_reg["OVF"], thr_reg["OVF"])
      /\ PrintsBetween(thr_reg["OVF"], thr_reg["OVF"])
      /\ ovf = 0 /\ dumped = "no"
  BY <1>1 DEF ThrInv, StandsStill
<1>3. samples \in Seq(Samples) /\ thr_reg["OVF"] \in Nat /\ thr_reg["OVF"] <= ThrSat
  BY <1>2 DEF ThrTypes, KeySet
<1>4. PICK n \in Nat : n = Len(samples)  BY <1>3
<1>5. \E t \in Seq(Samples) :
        /\ thr_base' = Thr!Latest(t) /\ HasLast(t, "OVF") /\ HasLast(t, "RXF")
        /\ ~misread => Between(t, thr_reg["OVF"], thr_reg["OVF"])
  <2>1. CASE n > Recent
    <3>1. n - Recent + 1 \in 1 .. n \/ Recent = 0  BY <2>1, ThrAssumption
    <3>2. thr_base' = Thr!Latest(SubSeq(samples, n - Recent + 1, n))
      BY <1>1, <1>4, <2>1 DEF Thr!LastEight
    <3>3. CASE Recent = 0
      <4>1. SubSeq(samples, n - Recent + 1, n) = <<>>
        BY <3>3, <1>3, <1>4, SubSeqProperties
      <4>2. thr_base' = Thr!Latest(<<>>)  BY <4>1, <3>2
      <4>3. /\ <<>> \in Seq(Samples) /\ HasLast(<<>>, "OVF") /\ HasLast(<<>>, "RXF")
            /\ Between(<<>>, thr_reg["OVF"], thr_reg["OVF"])
        BY DEF HasLast, Between
      <4> QED  BY <4>2, <4>3
    <3>4. CASE n - Recent + 1 \in 1 .. n
      BY <3>2, <3>4, <1>2, <1>3, <1>4, RecentLast
    <3> QED  BY <3>1, <3>3, <3>4
  <2>2. CASE ~(n > Recent)
    <3>1. thr_base' = Thr!Latest(samples)  BY <1>1, <1>4, <2>2 DEF Thr!LastEight
    <3> QED  BY <3>1, <1>2, <1>3
  <2> QED  BY <2>1, <2>2
<1>6. thr_base' \in [KeySet -> Nat \cup {-1}]  BY <1>5, LatestType
<1>7. ~misread /\ thr_base'["OVF"] # -1 => thr_base'["OVF"] = thr_reg["OVF"]
  <2>1. PICK t \in Seq(Samples) :
          /\ thr_base' = Thr!Latest(t) /\ HasLast(t, "OVF")
          /\ ~misread => Between(t, thr_reg["OVF"], thr_reg["OVF"])
    BY <1>5
  <2>2. ~misread /\ thr_base'["OVF"] # -1 => /\ thr_base'["OVF"] \in Nat
                                             /\ thr_reg["OVF"] <= thr_base'["OVF"]
                                             /\ thr_base'["OVF"] <= thr_reg["OVF"]
    BY <2>1, <1>3, LatestWithin
  <2> QED  BY <2>2, <1>3
<1>8. ThrTypes'  BY <1>1, <1>2, <1>6 DEF ThrTypes
<1>9. CountsFromBase'
  BY <1>1, <1>2, <1>3, <1>7, ThrAssumption DEF CountsFromBase, Counted, PrintsBetween, Sound
<1>10. Garbles' /\ IsDue'  BY <1>1, <1>2 DEF Garbles, IsDue
<1> QED
  BY <1>1, <1>2, <1>8, <1>9, <1>10 DEF ThrInv, StandsStill, ReadAfterSend, Result, ThrTypes

\* A packet is sent, or the sender's time is over: the board has counted nothing.
LEMMA ThrSends == ThrInv /\ (Thr!Send \/ Thr!SendEnds) => ThrInv'
<1> SUFFICES ASSUME ThrInv, Thr!Send \/ Thr!SendEnds PROVE ThrInv'  OBVIOUS
<1>1. /\ thr_pc = "send" /\ thr_pc' \in {"send", "settle"} /\ flying' \in {flying, flying + 1}
      /\ UNCHANGED <<thr_reg, thr_at, thr_rd, samples, thr_base, final, garbled, misread, ovf, due,
                     dumped>>
  BY DEF Thr!Send, Thr!SendEnds, Thr!board, Thr!line, Thr!ghost
<1>2. ThrTypes /\ dumped = "no" /\ InTest  BY <1>1 DEF ThrInv, ReadAfterSend, InTest
<1>3. ThrTypes'
  <2>1. flying' \in Nat  BY <1>1, <1>2 DEF ThrTypes
  <2> QED  BY <2>1, <1>1, <1>2 DEF ThrTypes
<1>4. Sound' = Sound  BY <1>1 DEF Sound
<1>5. CountsFromBase'
  BY <1>1, <1>2, <1>4 DEF ThrInv, CountsFromBase, PrintsBetween
<1>6. Garbles' /\ IsDue' /\ StandsStill' /\ ReadAfterSend' /\ Result'
  BY <1>1, <1>2 DEF ThrInv, Garbles, IsDue, StandsStill, ReadAfterSend, Result
<1> QED  BY <1>1, <1>3, <1>5, <1>6 DEF ThrInv

\* A packet reaches the board, perhaps after the sender has ended.
LEMMA ThrArrives == ThrInv /\ Thr!Arrive => ThrInv'
<1> SUFFICES ASSUME ThrInv, Thr!Arrive PROVE ThrInv'  OBVIOUS
<1>1. /\ flying > 0 /\ flying' = flying - 1
      /\ UNCHANGED <<thr_pc, thr_at, thr_rd, samples, thr_base, final, garbled, misread, dumped>>
  BY DEF Thr!Arrive, Thr!tool, Thr!line
<1>2. ThrTypes /\ CountsFromBase /\ IsDue /\ ReadAfterSend /\ Result /\ Garbles
  BY DEF ThrInv
<1>3. thr_pc \notin {"main", "warmup"}
  <2>1. flying # 0  BY <1>1, <1>2 DEF ThrTypes
  <2> QED  BY <2>1 DEF ThrInv, StandsStill
<1>4. PICK v \in Nat : v = thr_reg["OVF"]  BY <1>2 DEF ThrTypes, KeySet
<1>5. PICK o \in Nat, d \in Nat : o = ovf /\ d = due  BY <1>2 DEF ThrTypes
<1>6. /\ thr_reg' \in [KeySet -> Nat]
      /\ \/ thr_reg'["OVF"] = v /\ ovf' = o /\ due' = d
         \/ /\ thr_reg'["OVF"] = (IF v = ThrSat THEN v ELSE v + 1) /\ ovf' = o + 1
            /\ due' = IF dumped = "no" THEN d + 1 ELSE d
  BY <1>2, <1>4, <1>5 DEF Thr!Arrive, Thr!SatInc, ThrTypes, KeySet
<1>7. PICK w \in Nat : w = thr_reg'["OVF"] /\ v <= w /\ w <= ThrSat
  BY <1>2, <1>4, <1>6, ThrAssumption DEF ThrTypes
<1>8. d <= o /\ (dumped = "no" => d = o)  BY <1>2, <1>5 DEF IsDue
<1>9. /\ ovf' \in Nat /\ due' \in Nat /\ due' <= ovf' /\ (dumped = "no" => due' = ovf')
      /\ dumped # "no" => due' = d
  BY <1>6, <1>8
<1>10. ThrTypes'
  <2>1. flying' \in Nat  BY <1>1, <1>2 DEF ThrTypes
  <2> QED  BY <2>1, <1>1, <1>2, <1>6, <1>7, <1>9 DEF ThrTypes
<1>11. Garbles' /\ IsDue'  BY <1>1, <1>2, <1>9 DEF Garbles, IsDue
<1>12. Sound' = Sound /\ InTest' = InTest  BY <1>1 DEF Sound, InTest
<1>13. CountsFromBase'
  <2> SUFFICES ASSUME InTest, Sound PROVE CountsFromBase'  BY <1>12 DEF CountsFromBase
  <2>1. PICK b \in Nat : b = thr_base["OVF"] /\ b <= ThrSat
    BY <1>2 DEF ThrTypes, KeySet, Sound, CountsFromBase
  <2>2. v = Counted(b, o) /\ Between(samples, b, v) /\ PrintsBetween(b, v)
    BY <1>2, <1>4, <1>5, <2>1 DEF CountsFromBase
  <2>3. w = Counted(b, ovf')
    <3>1. CASE w = v /\ ovf' = o  BY <3>1, <2>2
    <3>2. CASE w = (IF v = ThrSat THEN v ELSE v + 1) /\ ovf' = o + 1
      <4>1. Counted(b, o + 1) = IF Counted(b, o) = ThrSat THEN ThrSat ELSE Counted(b, o) + 1
        BY <2>1, CountedUp
      <4> QED  BY <4>1, <3>2, <2>2
    <3> QED  BY <3>1, <3>2, <1>6, <1>7
  <2>4. PrintsBetween(b, w)'
    <3>1. thr_rd \in Nat \cup {-1}  BY <1>2 DEF ThrTypes
    <3> QED  BY <2>2, <1>7, <3>1, <1>1 DEF PrintsBetween
  <2>5. Between(samples, b, w)
    <3>1. \A i \in 1 .. Len(samples) : samples[i][2] \in Nat
      <4> TAKE i \in 1 .. Len(samples)
      <4>1. samples[i] \in Samples  BY <1>2 DEF ThrTypes
      <4> QED  BY <4>1 DEF Samples
    <3> QED  BY <2>2, <1>7, <3>1 DEF Between
  <2> QED  BY <1>1, <1>7, <2>1, <2>3, <2>4, <2>5 DEF CountsFromBase, PrintsBetween
<1>14. StandsStill'  BY <1>1, <1>3 DEF StandsStill
<1>15. dumped # "no" => DueNow' = DueNow  BY <1>1, <1>5, <1>9 DEF DueNow
<1>16. ReadAfterSend'
  BY <1>1, <1>2, <1>12, <1>15 DEF ReadAfterSend, PrintsDue
<1>17. Result'
  <2>1. thr_pc \in {"judge", "exit0", "exit1"} => dumped = "printed"  BY <1>2 DEF Result
  <2>2. ASSUME thr_pc \in {"judge", "exit0", "exit1"}, Sound, final["OVF"] # -1
        PROVE  thr_base["OVF"] <= final["OVF"] /\ final["OVF"] <= thr_reg'["OVF"]
    <3>1. thr_base["OVF"] <= final["OVF"] /\ final["OVF"] <= v  BY <1>2, <1>4, <2>2 DEF Result
    <3>2. final["OVF"] \in Nat  BY <1>2, <2>2 DEF ThrTypes, KeySet
    <3>3. PICK f \in Nat : f = final["OVF"]  BY <3>2
    <3>4. f <= w  BY <3>1, <3>3, <1>7
    <3> QED  BY <3>1, <3>3, <3>4, <1>7
  <2>3. Thr!Verdict' = Thr!Verdict  BY <1>1 DEF Thr!Verdict
  <2> QED  BY <2>1, <2>2, <2>3, <1>1, <1>2, <1>12, <1>15 DEF Result
<1> QED  BY <1>1, <1>2, <1>10, <1>11, <1>13, <1>14, <1>16, <1>17 DEF ThrInv

\* The last samples are taken once the counter was printed again.
LEMMA ThrFinishes == ThrInv /\ Thr!Finish => ThrInv'
<1> SUFFICES ASSUME ThrInv, Thr!Finish PROVE ThrInv'  OBVIOUS
<1>1. /\ thr_pc = "settle" /\ dumped = "printed" /\ thr_pc' = "judge"
      /\ final' = Thr!Latest(samples)
      /\ UNCHANGED <<thr_reg, thr_at, thr_rd, samples, thr_base, flying, garbled, misread, ovf,
                     due, dumped>>
  BY DEF Thr!Finish, Thr!Settled, Thr!board, Thr!line, Thr!ghost
<1>2. /\ ThrTypes /\ HasLast(samples, "OVF") /\ HasLast(samples, "RXF") /\ Garbles /\ IsDue
      /\ CountsFromBase /\ ReadAfterSend /\ InTest
  BY <1>1 DEF ThrInv, InTest
<1>3. samples \in Seq(Samples) /\ thr_reg["OVF"] \in Nat
      /\ thr_base["OVF"] \in Nat \cup {-1}
  BY <1>2 DEF ThrTypes, KeySet
<1>4. final' \in [KeySet -> Nat \cup {-1}]  BY <1>1, <1>2, <1>3, LatestType
<1>5. Sound' = Sound /\ DueNow' = DueNow  BY <1>1 DEF Sound, DueNow
<1>6. Sound /\ garbled = 0 => DueNow <= final'["OVF"]  BY <1>1, <1>2 DEF ReadAfterSend
<1>7. Sound /\ final'["OVF"] # -1 =>
        thr_base["OVF"] <= final'["OVF"] /\ final'["OVF"] <= thr_reg["OVF"]
  <2> SUFFICES ASSUME Sound, final'["OVF"] # -1
               PROVE  thr_base["OVF"] <= final'["OVF"] /\ final'["OVF"] <= thr_reg["OVF"]
    OBVIOUS
  <2>1. thr_base["OVF"] \in Nat /\ Between(samples, thr_base["OVF"], thr_reg["OVF"])
    BY <1>2, <1>3 DEF CountsFromBase, Sound
  <2> QED  BY <2>1, <1>1, <1>2, <1>3, LatestWithin
<1>8. ThrTypes'  BY <1>1, <1>2, <1>4 DEF ThrTypes
<1>9. Result'  BY <1>1, <1>5, <1>6, <1>7 DEF Result
<1>10. CountsFromBase'  BY <1>1, <1>2, <1>5 DEF CountsFromBase, PrintsBetween
<1>11. Garbles' /\ IsDue' /\ StandsStill' /\ ReadAfterSend'
  BY <1>1, <1>2 DEF Garbles, IsDue, StandsStill, ReadAfterSend
<1> QED  BY <1>1, <1>2, <1>8, <1>9, <1>10, <1>11 DEF ThrInv

\* The parts that the verdict does not move.
LEMMA ThrRests == ThrInv /\ (Thr!Judge \/ UNCHANGED Thr!vars) => ThrInv'
<1> SUFFICES ASSUME ThrInv, Thr!Judge \/ UNCHANGED Thr!vars PROVE ThrInv'  OBVIOUS
<1>1. /\ UNCHANGED <<thr_reg, thr_at, thr_rd, samples, thr_base, final, flying, garbled, misread,
                     ovf, due, dumped>>
      /\ \/ thr_pc' = thr_pc
         \/ thr_pc = "judge" /\ thr_pc' = IF Thr!Verdict THEN "exit1" ELSE "exit0"
  BY DEF Thr!Judge, Thr!vars, Thr!board, Thr!tool, Thr!line, Thr!ghost
<1>2. Sound' = Sound /\ DueNow' = DueNow /\ Thr!Verdict' = Thr!Verdict /\ InTest' = InTest
  BY <1>1 DEF Sound, DueNow, Thr!Verdict, InTest
<1>3. ThrTypes'  BY <1>1 DEF ThrInv, ThrTypes
<1>4. CountsFromBase'  BY <1>1, <1>2 DEF ThrInv, CountsFromBase, PrintsBetween
<1>5. Garbles' /\ IsDue' /\ StandsStill'
  BY <1>1 DEF ThrInv, Garbles, IsDue, StandsStill, PrintsBetween
<1>6. ReadAfterSend'  BY <1>1, <1>2 DEF ThrInv, ReadAfterSend, PrintsDue
<1>7. Result'  BY <1>1, <1>2 DEF ThrInv, Result
<1> QED  BY <1>1, <1>3, <1>4, <1>5, <1>6, <1>7 DEF ThrInv

\* The script of the whole runs as the script alone.
LEMMA ThrRuns == Spec => Thr!Spec
<1>1. Init => Thr!Init
  BY DEF Init
<1>2. [Next]_allVars => [Thr!Next]_(Thr!vars)
  BY DEF Next, allVars, RunSfp, RunPause, RunStats, RunLb, RunUart, RunThr, RunReg, thrVars,
         Thr!vars, Thr!board, Thr!tool, Thr!line, Thr!ghost
<1> QED  BY <1>1, <1>2, PTL DEF Spec, Thr!Spec

\* The verdict is about the overflows of its own test (udp_throughput.py 87-95, 193-250), for
\* any number of packets, dumps and garbled lines, any width of the counter and any value it
\* held before.  With a baseline: a failure, unless a garbled line was taken for a sample, is
\* an overflow of this test; and a pass, when no line was garbled and the counter had room,
\* that no packet had overflowed when the board next read its counter after the sender had
\* ended.  A packet that arrives after that is excluded.
THEOREM OverflowIsOwn == Spec => []OverflowVerdict
<1>1. ThrInv /\ [Thr!Next]_(Thr!vars) => ThrInv'
  <2> SUFFICES ASSUME ThrInv, [Thr!Next]_(Thr!vars) PROVE ThrInv'  OBVIOUS
  <2>1. CASE Thr!Next
    BY <2>1, ThrArrives, ThrReads, ThrPrints, ThrGarbles, ThrOpens, ThrBaseline, ThrSends,
       ThrFinishes, ThrRests DEF Thr!Next
  <2>2. CASE UNCHANGED Thr!vars  BY <2>2, ThrRests
  <2> QED  BY <2>1, <2>2
<1>2. ThrInv => OverflowVerdict
  <2> SUFFICES ASSUME ThrInv, thr_base["OVF"] # -1, thr_pc \in {"exit0", "exit1"}, ~misread
               PROVE  /\ thr_pc = "exit1" => ovf > 0
                      /\ (thr_pc = "exit0" /\ garbled = 0 /\ thr_base["OVF"] < ThrSat) => due = 0
    BY DEF OverflowVerdict, Thr!OverflowVerdict, Thr!Missing, ThrInv, Garbles
  <2>1. Sound /\ InTest  BY DEF Sound, InTest
  <2>2. PICK b \in Nat : b = thr_base["OVF"] /\ b <= ThrSat /\ thr_reg["OVF"] = Counted(b, ovf)
    BY <2>1, SoundBase
  <2>3. PICK o \in Nat, d \in Nat, f \in Nat \cup {-1} : o = ovf /\ d = due /\ f = final["OVF"]
    BY DEF ThrInv, ThrTypes, KeySet
  <2>4. /\ thr_pc = "exit1" => f # -1 /\ f # b
        /\ thr_pc = "exit0" => ~(f # -1 /\ f # b)
        /\ garbled = 0 => Counted(b, d) <= f
        /\ f # -1 => b <= f /\ f <= Counted(b, o)
    BY <2>1, <2>2, <2>3 DEF ThrInv, Result, DueNow, Thr!Verdict, Thr!Missing
  <2>5. thr_pc = "exit1" => o > 0
    <3> SUFFICES ASSUME thr_pc = "exit1", o = 0 PROVE FALSE  BY <2>3
    <3>1. Counted(b, 0) = b  BY <2>2, ThrAssumption DEF Counted
    <3> QED  BY <3>1, <2>2, <2>4
  <2>6. (thr_pc = "exit0" /\ garbled = 0 /\ b < ThrSat) => d = 0
    <3> SUFFICES ASSUME thr_pc = "exit0", garbled = 0, b < ThrSat PROVE d = 0  OBVIOUS
    <3>1. Counted(b, d) \in Nat /\ b <= Counted(b, d) /\ (Counted(b, d) = b => d = 0)
      BY <2>2, CountedUp
    <3>2. f # -1  BY <3>1, <2>4
    <3>3. f = b  BY <3>2, <2>4
    <3>4. Counted(b, d) <= b  BY <3>3, <2>4
    <3> QED  BY <3>1, <3>4
  <2> QED  BY <2>2, <2>3, <2>5, <2>6
<1> QED  BY <1>1, <1>2, ThrStarts, ThrRuns, PTL DEF Thr!Spec
-----------------------------------------------------------------------------
(* The counters of the benchmark.                                           *)

Counters == [1 .. 3 -> Nat]

\* What the counters, the totals, the fold and the benchmark are made of.
StatsTypes ==
  /\ stats_reg \in Counters /\ acc \in Counters /\ stats_got \in Counters
  /\ stats_lost \in Counters /\ stats_base.lost \in Counters
  /\ if_tx \in Nat /\ if_rx \in Nat /\ in_tx \in Nat /\ in_rx \in Nat
  /\ dropped \in Nat /\ stats_base.dropped \in Nat
  /\ lock \in {"free", "snap", "fold"} /\ fpc \in {"idle", "scan", "fold"}
  /\ fold \in SUBSET {1, 2} /\ stats_fi \in 0 .. 3 /\ (fpc = "scan" => stats_fi # 0)
  /\ stats_pc \in {"next", "snap1", "iperf", "traffic", "settled", "snap2", "accounting",
                   "judged", "exit0", "exit1", "raised"}

\* Who holds the lock.
Locked ==
  /\ lock = "snap" <=> stats_pc \in {"snap1", "snap2"}
  /\ lock = "fold" <=> fpc # "idle"

\* What the fold has read and not cleared is of the group it is at, and at most what the
\* counter stands at.
FoldHolds ==
  /\ \A i \in 1 .. 3 : stats_got[i] <= stats_reg[i]
  /\ (fpc # "fold" \/ fold = {}) => \A i \in 1 .. 3 : stats_got[i] = 0
  /\ (fpc = "fold" /\ fold # {}) =>
       \A i \in 1 .. 3 : (i <= stats_fi \/ i \notin Stats!Groups[Stats!TheGroup])
                            => stats_got[i] = 0

\* What counter i has ever counted.
Ever(i) == acc[i] + stats_reg[i] - stats_got[i] + stats_lost[i]

\* Each count is in the totals, in the hardware, or lost, and belongs to a frame.
CountsBalance ==
  /\ Ever(1) = if_tx + in_tx
  /\ Ever(2) = Ever(3) + if_rx + in_rx + dropped

\* Frames are in flight only while the test runs.
Quiet == stats_pc # "traffic" => in_tx = 0 /\ in_rx = 0

\* Since the test began counts were only lost, and frames dropped only in its traffic.
Began ==
  /\ \A i \in 1 .. 3 : stats_base.lost[i] <= stats_lost[i]
  /\ stats_pc \in {"next", "snap1", "iperf"} => dropped = stats_base.dropped

\* As far as it got, the snapshot is of the totals as they stand.
Partial(s) ==
  \/ stats_si = 1 /\ s = <<>>
  \/ stats_si = 2 /\ s = <<Stats!Total(1)>>
  \/ stats_si = 3 /\ s = <<Stats!Total(1), Stats!Total(2)>>
  \/ stats_si = 4 /\ s = <<Stats!Total(1), Stats!Total(2), Stats!Total(3)>>
  \/ stats_si = 4 /\ s = <<-1, -1, -1>>

\* A snapshot that agrees with the interface but for d dropped frames, if no count was
\* lost (l) since the test began (b).
Balanced(s, d, l, b) ==
  /\ \A k \in 1 .. 5 : s[k] \in Int
  /\ (l = b /\ s[1] # -1) => /\ s[1] + l[1] = s[4]
                             /\ s[2] + l[2] = s[3] + l[3] + s[5] + d

Snapshots ==
  /\ stats_pc = "next" => before = <<>>
  /\ stats_pc \in {"next", "snap1", "iperf", "traffic", "settled"} => after = <<>>
  /\ stats_pc = "snap1" => Partial(before)
  /\ stats_pc = "snap2" => Partial(after)
  /\ stats_pc \in {"iperf", "traffic", "settled", "snap2", "accounting", "judged"} =>
       Balanced(before, stats_base.dropped, stats_lost, stats_base.lost)
  /\ stats_pc \in {"accounting", "judged"} =>
       Balanced(after, dropped, stats_lost, stats_base.lost)

Judged == stats_pc = "judged" => verdict = Stats!Verdict(before, after)

StatsInv == StatsTypes /\ Locked /\ FoldHolds /\ CountsBalance /\ Quiet /\ Began
            /\ Snapshots /\ Judged
LEMMA StatsStarts == Stats!Init => StatsInv
BY DEF Stats!Init, Stats!Zero, Stats!Stats, Stats!Empty, StatsInv, StatsTypes, Counters, Locked,
       FoldHolds, CountsBalance, Ever, Quiet, Began, Snapshots, Judged

\* Losing more counts claims less of a snapshot.
LEMMA BalanceKept ==
  ASSUME NEW s, NEW d, NEW l \in Counters, NEW m \in Counters, NEW b \in Counters,
         \A i \in 1 .. 3 : b[i] <= l[i] /\ l[i] <= m[i], Balanced(s, d, l, b)
  PROVE  Balanced(s, d, m, b) /\ \A i \in 1 .. 3 : b[i] <= m[i]
<1>1. \A i \in 1 .. 3 : b[i] \in Nat /\ l[i] \in Nat /\ m[i] \in Nat  BY DEF Counters
<1>2. \A i \in 1 .. 3 : b[i] <= m[i]  BY <1>1
<1>3. ASSUME m = b PROVE l = m
  <2>1. \A i \in 1 .. 3 : l[i] = m[i]  BY <1>1, <1>3
  <2> QED  BY <2>1 DEF Counters
<1> QED  BY <1>2, <1>3 DEF Balanced

\* What a step of the benchmark has to show when it neither counts nor loses.
StatsFrame == UNCHANGED <<stats_reg, acc, fpc, fold, stats_fi, stats_got, if_tx, if_rx, in_tx,
                          in_rx, stats_lost, dropped>>

LEMMA StatsFramed ==
  ASSUME StatsInv, StatsFrame
  PROVE  FoldHolds' /\ CountsBalance'
BY DEF StatsInv, StatsFrame, FoldHolds, CountsBalance, Ever, Stats!Groups, Stats!TheGroup

\* A frame passes: it is counted or lost, and is on its way to the interface.
LEMMA StatsTraffic ==
  StatsInv /\ (Stats!TxFrame \/ Stats!RxGood \/ Stats!RxBad) => StatsInv'
<1> SUFFICES ASSUME StatsInv, Stats!TxFrame \/ Stats!RxGood \/ Stats!RxBad PROVE StatsInv'
  OBVIOUS
<1>1. /\ stats_pc = "traffic"
      /\ UNCHANGED <<acc, lock, fpc, fold, stats_fi, stats_got, if_tx, if_rx, stats_pc, before,
                     after, stats_si, verdict, dropped, stats_base>>
  BY DEF Stats!TxFrame, Stats!RxGood, Stats!RxBad, Stats!Traffic, Stats!driver, Stats!bench
<1>2. StatsTypes /\ Locked /\ FoldHolds /\ CountsBalance /\ Began /\ Snapshots
  BY DEF StatsInv
<1>3. PICK S \in SUBSET (1 .. 3), x \in {0, 1}, y \in {0, 1} :
        /\ Stats!Count(S) /\ in_tx' = in_tx + x /\ in_rx' = in_rx + y
        /\ 1 \in S <=> x = 1
        /\ \/ 2 \in S /\ 3 \notin S /\ y = 1
           \/ 2 \in S /\ 3 \in S /\ y = 0
           \/ 2 \notin S /\ 3 \notin S /\ y = 0
  BY <1>2 DEF Stats!TxFrame, Stats!RxGood, Stats!RxBad, Stats!TxFrames, Stats!RxFrames,
              Stats!RxErrors, StatsTypes
<1>4. \A i \in 1 .. 3 : /\ stats_reg[i] \in Nat /\ acc[i] \in Nat /\ stats_got[i] \in Nat
                        /\ stats_lost[i] \in Nat
  BY <1>2 DEF StatsTypes, Counters
<1>5. /\ stats_reg' \in Counters /\ stats_lost' \in Counters
      /\ \A i \in 1 .. 3 :
           /\ stats_reg[i] <= stats_reg'[i] /\ stats_lost[i] <= stats_lost'[i]
           /\ i \in S => stats_reg'[i] + stats_lost'[i] = stats_reg[i] + stats_lost[i] + 1
           /\ i \notin S => stats_reg'[i] = stats_reg[i] /\ stats_lost'[i] = stats_lost[i]
  BY <1>3, <1>4 DEF Stats!Count, Stats!SAT_INC, Stats!Stats, Counters
<1>6. StatsTypes'  BY <1>1, <1>2, <1>3, <1>5 DEF StatsTypes
<1>7. FoldHolds'
  <2>1. \A i \in 1 .. 3 : stats_got'[i] <= stats_reg'[i]
    BY <1>1, <1>2, <1>4, <1>5, <1>6 DEF FoldHolds, StatsTypes, Counters
  <2> QED  BY <1>1, <1>2, <2>1 DEF FoldHolds, Stats!TheGroup, Stats!Groups
<1>8. /\ 1 \in S => Ever(1)' = Ever(1) + 1
      /\ 1 \notin S => Ever(1)' = Ever(1)
      /\ 2 \in S => Ever(2)' = Ever(2) + 1
      /\ 2 \notin S => Ever(2)' = Ever(2)
      /\ 3 \in S => Ever(3)' = Ever(3) + 1
      /\ 3 \notin S => Ever(3)' = Ever(3)
  <2>1. \A i \in 1 .. 3 : stats_reg'[i] \in Nat /\ stats_lost'[i] \in Nat
    BY <1>5 DEF Counters
  <2>2. ASSUME NEW i \in 1 .. 3
        PROVE  /\ i \in S => Ever(i)' = Ever(i) + 1
               /\ i \notin S => Ever(i)' = Ever(i)
    <3>1. PICK a \in Nat, h \in Nat, g \in Nat, l \in Nat, h2 \in Nat, l2 \in Nat :
            /\ a = acc[i] /\ h = stats_reg[i] /\ g = stats_got[i] /\ l = stats_lost[i]
            /\ h2 = stats_reg'[i] /\ l2 = stats_lost'[i]
      BY <1>4, <2>1
    <3>2. Ever(i) = a + h - g + l /\ Ever(i)' = a + h2 - g + l2  BY <3>1, <1>1 DEF Ever
    <3>3. /\ i \in S => h2 + l2 = h + l + 1
          /\ i \notin S => h2 = h /\ l2 = l
      BY <3>1, <1>5
    <3> QED  BY <3>2, <3>3
  <2> QED  BY <2>2
<1>9. Ever(1) \in Int /\ Ever(2) \in Int /\ Ever(3) \in Int  BY <1>4 DEF Ever
<1>10. CountsBalance'
  BY <1>1, <1>2, <1>3, <1>8, <1>9 DEF CountsBalance, StatsTypes
<1>11. Balanced(before, stats_base.dropped, stats_lost', stats_base.lost)
       /\ \A i \in 1 .. 3 : stats_base.lost[i] <= stats_lost'[i]
  BY <1>1, <1>2, <1>5, BalanceKept DEF StatsTypes, Began, Snapshots
<1> QED
  BY <1>1, <1>2, <1>6, <1>7, <1>10, <1>11 DEF StatsInv, Locked, Quiet, Began, Snapshots, Judged

\* A frame that was in flight arrives at the interface, or is dropped.
LEMMA StatsArrives == StatsInv /\ (Stats!Complete \/ Stats!Deliver) => StatsInv'
<1> SUFFICES ASSUME StatsInv, Stats!Complete \/ Stats!Deliver PROVE StatsInv'  OBVIOUS
<1>1. UNCHANGED <<stats_reg, acc, lock, fpc, fold, stats_fi, stats_got, stats_pc, before,
                  after, stats_si, verdict, stats_lost, stats_base>>
  BY DEF Stats!Complete, Stats!Deliver, Stats!driver, Stats!bench
<1>2. StatsTypes /\ Locked /\ FoldHolds /\ CountsBalance /\ Began /\ Snapshots /\ Quiet
  BY DEF StatsInv
<1>3. stats_pc = "traffic"
  BY <1>2 DEF Stats!Complete, Stats!Deliver, Quiet, StatsTypes
<1>4. /\ if_tx' \in Nat /\ if_rx' \in Nat /\ in_tx' \in Nat /\ in_rx' \in Nat /\ dropped' \in Nat
      /\ if_tx' + in_tx' = if_tx + in_tx
      /\ if_rx' + in_rx' + dropped' = if_rx + in_rx + dropped
  BY <1>2 DEF Stats!Complete, Stats!Deliver, StatsTypes
<1>5. FoldHolds'  BY <1>1, <1>2 DEF FoldHolds, Stats!TheGroup, Stats!Groups
<1>6. CountsBalance'
  <2>1. Ever(1)' = Ever(1) /\ Ever(2)' = Ever(2) /\ Ever(3)' = Ever(3)  BY <1>1 DEF Ever
  <2>2. PICK e \in Int : e = Ever(3)  BY <1>2 DEF Ever, StatsTypes, Counters
  <2>3. if_tx + in_tx = if_tx' + in_tx'  BY <1>4
  <2>4. e + if_rx + in_rx + dropped = e + if_rx' + in_rx' + dropped'
    <3>1. PICK x \in Nat, y \in Nat, z \in Nat : x = if_rx /\ y = in_rx /\ z = dropped
      BY <1>2 DEF StatsTypes
    <3>2. PICK x2 \in Nat, y2 \in Nat, z2 \in Nat :
            x2 = if_rx' /\ y2 = in_rx' /\ z2 = dropped'
      BY <1>4
    <3>3. x2 + y2 + z2 = x + y + z  BY <3>1, <3>2, <1>4
    <3>4. e + x + y + z = e + x2 + y2 + z2  BY <3>3
    <3> QED  BY <3>1, <3>2, <3>4
  <2> QED  BY <2>1, <2>2, <2>3, <2>4, <1>2 DEF CountsBalance
<1>7. StatsTypes'  BY <1>1, <1>2, <1>4 DEF StatsTypes
<1> QED
  BY <1>1, <1>2, <1>3, <1>5, <1>6, <1>7 DEF StatsInv, Locked, Quiet, Began, Snapshots, Judged

\* The group at which the fold is, and its counters.
LEMMA GroupAt ==
  ASSUME fold \in SUBSET {1, 2}, fold # {}
  PROVE  /\ Stats!TheGroup \in fold
         /\ Stats!Groups[Stats!TheGroup] \in SUBSET (1 .. 3)
<1>1. PICK g \in fold : \A h \in fold : g <= h
  <2>1. \A h \in fold : h = 1 \/ h = 2  OBVIOUS
  <2>2. 1 <= 1 /\ 1 <= 2 /\ 2 <= 2  OBVIOUS
  <2>3. CASE 1 \in fold  BY <2>1, <2>2, <2>3
  <2>4. CASE 1 \notin fold
    <3>1. \A h \in fold : h = 2  BY <2>1, <2>4
    <3> QED  BY <3>1, <2>2
  <2> QED  BY <2>3, <2>4
<1>2. Stats!TheGroup \in fold  BY <1>1 DEF Stats!TheGroup
<1>3. Stats!TheGroup = 1 \/ Stats!TheGroup = 2  BY <1>2
<1> HIDE DEF Stats!TheGroup
<1>4. Stats!Groups[1] = {1} /\ Stats!Groups[2] = {2, 3}
  BY DEF Stats!Groups, Stats!TxFrames, Stats!RxFrames, Stats!RxErrors
<1> QED  BY <1>2, <1>3, <1>4
\* What the fold leaves alone: the frames and the benchmark.
FoldFrame == UNCHANGED <<if_tx, if_rx, in_tx, in_rx, dropped, stats_pc, before, after, stats_si,
                         verdict, stats_base>>

\* What a step of the fold has to show: no snapshot is in the making.
LEMMA FoldStep ==
  ASSUME StatsInv, FoldFrame, lock # "snap", lock' # "snap", StatsTypes', FoldHolds',
         lock' = "fold" <=> fpc' # "idle",
         \A i \in 1 .. 3 : Ever(i)' = Ever(i) /\ stats_lost[i] <= stats_lost'[i]
  PROVE  StatsInv'
<1>1. StatsTypes /\ Locked /\ CountsBalance /\ Quiet /\ Began /\ Snapshots /\ Judged
  BY DEF StatsInv
<1>2. stats_pc \notin {"snap1", "snap2"}  BY <1>1 DEF Locked
<1>3. Locked'  BY <1>2 DEF Locked, FoldFrame
<1>4. CountsBalance'
  <2>1. Ever(1)' = Ever(1) /\ Ever(2)' = Ever(2) /\ Ever(3)' = Ever(3)  OBVIOUS
  <2> QED  BY <2>1, <1>1 DEF CountsBalance, FoldFrame
<1>5. /\ stats_lost \in Counters /\ stats_lost' \in Counters /\ stats_base.lost \in Counters
      /\ \A i \in 1 .. 3 : stats_base.lost[i] <= stats_lost[i] /\ stats_lost[i] <= stats_lost'[i]
  BY <1>1 DEF StatsTypes, Began
<1>7. Began'
  <2>1. \A i \in 1 .. 3 : stats_base.lost[i] <= stats_lost'[i]
    BY <1>5 DEF Counters
  <2> QED  BY <2>1, <1>1 DEF Began, FoldFrame
<1>8. Snapshots'
  <2>1. \A s, d : Balanced(s, d, stats_lost, stats_base.lost)
                     => Balanced(s, d, stats_lost', stats_base.lost)
    BY <1>5, BalanceKept
  <2> QED  BY <2>1, <1>1, <1>2 DEF Snapshots, FoldFrame
<1> QED
  BY <1>1, <1>3, <1>4, <1>7, <1>8 DEF StatsInv, Quiet, Judged, FoldFrame

\* The fold takes the lock and finds the groups that are due.
LEMMA StatsScans == StatsInv /\ (Stats!FoldStart \/ Stats!FoldScan) => StatsInv'
<1> SUFFICES ASSUME StatsInv, Stats!FoldStart \/ Stats!FoldScan PROVE StatsInv'  OBVIOUS
<1>1. /\ FoldFrame /\ UNCHANGED <<stats_reg, acc, stats_got, stats_lost>>
      /\ lock' = "fold" /\ fpc' \in {"scan", "fold"} /\ fpc # "fold" /\ lock # "snap"
      /\ fold' \in SUBSET {1, 2} /\ stats_fi' \in 1 .. 3
  <2>1. CASE Stats!FoldStart
    BY <2>1 DEF Stats!FoldStart, Stats!netdev, Stats!bench, FoldFrame
  <2>2. CASE Stats!FoldScan
    <3>1. StatsTypes /\ Locked  BY DEF StatsInv
    <3>2. lock' = lock /\ fpc = "scan" /\ lock = "fold"
      BY <2>2, <3>1 DEF Stats!FoldScan, Locked
    <3>3. fold' \in SUBSET {1, 2} /\ stats_fi' \in 1 .. 3 /\ fpc' \in {"scan", "fold"}
      <4>1. PICK n \in 1 .. 3 : n = stats_fi
        BY <3>1, <3>2 DEF StatsTypes
      <4>2. n < 3 => n + 1 \in 1 .. 3  OBVIOUS
      <4>3. fold' = fold \cup {g \in 1 .. 2 : n \in Stats!Groups[g] /\ stats_reg[n] >= FOLD}
            /\ IF n < 3 THEN stats_fi' = n + 1 /\ fpc' = fpc
                        ELSE stats_fi' = 3 /\ fpc' = "fold"
        BY <2>2, <4>1 DEF Stats!FoldScan
      <4>4. \A g \in 1 .. 2 : g \in {1, 2}  OBVIOUS
      <4>5. fold' \in SUBSET {1, 2}  BY <4>3, <4>4, <3>1 DEF StatsTypes
      <4> QED  BY <4>2, <4>3, <4>5, <3>2
    <3>4. FoldFrame /\ UNCHANGED <<stats_reg, acc, stats_got, stats_lost>>
      BY <2>2 DEF Stats!FoldScan, Stats!netdev, Stats!bench, FoldFrame
    <3> QED  BY <3>2, <3>3, <3>4
  <2> QED  BY <2>1, <2>2
<1>2. StatsTypes /\ FoldHolds  BY DEF StatsInv
<1>3. StatsTypes'  BY <1>1, <1>2 DEF StatsTypes, FoldFrame
<1>4. FoldHolds'  BY <1>1, <1>2 DEF FoldHolds
<1>5. \A i \in 1 .. 3 : Ever(i)' = Ever(i) /\ stats_lost[i] <= stats_lost'[i]
  <2>1. \A i \in 1 .. 3 : stats_lost[i] \in Nat  BY <1>2 DEF StatsTypes, Counters
  <2> QED  BY <2>1, <1>1 DEF Ever
<1> QED  BY <1>1, <1>3, <1>4, <1>5, FoldStep

\* It reads a counter into the total, ...
LEMMA StatsFolds == StatsInv /\ Stats!FoldRead => StatsInv'
<1> SUFFICES ASSUME StatsInv, Stats!FoldRead PROVE StatsInv'  OBVIOUS
<1>1. /\ FoldFrame /\ UNCHANGED <<stats_reg, lock, fpc, fold, stats_lost>>
      /\ fpc = "fold" /\ fold # {} /\ stats_fi > 0 /\ stats_fi' = stats_fi - 1
  BY DEF Stats!FoldRead, Stats!netdev, Stats!bench, FoldFrame
<1>2. StatsTypes /\ FoldHolds /\ Locked  BY DEF StatsInv
<1>3. PICK G \in SUBSET (1 .. 3) : G = Stats!Groups[Stats!TheGroup]
  BY <1>1, <1>2, GroupAt DEF StatsTypes
<1>4. PICK n \in 1 .. 3 : n = stats_fi  BY <1>1, <1>2 DEF StatsTypes
<1>5. /\ n \in G => /\ acc' = [acc EXCEPT ![n] = @ + stats_reg[n]]
                    /\ stats_got' = [stats_got EXCEPT ![n] = stats_reg[n]]
      /\ n \notin G => acc' = acc /\ stats_got' = stats_got
  BY <1>3, <1>4 DEF Stats!FoldRead
<1>6. /\ acc \in Counters /\ stats_got \in Counters /\ stats_reg \in Counters
      /\ stats_lost \in Counters
  BY <1>2 DEF StatsTypes
<1>7. \A i \in 1 .. 3 : /\ acc[i] \in Nat /\ stats_got[i] \in Nat /\ stats_reg[i] \in Nat
                        /\ stats_lost[i] \in Nat
  BY <1>6 DEF Counters
<1>8. \A i \in 1 .. 3 : i <= n \/ i \notin G => stats_got[i] = 0
  BY <1>1, <1>2, <1>3, <1>4 DEF FoldHolds
<1>9. /\ acc' \in Counters /\ stats_got' \in Counters
      /\ \A i \in 1 .. 3 : i # n \/ n \notin G =>
           acc'[i] = acc[i] /\ stats_got'[i] = stats_got[i]
      /\ n \in G => acc'[n] = acc[n] + stats_reg[n] /\ stats_got'[n] = stats_reg[n]
  BY <1>5, <1>6, <1>7 DEF Counters
<1>10. StatsTypes'  BY <1>1, <1>2, <1>4, <1>9 DEF StatsTypes, FoldFrame
<1>11. FoldHolds'
  <2>1. \A i \in 1 .. 3 : stats_got'[i] <= stats_reg[i]
    BY <1>2, <1>7, <1>9 DEF FoldHolds
  <2>2. \A i \in 1 .. 3 : i <= n - 1 \/ i \notin G => stats_got'[i] = 0
    BY <1>8, <1>9
  <2>3. (Stats!Groups[Stats!TheGroup])' = G
    BY <1>1, <1>3 DEF Stats!TheGroup, Stats!Groups
  <2> QED  BY <1>1, <1>4, <2>1, <2>2, <2>3 DEF FoldHolds
<1>12. \A i \in 1 .. 3 : Ever(i)' = Ever(i) /\ stats_lost[i] <= stats_lost'[i]
  <2> TAKE i \in 1 .. 3
  <2>1. acc'[i] - stats_got'[i] = acc[i] - stats_got[i]  BY <1>7, <1>8, <1>9
  <2>2. acc'[i] \in Nat /\ stats_got'[i] \in Nat  BY <1>9 DEF Counters
  <2> QED  BY <2>1, <2>2, <1>1, <1>7 DEF Ever
<1> QED  BY <1>1, <1>2, <1>10, <1>11, <1>12, FoldStep DEF Locked

\* ... clears the group, with what it has counted since, and ends.
LEMMA StatsClears == StatsInv /\ Stats!FoldClear => StatsInv'
<1> SUFFICES ASSUME StatsInv, Stats!FoldClear PROVE StatsInv'  OBVIOUS
<1>1. /\ FoldFrame /\ UNCHANGED <<acc, lock, fpc>>
      /\ fpc = "fold" /\ fold # {} /\ stats_fi' = 3 /\ fold' = fold \ {Stats!TheGroup}
  BY DEF Stats!FoldClear, Stats!netdev, Stats!bench, FoldFrame
<1>2. StatsTypes /\ FoldHolds /\ Locked  BY DEF StatsInv
<1>3. PICK G \in SUBSET (1 .. 3) : G = Stats!Groups[Stats!TheGroup]
  BY <1>1, <1>2, GroupAt DEF StatsTypes
<1>4. /\ stats_reg' = [i \in 1 .. 3 |-> IF i \in G THEN 0 ELSE stats_reg[i]]
      /\ stats_lost' = [i \in 1 .. 3 |-> IF i \in G THEN stats_lost[i] + stats_reg[i] - stats_got[i]
                                                   ELSE stats_lost[i]]
      /\ stats_got' = [i \in 1 .. 3 |-> IF i \in G THEN 0 ELSE stats_got[i]]
  BY <1>3 DEF Stats!FoldClear, Stats!Stats
<1>5. /\ acc \in Counters /\ stats_got \in Counters /\ stats_reg \in Counters
      /\ stats_lost \in Counters
  BY <1>2 DEF StatsTypes
<1>6. \A i \in 1 .. 3 : /\ acc[i] \in Nat /\ stats_got[i] \in Nat /\ stats_reg[i] \in Nat
                        /\ stats_lost[i] \in Nat /\ stats_got[i] <= stats_reg[i]
                        /\ i \notin G => stats_got[i] = 0
  BY <1>1, <1>2, <1>3, <1>5 DEF Counters, FoldHolds
<1>7. \A i \in 1 .. 3 : i \in G => stats_lost[i] + stats_reg[i] - stats_got[i] \in Nat
  BY <1>6
<1>8. stats_reg' \in Counters /\ stats_lost' \in Counters /\ stats_got' \in Counters
  BY <1>4, <1>6, <1>7 DEF Counters
<1>9. \A i \in 1 .. 3 :
        /\ stats_got'[i] = 0 /\ stats_got'[i] <= stats_reg'[i]
        /\ i \in G => stats_reg'[i] = 0
                      /\ stats_lost'[i] = stats_lost[i] + stats_reg[i] - stats_got[i]
        /\ i \notin G => stats_reg'[i] = stats_reg[i] /\ stats_lost'[i] = stats_lost[i]
  BY <1>4, <1>6
<1>10. StatsTypes'
  <2>1. fold' \in SUBSET {1, 2}  BY <1>1, <1>2 DEF StatsTypes
  <2>2. 3 \in 0 .. 3  OBVIOUS
  <2>3. stats_fi' \in 0 .. 3 /\ fpc' # "scan"  BY <2>2, <1>1
  <2> QED  BY <2>1, <2>3, <1>1, <1>2, <1>8 DEF StatsTypes, FoldFrame
<1>11. FoldHolds'
  <2>1. \A i \in 1 .. 3 : stats_got'[i] = 0 /\ stats_got'[i] <= stats_reg'[i]  BY <1>9
  <2> QED  BY <2>1 DEF FoldHolds
<1>12. \A i \in 1 .. 3 : Ever(i)' = Ever(i) /\ stats_lost[i] <= stats_lost'[i]
  BY <1>1, <1>6, <1>9 DEF Ever
<1> QED  BY <1>1, <1>2, <1>10, <1>11, <1>12, FoldStep DEF Locked

LEMMA StatsFoldEnds == StatsInv /\ Stats!FoldEnd => StatsInv'
<1> SUFFICES ASSUME StatsInv, Stats!FoldEnd PROVE StatsInv'  OBVIOUS
<1>1. /\ FoldFrame /\ UNCHANGED <<stats_reg, acc, fold, stats_got, stats_lost>>
      /\ fpc = "fold" /\ fold = {} /\ lock' = "free" /\ fpc' = "idle" /\ stats_fi' = 1
  BY DEF Stats!FoldEnd, Stats!netdev, Stats!bench, FoldFrame
<1>2. StatsTypes /\ FoldHolds /\ Locked  BY DEF StatsInv
<1>3. StatsTypes'  BY <1>1, <1>2 DEF StatsTypes, FoldFrame
<1>4. FoldHolds'  BY <1>1, <1>2 DEF FoldHolds
<1>5. \A i \in 1 .. 3 : Ever(i)' = Ever(i) /\ stats_lost[i] <= stats_lost'[i]
  <2>1. \A i \in 1 .. 3 : stats_lost[i] \in Nat  BY <1>2 DEF StatsTypes, Counters
  <2> QED  BY <2>1, <1>1 DEF Ever
<1> QED  BY <1>1, <1>2, <1>3, <1>4, <1>5, FoldStep DEF Locked
\* What a step of the benchmark has to show.
LEMMA BenchStep ==
  ASSUME StatsInv, StatsFrame, UNCHANGED stats_base, stats_pc # "traffic" \/ (in_tx = 0 /\ in_rx = 0),
         lock' \in {"free", "snap", "fold"}, Locked', Snapshots', Judged',
         stats_pc' \in {"next", "snap1", "iperf", "traffic", "settled", "snap2", "accounting",
                        "judged", "exit0", "exit1", "raised"},
         stats_pc' \in {"next", "snap1", "iperf"} => stats_pc \in {"next", "snap1", "iperf"}
  PROVE  StatsInv'
<1>1. StatsTypes /\ Quiet /\ Began  BY DEF StatsInv
<1>2. StatsTypes'  BY <1>1 DEF StatsTypes, StatsFrame
<1>3. Began'  BY <1>1 DEF Began, StatsFrame
<1>4. Quiet'  BY <1>1 DEF Quiet, StatsFrame
<1> QED  BY <1>2, <1>3, <1>4, StatsFramed DEF StatsInv

\* A snapshot takes the lock, ...
LEMMA SnapStarts ==
  StatsInv /\ (Stats!SnapStart("next", "snap1") \/ Stats!SnapStart("settled", "snap2"))
    => StatsInv'
<1> SUFFICES ASSUME StatsInv,
                    Stats!SnapStart("next", "snap1") \/ Stats!SnapStart("settled", "snap2")
             PROVE  StatsInv'
  OBVIOUS
<1>1. /\ StatsFrame /\ UNCHANGED <<stats_base, before, after, verdict>>
      /\ lock = "free" /\ lock' = "snap" /\ stats_si' = 1
      /\ \/ stats_pc = "next" /\ stats_pc' = "snap1"
         \/ stats_pc = "settled" /\ stats_pc' = "snap2"
  BY DEF Stats!SnapStart, Stats!netdev, StatsFrame
<1>2. Locked /\ Snapshots  BY DEF StatsInv
<1>3. Locked'  BY <1>1, <1>2 DEF Locked, StatsFrame
<1>4. Snapshots'  BY <1>1, <1>2 DEF Snapshots, Partial, StatsFrame
<1>5. Judged'  BY <1>1 DEF Judged
<1> QED  BY <1>1, <1>3, <1>4, <1>5, BenchStep

\* The totals as they stand, when no fold is under way.
LEMMA TotalsStand ==
  ASSUME StatsInv, stats_pc \in {"snap1", "snap2"}
  PROVE  /\ \A i \in 1 .. 3 : Stats!Total(i) \in Nat /\ Ever(i) = Stats!Total(i) + stats_lost[i]
         /\ Stats!Total(1) + stats_lost[1] = if_tx
         /\ Stats!Total(2) + stats_lost[2] = Stats!Total(3) + stats_lost[3] + if_rx + dropped
<1>1. /\ StatsTypes /\ Locked /\ FoldHolds /\ CountsBalance /\ Quiet  BY DEF StatsInv
<1>2. fpc = "idle"  BY <1>1 DEF Locked, StatsTypes
<1>3. \A i \in 1 .. 3 : acc[i] \in Nat /\ stats_reg[i] \in Nat /\ stats_lost[i] \in Nat
                        /\ stats_got[i] = 0
  BY <1>1, <1>2 DEF StatsTypes, Counters, FoldHolds
<1>4. \A i \in 1 .. 3 : Stats!Total(i) \in Nat /\ Ever(i) = Stats!Total(i) + stats_lost[i]
  BY <1>3 DEF Stats!Total, Ever
<1>5. in_tx = 0 /\ in_rx = 0  BY <1>1 DEF Quiet
<1> QED  BY <1>1, <1>3, <1>4, <1>5 DEF CountsBalance, StatsTypes

\* ... reads one total after the other, ...
LEMMA SnapTotals ==
  StatsInv /\ (\/ Stats!SnapTotal("snap1", before) /\ UNCHANGED after
               \/ Stats!SnapTotal("snap2", after) /\ UNCHANGED before)
    => StatsInv'
<1>1. ASSUME StatsInv, NEW at \in {"snap1", "snap2"}, stats_pc = at, stats_pc' = at,
             NEW s, NEW t, Partial(s), stats_si <= 3,
             StatsFrame, UNCHANGED <<lock, stats_base, verdict>>,
             \/ t = Append(s, Stats!Total(stats_si)) /\ stats_si' = stats_si + 1
             \/ t = <<-1, -1, -1>> /\ stats_si' = 4,
             at = "snap1" => s = before /\ t = before' /\ after' = after,
             at = "snap2" => s = after /\ t = after' /\ before' = before
      PROVE  StatsInv'
  <2>1. Locked /\ Snapshots  BY <1>1 DEF StatsInv
  <2>2. UNCHANGED <<Stats!Total(1), Stats!Total(2), Stats!Total(3)>>
    BY <1>1 DEF StatsFrame, Stats!Total
  <2>3. \/ stats_si' = 2 /\ t = <<Stats!Total(1)>>
        \/ stats_si' = 3 /\ t = <<Stats!Total(1), Stats!Total(2)>>
        \/ stats_si' = 4 /\ t = <<Stats!Total(1), Stats!Total(2), Stats!Total(3)>>
        \/ stats_si' = 4 /\ t = <<-1, -1, -1>>
    <3>1. CASE stats_si = 1 /\ s = <<>>  BY <3>1, <1>1
    <3>2. CASE stats_si = 2 /\ s = <<Stats!Total(1)>>  BY <3>2, <1>1
    <3>3. CASE stats_si = 3 /\ s = <<Stats!Total(1), Stats!Total(2)>>  BY <3>3, <1>1
    <3> QED  BY <3>1, <3>2, <3>3, <1>1 DEF Partial
  <2>4. at = "snap1" => Partial(before)'  BY <1>1, <2>2, <2>3 DEF Partial
  <2>5. at = "snap2" => Partial(after)'  BY <1>1, <2>2, <2>3 DEF Partial
  <2>6. Snapshots'  BY <1>1, <2>1, <2>4, <2>5 DEF Snapshots, StatsFrame
  <2>7. Locked'  BY <1>1, <2>1 DEF Locked, StatsFrame
  <2>8. Judged'  BY <1>1 DEF Judged
  <2> QED  BY <1>1, <2>6, <2>7, <2>8, BenchStep DEF StatsInv, StatsTypes
<1>2. ASSUME StatsInv, Stats!SnapTotal("snap1", before), UNCHANGED after PROVE StatsInv'
  <2>1. /\ stats_pc = "snap1" /\ stats_si <= 3 /\ stats_pc' = "snap1"
        /\ UNCHANGED <<lock, stats_base, verdict>> /\ StatsFrame
        /\ \/ before' = Append(before, Stats!Total(stats_si)) /\ stats_si' = stats_si + 1
           \/ before' = <<-1, -1, -1>> /\ stats_si' = 4
    BY <1>2 DEF Stats!SnapTotal, Stats!driver, Stats!netdev, StatsFrame, Stats!Missing
  <2>2. Partial(before)  BY <1>2, <2>1 DEF StatsInv, Snapshots
  <2> QED  BY <1>1, <1>2, <2>1, <2>2
<1>3. ASSUME StatsInv, Stats!SnapTotal("snap2", after), UNCHANGED before PROVE StatsInv'
  <2>1. /\ stats_pc = "snap2" /\ stats_si <= 3 /\ stats_pc' = "snap2"
        /\ UNCHANGED <<lock, stats_base, verdict>> /\ StatsFrame
        /\ \/ after' = Append(after, Stats!Total(stats_si)) /\ stats_si' = stats_si + 1
           \/ after' = <<-1, -1, -1>> /\ stats_si' = 4
    BY <1>3 DEF Stats!SnapTotal, Stats!driver, Stats!netdev, StatsFrame, Stats!Missing
  <2>2. Partial(after)  BY <1>3, <2>1 DEF StatsInv, Snapshots
  <2> QED  BY <1>1, <1>3, <2>1, <2>2
<1> QED  BY <1>2, <1>3

\* ... and the interface's counts, and gives the lock back.
LEMMA SnapBalances ==
  ASSUME StatsInv, stats_pc \in {"snap1", "snap2"}, NEW s, Partial(s), stats_si = 4,
         NEW b \in Counters
  PROVE  Balanced(s \o <<if_tx, if_rx>>, dropped, stats_lost, b)
<1>1. /\ \A i \in 1 .. 3 : Stats!Total(i) \in Nat
      /\ Stats!Total(1) + stats_lost[1] = if_tx
      /\ Stats!Total(2) + stats_lost[2] = Stats!Total(3) + stats_lost[3] + if_rx + dropped
  BY TotalsStand
<1>2. if_tx \in Nat /\ if_rx \in Nat /\ dropped \in Nat
      /\ \A i \in 1 .. 3 : stats_lost[i] \in Nat
  BY DEF StatsInv, StatsTypes, Counters
<1>3. /\ Len(s) = 3
      /\ \/ s[1] = -1 /\ s[2] = -1 /\ s[3] = -1
         \/ s[1] = Stats!Total(1) /\ s[2] = Stats!Total(2) /\ s[3] = Stats!Total(3)
      /\ s \in Seq(Int)
  <2>1. \/ s = <<Stats!Total(1), Stats!Total(2), Stats!Total(3)>>
        \/ s = <<-1, -1, -1>>
    BY DEF Partial
  <2>2. CASE s = <<-1, -1, -1>>  BY ONLY <2>2
  <2>3. CASE s = <<Stats!Total(1), Stats!Total(2), Stats!Total(3)>>
    <3>1. PICK t1 \in Nat, t2 \in Nat, t3 \in Nat :
            t1 = Stats!Total(1) /\ t2 = Stats!Total(2) /\ t3 = Stats!Total(3)
      <4>1. Stats!Total(1) \in Nat /\ Stats!Total(2) \in Nat /\ Stats!Total(3) \in Nat
        BY <1>1
      <4> QED  BY ONLY <4>1, Zenon
    <3>2. s = <<t1, t2, t3>>  BY ONLY <2>3, <3>1, Zenon
    <3>3. Len(s) = 3 /\ s[1] = t1 /\ s[2] = t2 /\ s[3] = t3 /\ s \in Seq(Int)
      BY ONLY <3>2, t1 \in Nat, t2 \in Nat, t3 \in Nat
    <3> QED  BY ONLY <3>1, <3>3, Zenon
  <2> QED  BY ONLY <2>1, <2>2, <2>3, Zenon
<1> DEFINE u == <<if_tx, if_rx>>
<1>4. u \in Seq(Int) /\ Len(u) = 2 /\ u[1] = if_tx /\ u[2] = if_rx  BY <1>2
<1> HIDE DEF u
<1>5. \A i \in 1 .. Len(s) + Len(u) :
        (s \o u)[i] = IF i <= Len(s) THEN s[i] ELSE u[i - Len(s)]
  BY <1>3, <1>4, ConcatProperties
<1>6. /\ (s \o u)[1] = s[1] /\ (s \o u)[2] = s[2] /\ (s \o u)[3] = s[3]
      /\ (s \o u)[4] = if_tx /\ (s \o u)[5] = if_rx
  <2>1. Len(s) + Len(u) = 5  BY <1>3, <1>4
  <2>2. \A i \in 1 .. 5 : (s \o u)[i] = IF i <= 3 THEN s[i] ELSE u[i - 3]
    BY <2>1, <1>3, <1>5
  <2>3. /\ 1 \in 1 .. 5 /\ 2 \in 1 .. 5 /\ 3 \in 1 .. 5 /\ 4 \in 1 .. 5 /\ 5 \in 1 .. 5
        /\ 1 <= 3 /\ 2 <= 3 /\ 3 <= 3 /\ ~(4 <= 3) /\ ~(5 <= 3) /\ 4 - 3 = 1 /\ 5 - 3 = 2
    OBVIOUS
  <2>4. /\ (s \o u)[1] = s[1] /\ (s \o u)[2] = s[2] /\ (s \o u)[3] = s[3]
    BY <2>2, <2>3
  <2>5. (s \o u)[4] = u[4 - 3] /\ (s \o u)[5] = u[5 - 3]  BY <2>2, <2>3
  <2>6. u[4 - 3] = u[1] /\ u[5 - 3] = u[2]  BY <2>3
  <2> QED  BY <2>4, <2>5, <2>6, <1>4
<1>7. \A k \in 1 .. 5 : (s \o u)[k] \in Int
  <2>1. s[1] \in Int /\ s[2] \in Int /\ s[3] \in Int  BY <1>1, <1>3
  <2>2. if_tx \in Int /\ if_rx \in Int  BY <1>2
  <2>3. /\ (s \o u)[1] \in Int /\ (s \o u)[2] \in Int /\ (s \o u)[3] \in Int
        /\ (s \o u)[4] \in Int /\ (s \o u)[5] \in Int
    BY <2>1, <2>2, <1>6
  <2>4. \A k \in 1 .. 5 : k = 1 \/ k = 2 \/ k = 3 \/ k = 4 \/ k = 5  OBVIOUS
  <2> QED  BY <2>3, <2>4
<1>8. s[1] # -1 => /\ s[1] + stats_lost[1] = if_tx
                   /\ s[2] + stats_lost[2] = s[3] + stats_lost[3] + if_rx + dropped
  BY <1>1, <1>3
<1> QED  BY <1>6, <1>7, <1>8 DEF Balanced, u

LEMMA SnapEnds ==
  StatsInv /\ (\/ Stats!SnapIf("snap1", before, "iperf") /\ UNCHANGED after
               \/ Stats!SnapIf("snap2", after, "accounting") /\ UNCHANGED before)
    => StatsInv'
<1>1. ASSUME StatsInv, Stats!SnapIf("snap1", before, "iperf"), UNCHANGED after PROVE StatsInv'
  <2>1. /\ stats_pc = "snap1" /\ stats_si = 4 /\ stats_pc' = "iperf"
        /\ before' = before \o <<if_tx, if_rx>>
        /\ lock' = (IF lock = "snap" THEN "free" ELSE lock)
        /\ UNCHANGED <<stats_base, verdict>> /\ StatsFrame
    BY <1>1 DEF Stats!SnapIf, Stats!netdev, StatsFrame
  <2>2. StatsTypes /\ Locked /\ Snapshots /\ Began /\ Partial(before)
    BY <1>1, <2>1 DEF StatsInv, Snapshots
  <2>3. Balanced(before', stats_base.dropped, stats_lost, stats_base.lost)
    <3>1. dropped = stats_base.dropped /\ stats_base.lost \in Counters
      BY <2>1, <2>2 DEF Began, StatsTypes
    <3> QED  BY <3>1, <1>1, <2>1, <2>2, SnapBalances
  <2>4. Snapshots'  BY <1>1, <2>1, <2>2, <2>3 DEF Snapshots, StatsFrame
  <2>5. lock = "snap" /\ lock' = "free"  BY <2>1, <2>2 DEF Locked
  <2>6. Locked'  BY <2>1, <2>2, <2>5 DEF Locked, StatsFrame
  <2>7. Judged'  BY <2>1 DEF Judged
  <2> QED  BY <1>1, <2>1, <2>4, <2>5, <2>6, <2>7, BenchStep
<1>2. ASSUME StatsInv, Stats!SnapIf("snap2", after, "accounting"), UNCHANGED before
      PROVE  StatsInv'
  <2>1. /\ stats_pc = "snap2" /\ stats_si = 4 /\ stats_pc' = "accounting"
        /\ after' = after \o <<if_tx, if_rx>>
        /\ lock' = (IF lock = "snap" THEN "free" ELSE lock)
        /\ UNCHANGED <<stats_base, verdict>> /\ StatsFrame
    BY <1>2 DEF Stats!SnapIf, Stats!netdev, StatsFrame
  <2>2. StatsTypes /\ Locked /\ Snapshots /\ Partial(after)
    BY <1>2, <2>1 DEF StatsInv, Snapshots
  <2>3. Balanced(after', dropped, stats_lost, stats_base.lost)
    <3>1. stats_base.lost \in Counters  BY <2>2 DEF StatsTypes
    <3> QED  BY <3>1, <1>2, <2>1, <2>2, SnapBalances
  <2>4. Snapshots'  BY <1>2, <2>1, <2>2, <2>3 DEF Snapshots, StatsFrame
  <2>5. lock = "snap" /\ lock' = "free"  BY <2>1, <2>2 DEF Locked
  <2>6. Locked'  BY <2>1, <2>2, <2>5 DEF Locked, StatsFrame
  <2>7. Judged'  BY <2>1 DEF Judged
  <2> QED  BY <1>2, <2>1, <2>4, <2>5, <2>6, <2>7, BenchStep
<1> QED  BY <1>1, <1>2

\* The board does not answer: the benchmark ends.
LEMMA StatsFails == StatsInv /\ Stats!BoardFails => StatsInv'
<1> SUFFICES ASSUME StatsInv, Stats!BoardFails PROVE StatsInv'  OBVIOUS
<1>1. /\ stats_pc \in {"snap1", "snap2"} /\ stats_pc' = "raised"
      /\ lock' = (IF lock = "snap" THEN "free" ELSE lock)
      /\ UNCHANGED <<stats_base, verdict>> /\ StatsFrame
  BY DEF Stats!BoardFails, Stats!netdev, StatsFrame
<1>2. Locked  BY DEF StatsInv
<1>3. lock = "snap" /\ lock' = "free"  BY <1>1, <1>2 DEF Locked
<1>4. Locked'  BY <1>1, <1>2, <1>3 DEF Locked, StatsFrame
<1>5. Snapshots' /\ Judged'  BY <1>1 DEF Snapshots, Judged
<1> QED  BY <1>1, <1>3, <1>4, <1>5, BenchStep

\* The test begins and ends, its numbers are judged and reported.
LEMMA StatsProceeds ==
  StatsInv /\ (Stats!Iperf3 \/ Stats!Settle \/ Stats!Accounting \/ Stats!Report) => StatsInv'
<1> SUFFICES ASSUME StatsInv, Stats!Iperf3 \/ Stats!Settle \/ Stats!Accounting \/ Stats!Report
             PROVE  StatsInv'
  OBVIOUS
<1>1. /\ StatsFrame /\ UNCHANGED <<lock, stats_base, after, stats_si>>
      /\ \/ stats_pc = "iperf" /\ stats_pc' \in {"iperf", "traffic"} /\ UNCHANGED before
         \/ stats_pc = "iperf" /\ stats_pc' = "raised"
         \/ stats_pc = "traffic" /\ stats_pc' = "settled" /\ in_tx = 0 /\ in_rx = 0
            /\ UNCHANGED before
         \/ stats_pc = "accounting" /\ stats_pc' = "judged" /\ UNCHANGED before
            /\ verdict' = Stats!Verdict(before, after)
         \/ stats_pc = "judged" /\ stats_pc' \in {"exit0", "exit1"} /\ UNCHANGED before
  BY DEF Stats!Iperf3, Stats!Settle, Stats!Settled, Stats!Accounting, Stats!Report,
         Stats!driver, Stats!netdev, StatsFrame
<1>2. StatsTypes /\ Locked /\ Snapshots  BY DEF StatsInv
<1>3. Locked'  BY <1>1, <1>2 DEF Locked, StatsFrame
<1>4. Snapshots'  BY <1>1, <1>2 DEF Snapshots, StatsFrame
<1>5. Judged'  BY <1>1, <1>2 DEF Judged
<1>6. lock' \in {"free", "snap", "fold"}  BY <1>1, <1>2 DEF StatsTypes
<1> QED  BY <1>1, <1>3, <1>4, <1>5, <1>6, BenchStep

\* The next test begins with what has been lost and dropped so far.
LEMMA StatsNext == StatsInv /\ Stats!NextTest => StatsInv'
<1> SUFFICES ASSUME StatsInv, Stats!NextTest PROVE StatsInv'  OBVIOUS
<1>1. /\ stats_pc = "judged" /\ stats_pc' = "next" /\ before' = <<>> /\ after' = <<>>
      /\ stats_base' = [lost |-> stats_lost, dropped |-> dropped]
      /\ StatsFrame /\ UNCHANGED lock
  BY DEF Stats!NextTest, Stats!driver, Stats!netdev, Stats!Empty, StatsFrame
<1>2. StatsTypes /\ Locked /\ Quiet  BY DEF StatsInv
<1>3. stats_base'.lost = stats_lost /\ stats_base'.dropped = dropped  BY <1>1
<1>4. StatsTypes'  BY <1>1, <1>2, <1>3 DEF StatsTypes, StatsFrame
<1>5. Locked'  BY <1>1, <1>2 DEF Locked, StatsFrame
<1>6. Began'
  <2>1. \A i \in 1 .. 3 : stats_lost[i] <= stats_lost[i]  BY <1>2 DEF StatsTypes, Counters
  <2> QED  BY <2>1, <1>1, <1>3 DEF Began, StatsFrame
<1>7. Quiet' /\ Snapshots' /\ Judged'
  BY <1>1, <1>2 DEF Quiet, Snapshots, Judged, StatsFrame
<1> QED  BY <1>1, <1>4, <1>5, <1>6, <1>7, StatsFramed DEF StatsInv

\* The benchmark of the whole runs as the benchmark alone.
LEMMA StatsRuns == Spec => Stats!Spec
<1>1. Init => Stats!Init
  BY DEF Init
<1>2. [Next]_allVars => [Stats!Next]_(Stats!vars)
  BY DEF Next, allVars, RunSfp, RunPause, RunStats, RunLb, RunUart, RunThr, RunReg, statsVars,
         Stats!vars, Stats!driver, Stats!netdev, Stats!bench
<1> QED  BY <1>1, <1>2, PTL DEF Spec, Stats!Spec

\* The benchmark's verdict has its cause in the test (linux_bench.py 215-248, emaczero.c
\* 900-990), for any number of tests and frames and any saturation and fold threshold:
\* counts differ only if the driver dropped a frame or the fold's clear lost a count, and
\* they agree in a test without a lost count only if every good frame arrived.
THEOREM BenchIsExplained == Spec => []VerdictExplained
<1>1. StatsInv /\ [Stats!Next]_(Stats!vars) => StatsInv'
  <2> SUFFICES ASSUME StatsInv, [Stats!Next]_(Stats!vars) PROVE StatsInv'  OBVIOUS
  <2>1. CASE Stats!Next
    BY <2>1, StatsTraffic, StatsArrives, StatsScans, StatsFolds, StatsClears, StatsFoldEnds,
       SnapStarts, SnapTotals, SnapEnds, StatsFails, StatsProceeds, StatsNext
       DEF Stats!Next
  <2>2. CASE UNCHANGED Stats!vars
    BY <2>2 DEF Stats!vars, Stats!driver, Stats!netdev, Stats!bench, StatsInv, StatsTypes, Locked,
       FoldHolds, CountsBalance, Ever, Quiet, Began, Snapshots, Partial, Judged, Stats!Total,
       Stats!Groups, Stats!TheGroup
  <2> QED  BY <2>1, <2>2
<1>2. StatsInv => VerdictExplained
  <2> SUFFICES ASSUME StatsInv, stats_pc = "judged", stats_lost = stats_base.lost,
                      verdict # "invalid"
               PROVE  /\ dropped = stats_base.dropped => verdict # "differ"
                      /\ verdict = "agree" => dropped = stats_base.dropped
    BY DEF VerdictExplained, Stats!VerdictExplained
  <2> DEFINE b == before
             a == after
  <2>1. /\ verdict = Stats!Verdict(b, a)
        /\ Balanced(b, stats_base.dropped, stats_lost, stats_lost)
        /\ Balanced(a, dropped, stats_lost, stats_lost)
    BY DEF StatsInv, Snapshots, Judged
  <2>2. \A k \in 1 .. 5 : b[k] \in Int /\ a[k] \in Int  BY <2>1 DEF Balanced
  <2>3. \A i \in 1 .. 3 : stats_lost[i] \in Nat  BY DEF StatsInv, StatsTypes, Counters
  <2>4. dropped \in Nat /\ stats_base.dropped \in Nat  BY DEF StatsInv, StatsTypes
  <2> HIDE DEF a, b
  <2>5. /\ b[1] # -1 /\ a[1] # -1
        /\ verdict = IF a[1] - b[1] = a[4] - b[4] /\ (a[2] - b[2]) - (a[3] - b[3]) = a[5] - b[5]
                     THEN "agree" ELSE "differ"
    <3>1. ~\E k \in 1 .. 3 : -1 \in {b[k], a[k]}
      BY <2>1 DEF Stats!Verdict, Stats!Missing
    <3>2. verdict = IF \E k \in 1 .. 5 : a[k] - b[k] < 0 THEN "invalid"
                    ELSE IF /\ a[1] - b[1] = a[4] - b[4]
                            /\ (a[2] - b[2]) - (a[3] - b[3]) = a[5] - b[5]
                         THEN "agree" ELSE "differ"
      BY <2>1, <3>1 DEF Stats!Verdict, Stats!Missing, Stats!TxFrames, Stats!RxFrames,
                        Stats!RxErrors
    <3> QED  BY <3>1, <3>2
  <2>6. /\ b[1] + stats_lost[1] = b[4] /\ a[1] + stats_lost[1] = a[4]
        /\ b[2] + stats_lost[2] = b[3] + stats_lost[3] + b[5] + stats_base.dropped
        /\ a[2] + stats_lost[2] = a[3] + stats_lost[3] + a[5] + dropped
    BY <2>1, <2>5 DEF Balanced
  <2>7. /\ a[1] - b[1] = a[4] - b[4]
        /\ (a[2] - b[2]) - (a[3] - b[3]) = a[5] - b[5] <=> dropped = stats_base.dropped
    BY <2>2, <2>3, <2>4, <2>6
  <2> QED  BY <2>5, <2>7
<1> QED  BY <1>1, <1>2, StatsStarts, StatsRuns, PTL DEF Stats!Spec
-----------------------------------------------------------------------------
(* The loopback self-test.                                                  *)

Frames   == [seq : Nat, bad : BOOLEAN]
Tallies  == [tx_frames : Nat, rx_ok : Nat, rx_ok_big : Nat, rx_bad : Nat, seq_gap : Nat,
             max_ok_len : Nat]
LbPlaces == {"main", "refused", "speed", "clear", "cleared", "unclear", "run", "traffic",
             "stop", "stopped", "final", "judge", "pass", "fail", "died"}

\* What the host and the board hold.
LbTypes ==
  /\ ctrl \in [run : BOOLEAN, clear : BOOLEAN] /\ busy \in BOOLEAN /\ seen_any \in BOOLEAN
  /\ tx_seq \in Nat /\ first \in Nat /\ exp_seq \in Nat
  /\ loop \in Seq(Frames) /\ back \in Seq(Frames)
  /\ cnt \in Tallies
  /\ lb_pc \in LbPlaces

\* The frames of q are numbered from a to below b.
Within(q, a, b) == \A i \in 1 .. Len(q) : a <= q[i].seq /\ q[i].seq < b

\* Those of q are unhurt and numbered on.
Exact(q) == \A i \in 1 .. Len(q) : ~q[i].bad /\ q[i].seq = q[1].seq + i - 1

\* The checker expects the frame after the last of q.
Expects(q, seen, e) ==
  /\ seen <=> q # <<>>
  /\ q # <<>> => e = q[Len(q)].seq + 1

\* c is what the checker counts of q.
Tallied(c, q) ==
  /\ c.rx_ok + c.rx_bad = Len(q)
  /\ (c.rx_bad = 0 /\ c.seq_gap = 0) <=> Exact(q)
  /\ c.max_ok_len <= 3
  /\ \A i \in 1 .. Len(q) :
       ~q[i].bad => /\ Lb!Length(q[i].seq) <= c.max_ok_len
                    /\ Lb!Length(q[i].seq) > 1 => c.rx_ok_big > 0

\* From the end of the sleep after the clear until the verdict.
Running == lb_pc \in {"unclear", "run", "traffic", "stop", "stopped", "final", "judge", "pass",
                      "fail"}

\* The clear has left nothing of what was counted, and the generator stands.
LbCleared == lb_pc = "cleared" => ctrl = [run |-> FALSE, clear |-> TRUE] /\ cnt = Lb!Zero
                                  /\ ~seen_any

\* The counters are about the frames of the run.
LbCounts ==
  Running =>
    /\ first <= tx_seq /\ cnt.tx_frames = tx_seq - first
    /\ Within(loop, first, tx_seq) /\ Within(back, first, tx_seq)
    /\ Expects(back, seen_any, exp_seq) /\ Tallied(cnt, back)
    /\ ctrl.clear => ~ctrl.run /\ ~busy /\ loop = <<>> /\ back = <<>> /\ cnt = Lb!Zero
                     /\ ~seen_any /\ tx_seq = first

\* After the stop and its sleep nothing moves, and the verdict is about what was counted.
LbStands ==
  /\ lb_pc \in {"stopped", "final", "judge", "pass", "fail"} => ~ctrl.run
  /\ lb_pc \in {"final", "judge", "pass", "fail"} => ~busy /\ loop = <<>>
  /\ lb_pc \in {"judge", "pass", "fail"} => lb_s = cnt
  /\ lb_pc = "pass" => Lb!Checks
  /\ lb_pc = "fail" => ~Lb!Checks

LbInv == LbTypes /\ LbCleared /\ LbCounts /\ LbStands
LEMMA LbStarts == Lb!Init => LbInv
<1> SUFFICES ASSUME Lb!Init PROVE LbInv  OBVIOUS
<1>1. Lb!Zero \in Tallies  BY DEF Lb!Zero, Tallies
<1>2. <<>> \in Seq(Frames)  OBVIOUS
<1>3. [run |-> FALSE, clear |-> FALSE] \in [run : BOOLEAN, clear : BOOLEAN]  OBVIOUS
<1>4. LbTypes  BY <1>1, <1>2, <1>3 DEF Lb!Init, LbTypes, LbPlaces
<1> QED  BY <1>4 DEF Lb!Init, LbInv, LbCleared, LbCounts, Running, LbStands

\* A length is one of three.
LEMMA LengthIs == \A q \in Nat : Lb!Length(q) \in 1 .. 3
BY DEF Lb!Length

\* Frames taken from a queue, added to it, and more numbers.
LEMMA WithinTail ==
  ASSUME NEW q \in Seq(Frames), q # <<>>, NEW a \in Nat, NEW b \in Nat, Within(q, a, b)
  PROVE  /\ Tail(q) \in Seq(Frames) /\ Head(q) \in Frames /\ Within(Tail(q), a, b)
         /\ a <= Head(q).seq /\ Head(q).seq < b
<1>1. /\ Len(q) \in Nat \ {0} /\ Head(q) = q[1] /\ q[1] \in Frames /\ Tail(q) \in Seq(Frames)
      /\ \A i \in 1 .. Len(Tail(q)) : i + 1 \in 1 .. Len(q) /\ Tail(q)[i] = q[i + 1]
  BY TailOf
<1>2. 1 \in 1 .. Len(q)  BY <1>1
<1> QED  BY <1>1, <1>2 DEF Within

LEMMA WithinJoined ==
  ASSUME NEW q \in Seq(Frames), NEW p \in Seq(Frames), NEW a \in Nat, NEW b \in Nat,
         Within(q, a, b), Within(p, a, b)
  PROVE  p \o q \in Seq(Frames) /\ Within(p \o q, a, b)
<1>1. PICK n \in Nat, m \in Nat : n = Len(p) /\ m = Len(q)  OBVIOUS
<1>2. /\ p \o q \in Seq(Frames) /\ Len(p \o q) = n + m
      /\ \A i \in 1 .. n + m : (p \o q)[i] = IF i <= n THEN p[i] ELSE q[i - n]
  BY <1>1, ConcatProperties
<1>3. \A i \in 1 .. n + m : (i <= n => i \in 1 .. n) /\ (~(i <= n) => i - n \in 1 .. m)
  OBVIOUS
<1> QED  BY <1>1, <1>2, <1>3 DEF Within

LEMMA WithinAppend ==
  ASSUME NEW q \in Seq(Frames), NEW f \in Frames, NEW a \in Nat, NEW b \in Nat,
         Within(q, a, b), a <= f.seq, f.seq < b
  PROVE  Append(q, f) \in Seq(Frames) /\ Within(Append(q, f), a, b)
<1>1. PICK n \in Nat : n = Len(q)  OBVIOUS
<1>2. /\ Append(q, f) \in Seq(Frames) /\ Len(Append(q, f)) = n + 1
      /\ Append(q, f)[n + 1] = f /\ \A i \in 1 .. n : Append(q, f)[i] = q[i]
  BY <1>1, AppendOf
<1>3. \A i \in 1 .. n + 1 : i \in 1 .. n \/ i = n + 1  OBVIOUS
<1> QED  BY <1>1, <1>2, <1>3 DEF Within

LEMMA WithinMore ==
  ASSUME NEW q \in Seq(Frames), NEW a \in Nat, NEW b \in Nat, Within(q, a, b)
  PROVE  Within(q, a, b + 1)
<1>1. \A i \in 1 .. Len(q) : q[i].seq \in Nat
  <2> TAKE i \in 1 .. Len(q)
  <2>1. q[i] \in Frames  OBVIOUS
  <2> QED  BY <2>1 DEF Frames
<1> QED  BY <1>1 DEF Within

\* c becomes d when one more frame is counted, after a gap (1) or not (0).
OneMore(c, d, f, gap) ==
  /\ d.seq_gap = c.seq_gap + gap
  /\ f.bad => /\ d.rx_bad = c.rx_bad + 1 /\ d.rx_ok = c.rx_ok
              /\ d.rx_ok_big = c.rx_ok_big /\ d.max_ok_len = c.max_ok_len
  /\ ~f.bad => /\ d.rx_bad = c.rx_bad /\ d.rx_ok = c.rx_ok + 1
               /\ d.rx_ok_big = c.rx_ok_big + (IF Lb!Length(f.seq) > 1 THEN 1 ELSE 0)
               /\ d.max_ok_len = IF c.max_ok_len > Lb!Length(f.seq) THEN c.max_ok_len
                                                                 ELSE Lb!Length(f.seq)

IsGap(gap, seen, f, e) == gap = 1 <=> (seen /\ f.seq # e)

\* What the checker counts of the longer queue.
LEMMA OneMoreTallied ==
  ASSUME NEW q \in Seq(Frames), NEW f \in Frames, NEW seen \in BOOLEAN, NEW e \in Nat,
         NEW c \in Tallies, Expects(q, seen, e), Tallied(c, q), NEW d \in Tallies,
         NEW gap \in {0, 1}, IsGap(gap, seen, f, e), OneMore(c, d, f, gap)
  PROVE  Expects(Append(q, f), TRUE, f.seq + 1) /\ Tallied(d, Append(q, f))
<1> DEFINE t == Append(q, f)
<1>1. PICK n \in Nat : n = Len(q)  OBVIOUS
<1>2. /\ t \in Seq(Frames) /\ Len(t) = n + 1 /\ t[n + 1] = f
      /\ \A i \in 1 .. n : t[i] = q[i]
  BY <1>1, AppendOf
<1>3. n = 0 <=> q = <<>>  BY <1>1
<1>4. /\ \A i \in 1 .. n + 1 : i \in 1 .. n \/ i = n + 1
      /\ \A i \in 1 .. n : i \in 1 .. n + 1
      /\ n + 1 \in 1 .. n + 1
  OBVIOUS
<1>5. /\ f.seq \in Nat /\ f.bad \in BOOLEAN
      /\ \A i \in 1 .. n : q[i].seq \in Nat /\ q[i].bad \in BOOLEAN
  <2>1. \A i \in 1 .. n : q[i] \in Frames  BY <1>1
  <2> QED  BY <2>1 DEF Frames
<1> HIDE DEF t
<1>6. Expects(t, TRUE, f.seq + 1)
  <2>1. t # <<>>  BY <1>2
  <2> QED  BY <2>1, <1>2 DEF Expects
<1>7. /\ c.rx_ok \in Nat /\ c.rx_bad \in Nat /\ c.seq_gap \in Nat /\ c.max_ok_len \in Nat
      /\ c.rx_ok_big \in Nat
      /\ d.rx_ok \in Nat /\ d.rx_bad \in Nat /\ d.seq_gap \in Nat /\ d.max_ok_len \in Nat
      /\ d.rx_ok_big \in Nat
  BY DEF Tallies
<1>8. d.rx_ok + d.rx_bad = n + 1
  <2>1. PICK x \in Nat, y \in Nat, x2 \in Nat, y2 \in Nat :
          x = c.rx_ok /\ y = c.rx_bad /\ x2 = d.rx_ok /\ y2 = d.rx_bad
    BY <1>7
  <2>2. x + y = n  BY <2>1, <1>1 DEF Tallied
  <2>3. (x2 = x /\ y2 = y + 1) \/ (x2 = x + 1 /\ y2 = y)  BY <2>1 DEF OneMore
  <2>4. x2 + y2 = n + 1  BY <2>2, <2>3
  <2> QED  BY <2>1, <2>4
<1>9. Exact(t) <=> Exact(q) /\ ~f.bad /\ gap = 0
  <2>1. CASE n = 0
    <3>1. Exact(t) <=> ~f.bad  BY <2>1, <1>2, <1>5 DEF Exact
    <3>2. Exact(q) /\ gap = 0  BY <2>1, <1>1, <1>3 DEF Exact, Expects, IsGap
    <3> QED  BY <3>1, <3>2
  <2>2. CASE n > 0
    <3>1. 1 \in 1 .. n /\ n \in 1 .. n /\ t[1] = q[1] /\ t[n] = q[n] /\ q[n].seq \in Nat
          /\ q[1].seq \in Nat
      BY <2>2, <1>2, <1>5
    <3>2. gap = 0 <=> f.seq = q[n].seq + 1
      BY <2>2, <1>1, <1>3 DEF Expects, IsGap
    <3>3. ASSUME Exact(t) PROVE Exact(q) /\ ~f.bad /\ gap = 0
      <4>1. \A i \in 1 .. n + 1 : ~t[i].bad /\ t[i].seq = t[1].seq + i - 1
        BY <3>3, <1>2 DEF Exact
      <4>2. Exact(q)  BY <4>1, <3>1, <1>1, <1>2, <1>4 DEF Exact
      <4>3. ~f.bad /\ f.seq = q[1].seq + (n + 1) - 1  BY <4>1, <3>1, <1>2, <1>4
      <4>4. q[n].seq = q[1].seq + n - 1  BY <4>1, <3>1, <1>4
      <4>5. f.seq = q[n].seq + 1
        <5>1. PICK a \in Nat, b \in Nat, g \in Nat : a = q[1].seq /\ b = q[n].seq /\ g = f.seq
          BY <3>1, <1>5
        <5>2. g = a + (n + 1) - 1 /\ b = a + n - 1  BY <5>1, <4>3, <4>4
        <5>3. g = b + 1  BY <5>2
        <5> QED  BY <5>1, <5>3
      <4> QED  BY <4>2, <4>3, <4>5, <3>2
    <3>4. ASSUME Exact(q), ~f.bad, gap = 0 PROVE Exact(t)
      <4>1. \A i \in 1 .. n : ~q[i].bad /\ q[i].seq = q[1].seq + i - 1
        BY <3>4, <1>1 DEF Exact
      <4>2. f.seq = q[n].seq + 1 /\ q[n].seq = q[1].seq + n - 1  BY <4>1, <3>1, <3>2, <3>4
      <4>3. f.seq = q[1].seq + (n + 1) - 1
        <5>1. PICK a \in Nat, b \in Nat, g \in Nat : a = q[1].seq /\ b = q[n].seq /\ g = f.seq
          BY <3>1, <1>5
        <5>2. g = b + 1 /\ b = a + n - 1  BY <5>1, <4>2
        <5>3. g = a + (n + 1) - 1  BY <5>2
        <5> QED  BY <5>1, <5>3
      <4>4. \A i \in 1 .. n + 1 : ~t[i].bad /\ t[i].seq = t[1].seq + i - 1
        BY <4>1, <4>3, <3>1, <3>4, <1>2, <1>4
      <4> QED  BY <4>4, <1>2 DEF Exact
    <3> QED  BY <3>3, <3>4
  <2> QED  BY <2>1, <2>2
<1>10. (d.rx_bad = 0 /\ d.seq_gap = 0) <=> Exact(t)
  <2>1. PICK x \in Nat, y \in Nat, x2 \in Nat, y2 \in Nat :
          x = c.rx_bad /\ y = c.seq_gap /\ x2 = d.rx_bad /\ y2 = d.seq_gap
    BY <1>7
  <2>2. (x = 0 /\ y = 0) <=> Exact(q)  BY <2>1 DEF Tallied
  <2>3. y2 = y + gap /\ (f.bad => x2 = x + 1) /\ (~f.bad => x2 = x)  BY <2>1 DEF OneMore
  <2>4. (y2 = 0 <=> y = 0 /\ gap = 0) /\ (x2 = 0 <=> x = 0 /\ ~f.bad)  BY <2>3
  <2> QED  BY <2>1, <2>2, <2>4, <1>9
<1>11. Lb!Length(f.seq) \in 1 .. 3  BY <1>5, LengthIs
<1>12. PICK m \in 1 .. 3 : m = Lb!Length(f.seq)  BY <1>11
<1>13. d.max_ok_len <= 3 /\ c.max_ok_len <= d.max_ok_len /\ c.rx_ok_big <= d.rx_ok_big
       /\ (~f.bad => m <= d.max_ok_len /\ (m > 1 => d.rx_ok_big > 0))
  <2>1. PICK x \in Nat, y \in Nat, x2 \in Nat, y2 \in Nat :
          x = c.max_ok_len /\ y = c.rx_ok_big /\ x2 = d.max_ok_len /\ y2 = d.rx_ok_big
    BY <1>7
  <2>2. x <= 3  BY <2>1 DEF Tallied
  <2>3. /\ f.bad => x2 = x /\ y2 = y
        /\ ~f.bad => /\ x2 = IF x > m THEN x ELSE m
                     /\ y2 = y + (IF m > 1 THEN 1 ELSE 0)
    BY <2>1, <1>12 DEF OneMore
  <2>4. x2 <= 3 /\ x <= x2 /\ y <= y2 /\ (~f.bad => m <= x2 /\ (m > 1 => y2 > 0))
    BY <2>2, <2>3
  <2> QED  BY <2>1, <2>4
<1>14. \A i \in 1 .. n + 1 :
         ~t[i].bad => /\ Lb!Length(t[i].seq) <= d.max_ok_len
                      /\ Lb!Length(t[i].seq) > 1 => d.rx_ok_big > 0
  <2> TAKE i \in 1 .. n + 1
  <2>1. CASE i = n + 1  BY <2>1, <1>2, <1>12, <1>13
  <2>2. CASE i \in 1 .. n
    <3>1. PICK k \in 1 .. 3 : k = Lb!Length(q[i].seq)  BY <2>2, <1>5, LengthIs
    <3>2. ~q[i].bad => k <= c.max_ok_len /\ (k > 1 => c.rx_ok_big > 0)
      BY <2>2, <3>1, <1>1 DEF Tallied
    <3>3. ~q[i].bad => k <= d.max_ok_len /\ (k > 1 => d.rx_ok_big > 0)
      BY <3>2, <1>7, <1>13
    <3> QED  BY <2>2, <3>1, <3>3, <1>2
  <2> QED  BY <2>1, <2>2, <1>4
<1>15. Tallied(d, t)  BY <1>2, <1>8, <1>10, <1>13, <1>14 DEF Tallied
<1> QED  BY <1>6, <1>15 DEF t
\* The generator starts a frame ...
LEMMA LbTxStarts == LbInv /\ Lb!TxStart => LbInv'
<1> SUFFICES ASSUME LbInv, Lb!TxStart PROVE LbInv'  OBVIOUS
<1>1. /\ ctrl.run /\ busy' = TRUE
      /\ UNCHANGED <<lb_pc, lb_s, ctrl, tx_seq, loop, cnt, seen_any, exp_seq, first, back>>
  BY DEF Lb!TxStart, Lb!host
<1>2. LbTypes /\ LbCleared /\ LbCounts /\ LbStands  BY DEF LbInv
<1>3. LbTypes'  BY <1>1, <1>2 DEF LbTypes
<1>4. LbCleared' /\ LbCounts'  BY <1>1, <1>2 DEF LbCleared, LbCounts, Running
<1>5. LbStands'  BY <1>1, <1>2 DEF LbStands, Lb!Checks, Lb!clean
<1> QED  BY <1>3, <1>4, <1>5 DEF LbInv

\* ... and completes it: it is of the run if the run has begun.
LEMMA LbTxEnds == LbInv /\ Lb!TxEnd => LbInv'
<1> SUFFICES ASSUME LbInv, Lb!TxEnd PROVE LbInv'  OBVIOUS
<1>1. /\ busy /\ busy' = FALSE /\ tx_seq' = tx_seq + 1
      /\ loop' = Append(loop, [seq |-> tx_seq, bad |-> FALSE])
      /\ cnt' = (IF ctrl.clear THEN cnt ELSE [cnt EXCEPT !.tx_frames = @ + 1])
      /\ UNCHANGED <<lb_pc, lb_s, ctrl, seen_any, exp_seq, first, back>>
  BY DEF Lb!TxEnd, Lb!host
<1>2. LbTypes /\ LbCleared /\ LbCounts /\ LbStands  BY DEF LbInv
<1>3. [seq |-> tx_seq, bad |-> FALSE] \in Frames  BY <1>2 DEF LbTypes, Frames
<1>4. loop' \in Seq(Frames)  BY <1>1, <1>2, <1>3, AppendOf DEF LbTypes
<1>5. /\ cnt' \in Tallies
      /\ ~ctrl.clear => cnt'.tx_frames = cnt.tx_frames + 1
      /\ \A q : Tallied(cnt, q) => Tallied(cnt', q)
  <2>1. CASE ctrl.clear  BY <2>1, <1>1, <1>2 DEF LbTypes
  <2>2. CASE ~ctrl.clear
    <3>1. cnt \in Tallies /\ cnt' = [cnt EXCEPT !.tx_frames = @ + 1]
      BY <2>2, <1>1, <1>2 DEF LbTypes
    <3>2. cnt' \in Tallies /\ cnt'.tx_frames = cnt.tx_frames + 1 /\ cnt'.rx_ok = cnt.rx_ok
          /\ cnt'.rx_bad = cnt.rx_bad /\ cnt'.seq_gap = cnt.seq_gap
          /\ cnt'.max_ok_len = cnt.max_ok_len /\ cnt'.rx_ok_big = cnt.rx_ok_big
      BY <3>1 DEF Tallies
    <3> QED  BY <3>2 DEF Tallied
  <2> QED  BY <2>1, <2>2
<1>6. LbTypes'
  <2>1. tx_seq' \in Nat /\ busy' \in BOOLEAN
    <3>1. tx_seq' = tx_seq + 1 /\ busy' = FALSE  BY <1>1
    <3>2. tx_seq \in Nat  BY <1>2 DEF LbTypes
    <3>3. tx_seq' \in Nat  BY <3>1, <3>2
    <3>4. busy' \in BOOLEAN  BY <3>1, Zenon
    <3> QED  BY <3>3, <3>4
  <2>2. UNCHANGED <<lb_pc, ctrl, seen_any, exp_seq, first, back>>  BY <1>1
  <2> QED  BY <2>1, <2>2, <1>2, <1>4, <1>5 DEF LbTypes
<1>7. LbCleared'  BY <1>1, <1>2 DEF LbCleared
<1>8. LbCounts'
  <2> SUFFICES ASSUME Running PROVE LbCounts'  BY <1>1 DEF LbCounts, Running
  <2>1. /\ first <= tx_seq /\ cnt.tx_frames = tx_seq - first
        /\ Within(loop, first, tx_seq) /\ Within(back, first, tx_seq)
        /\ Expects(back, seen_any, exp_seq) /\ Tallied(cnt, back) /\ ~ctrl.clear
    BY <1>1, <1>2 DEF LbCounts
  <2>2. loop \in Seq(Frames) /\ back \in Seq(Frames) /\ first \in Nat /\ tx_seq \in Nat
    BY <1>2 DEF LbTypes
  <2>3. Within(loop, first, tx_seq + 1) /\ Within(back, first, tx_seq + 1)
    BY <2>1, <2>2, WithinMore
  <2>4. tx_seq + 1 \in Nat /\ tx_seq < tx_seq + 1 /\ first <= tx_seq + 1  BY <2>1, <2>2
  <2>5. Within(loop', first, tx_seq + 1)
    BY <2>1, <2>2, <2>3, <2>4, <1>1, <1>3, WithinAppend
  <2>6. cnt'.tx_frames = tx_seq + 1 - first  BY <2>1, <2>2, <1>5
  <2>7. Tallied(cnt', back) /\ UNCHANGED <<first, back, seen_any, exp_seq, ctrl>>
    BY <2>1, <1>1, <1>5
  <2>8. first <= tx_seq' /\ cnt'.tx_frames = tx_seq' - first /\ Within(loop', first, tx_seq')
        /\ Within(back, first, tx_seq')
    <3>1. tx_seq' = tx_seq + 1  BY <1>1
    <3>2. first <= tx_seq'  BY <3>1, <2>4
    <3>3. cnt'.tx_frames = tx_seq' - first  BY <3>1, <2>2, <2>6
    <3>4. Within(loop', first, tx_seq') /\ Within(back, first, tx_seq')
      BY <3>1, <2>3, <2>5, Zenon
    <3> QED  BY <3>2, <3>3, <3>4
  <2>9. back' = back /\ first' = first /\ ctrl' = ctrl /\ seen_any' = seen_any
        /\ exp_seq' = exp_seq
    BY <2>7
  <2> QED  BY <2>1, <2>7, <2>8, <2>9 DEF LbCounts
<1>9. LbStands'  BY <1>1, <1>2 DEF LbStands, Lb!Checks, Lb!clean
<1> QED  BY <1>6, <1>7, <1>8, <1>9 DEF LbInv

\* The loop drops, damages or repeats a frame.
LEMMA LbHurts == LbInv /\ (Lb!Drop \/ Lb!Damage \/ Lb!Repeat) => LbInv'
<1> SUFFICES ASSUME LbInv, Lb!Drop \/ Lb!Damage \/ Lb!Repeat PROVE LbInv'  OBVIOUS
<1>2. LbTypes /\ LbCleared /\ LbCounts /\ LbStands  BY DEF LbInv
<1>1. /\ loop # <<>>
      /\ UNCHANGED <<lb_pc, lb_s, ctrl, busy, tx_seq, cnt, seen_any, exp_seq, first, back>>
  BY DEF Lb!Drop, Lb!Damage, Lb!Repeat, Lb!Hurt, Lb!host
<1>3. /\ loop \in Seq(Frames) /\ Head(loop) \in Frames /\ Tail(loop) \in Seq(Frames)
  BY <1>1, <1>2, TailOf DEF LbTypes
<1>4. PICK new \in Seq(Frames) :
        /\ loop' = new \o Tail(loop)
        /\ \A i \in 1 .. Len(new) : new[i].seq = Head(loop).seq
  <2>1. CASE Lb!Drop
    <3> DEFINE new == <<>>
    <3>1. new \in Seq(Frames) /\ Len(new) = 0  OBVIOUS
    <3>2. loop' = new \o Tail(loop)  BY <2>1 DEF Lb!Drop, Lb!Hurt
    <3> HIDE DEF new
    <3>3. \A i \in 1 .. Len(new) : new[i].seq = Head(loop).seq  BY <3>1
    <3> QED  BY <3>1, <3>2, <3>3
  <2>2. CASE Lb!Damage
    <3> DEFINE g == [Head(loop) EXCEPT !.bad = TRUE]
    <3>1. g \in Frames /\ g.seq = Head(loop).seq  BY <1>3 DEF Frames
    <3>2. loop' = <<g>> \o Tail(loop)  BY <2>2 DEF Lb!Damage, Lb!Hurt
    <3> HIDE DEF g
    <3> DEFINE new == <<g>>
    <3>3. new \in Seq(Frames) /\ Len(new) = 1 /\ new[1] = g  BY <3>1
    <3>4. loop' = new \o Tail(loop)  BY <3>2
    <3> HIDE DEF new
    <3>5. \A i \in 1 .. 1 : i = 1  OBVIOUS
    <3>6. \A i \in 1 .. Len(new) : new[i].seq = Head(loop).seq  BY <3>1, <3>3, <3>5
    <3> QED  BY <3>3, <3>4, <3>6
  <2>3. CASE Lb!Repeat
    <3> DEFINE g == Head(loop)
    <3>1. g \in Frames  BY <1>3
    <3>2. loop' = <<g, g>> \o Tail(loop)  BY <2>3 DEF Lb!Repeat, Lb!Hurt
    <3> HIDE DEF g
    <3>3. <<g, g>> \in Seq(Frames) /\ Len(<<g, g>>) = 2
          /\ \A i \in 1 .. 2 : <<g, g>>[i] = g
      BY <3>1
    <3> QED  BY <3>1, <3>2, <3>3 DEF g
  <2> QED  BY <2>1, <2>2, <2>3
<1>5. loop' \in Seq(Frames)  BY <1>3, <1>4, ConcatProperties
<1>6. LbTypes'  BY <1>1, <1>2, <1>5 DEF LbTypes
<1>7. LbCounts'
  <2> SUFFICES ASSUME Running PROVE LbCounts'  BY <1>1 DEF LbCounts, Running
  <2>1. Within(loop, first, tx_seq) /\ ~ctrl.clear  BY <1>1, <1>2 DEF LbCounts
  <2>2. first \in Nat /\ tx_seq \in Nat  BY <1>2 DEF LbTypes
  <2>3. /\ Within(Tail(loop), first, tx_seq)
        /\ first <= Head(loop).seq /\ Head(loop).seq < tx_seq
    BY <2>1, <2>2, <1>1, <1>3, WithinTail
  <2>4. Within(new, first, tx_seq)  BY <2>3, <1>4 DEF Within
  <2>5. Within(loop', first, tx_seq)
    BY <2>2, <2>3, <2>4, <1>3, <1>4, WithinJoined
  <2> QED  BY <2>1, <2>5, <1>1, <1>2 DEF LbCounts
<1>8. LbCleared'  BY <1>1, <1>2 DEF LbCleared
<1>9. LbStands'  BY <1>1, <1>2 DEF LbStands, Lb!Checks, Lb!clean
<1> QED  BY <1>6, <1>7, <1>8, <1>9 DEF LbInv

\* The checker counts a frame that came back.
LEMMA LbReceives == LbInv /\ Lb!RxFrame => LbInv'
<1> SUFFICES ASSUME LbInv, Lb!RxFrame PROVE LbInv'  OBVIOUS
<1> DEFINE f == Head(loop)
<1>1. /\ loop # <<>> /\ loop' = Tail(loop) /\ back' = Append(back, f)
      /\ IF ctrl.clear THEN UNCHANGED <<cnt, seen_any, exp_seq>>
                       ELSE cnt' = Lb!Judged(f) /\ seen_any' = TRUE /\ exp_seq' = f.seq + 1
      /\ UNCHANGED <<lb_pc, lb_s, ctrl, busy, tx_seq, first>>
  BY DEF Lb!RxFrame, Lb!host
<1>2. LbTypes /\ LbCleared /\ LbCounts /\ LbStands  BY DEF LbInv
<1>3. f \in Frames /\ Tail(loop) \in Seq(Frames) /\ loop \in Seq(Frames) /\ back \in Seq(Frames)
  BY <1>1, <1>2, TailOf DEF LbTypes
<1>4. f.seq \in Nat /\ f.bad \in BOOLEAN  BY <1>3 DEF Frames
<1> HIDE DEF f
<1>5. PICK gap \in {0, 1}, m \in 1 .. 3 :
        /\ gap = 1 <=> (seen_any /\ f.seq # exp_seq)
        /\ m = Lb!Length(f.seq)
        /\ Lb!Judged(f) = IF f.bad THEN [cnt EXCEPT !.rx_bad = @ + 1, !.seq_gap = @ + gap]
                          ELSE [cnt EXCEPT !.rx_ok = @ + 1, !.seq_gap = @ + gap,
                                           !.rx_ok_big = @ + (IF m > 1 THEN 1 ELSE 0),
                                           !.max_ok_len = IF @ > m THEN @ ELSE m]
  <2>1. PICK m \in 1 .. 3 : m = Lb!Length(f.seq)  BY <1>4, LengthIs
  <2>2. m >= 2 <=> m > 1  OBVIOUS
  <2>3. CASE seen_any /\ f.seq # exp_seq
    BY <2>1, <2>2, <2>3 DEF Lb!Judged, Lb!Larger, Lb!Big
  <2>4. CASE ~(seen_any /\ f.seq # exp_seq)
    <3>1. 0 \in {0, 1} /\ 0 # 1  OBVIOUS
    <3>2. Lb!Judged(f) = IF f.bad THEN [cnt EXCEPT !.rx_bad = @ + 1, !.seq_gap = @ + 0]
                         ELSE [cnt EXCEPT !.rx_ok = @ + 1, !.seq_gap = @ + 0,
                                          !.rx_ok_big = @ + (IF m > 1 THEN 1 ELSE 0),
                                          !.max_ok_len = IF @ > m THEN @ ELSE m]
      BY <2>1, <2>2, <2>4 DEF Lb!Judged, Lb!Larger, Lb!Big
    <3> QED  BY <2>1, <2>4, <3>1, <3>2
  <2> QED  BY <2>3, <2>4
<1>6. cnt \in Tallies  BY <1>2 DEF LbTypes
<1>0. /\ cnt.rx_ok \in Nat /\ cnt.rx_bad \in Nat /\ cnt.seq_gap \in Nat
      /\ cnt.max_ok_len \in Nat /\ cnt.rx_ok_big \in Nat /\ cnt.tx_frames \in Nat
  BY <1>6 DEF Tallies
<1>7. PICK d \in Tallies :
        /\ d = Lb!Judged(f) /\ d.tx_frames = cnt.tx_frames
        /\ d.seq_gap = cnt.seq_gap + gap
        /\ f.bad => /\ d.rx_bad = cnt.rx_bad + 1 /\ d.rx_ok = cnt.rx_ok
                    /\ d.rx_ok_big = cnt.rx_ok_big /\ d.max_ok_len = cnt.max_ok_len
        /\ ~f.bad => /\ d.rx_bad = cnt.rx_bad /\ d.rx_ok = cnt.rx_ok + 1
                     /\ d.rx_ok_big = cnt.rx_ok_big + (IF m > 1 THEN 1 ELSE 0)
                     /\ d.max_ok_len = IF cnt.max_ok_len > m THEN cnt.max_ok_len ELSE m
  <2>1. CASE f.bad
    <3>0. cnt.rx_bad + 1 \in Nat /\ cnt.seq_gap + gap \in Nat  BY <1>0
    <3>1. Lb!Judged(f) \in Tallies
      <4>1. Lb!Judged(f) = [cnt EXCEPT !.rx_bad = cnt.rx_bad + 1, !.seq_gap = cnt.seq_gap + gap]
        BY <2>1, <1>5
      <4> QED  BY <4>1, <3>0, <1>6 DEF Tallies
    <3> QED  BY <2>1, <3>1, <1>5, <1>6 DEF Tallies
  <2>2. CASE ~f.bad
    <3>0. /\ cnt.rx_ok + 1 \in Nat /\ cnt.seq_gap + gap \in Nat
          /\ cnt.rx_ok_big + (IF m > 1 THEN 1 ELSE 0) \in Nat
          /\ (IF cnt.max_ok_len > m THEN cnt.max_ok_len ELSE m) \in Nat
      BY <1>0
    <3>1. Lb!Judged(f) \in Tallies
      <4>1. Lb!Judged(f) = [cnt EXCEPT !.rx_ok = cnt.rx_ok + 1, !.seq_gap = cnt.seq_gap + gap,
                                       !.rx_ok_big = cnt.rx_ok_big + (IF m > 1 THEN 1 ELSE 0),
                                       !.max_ok_len = IF cnt.max_ok_len > m THEN cnt.max_ok_len
                                                                            ELSE m]
        BY <2>2, <1>5
      <4> QED  BY <4>1, <3>0, <1>6 DEF Tallies
    <3> QED  BY <2>2, <3>1, <1>5, <1>6 DEF Tallies
  <2> QED  BY <2>1, <2>2
<1>8. back' \in Seq(Frames)  BY <1>1, <1>3, AppendOf
<1>9. LbTypes'
  <2>1. cnt' \in Tallies /\ seen_any' \in BOOLEAN /\ exp_seq' \in Nat
    <3>1. CASE ctrl.clear  BY <3>1, <1>1, <1>2 DEF LbTypes
    <3>2. CASE ~ctrl.clear
      <4>1. f.seq + 1 \in Nat  BY <1>4
      <4>2. cnt' = d /\ seen_any' = TRUE /\ exp_seq' = f.seq + 1  BY <3>2, <1>1, <1>7
      <4> QED  BY <4>1, <4>2
    <3> QED  BY <3>1, <3>2
  <2> QED  BY <2>1, <1>1, <1>2, <1>3, <1>8 DEF LbTypes
<1>10. LbCleared'
  <2> SUFFICES ASSUME lb_pc = "cleared" PROVE LbCleared'  BY <1>1 DEF LbCleared
  <2>1. ctrl.clear  BY <1>2 DEF LbCleared
  <2> QED  BY <2>1, <1>1, <1>2 DEF LbCleared
<1>11. LbCounts'
  <2> SUFFICES ASSUME Running PROVE LbCounts'  BY <1>1 DEF LbCounts, Running
  <2>1. /\ first <= tx_seq /\ cnt.tx_frames = tx_seq - first
        /\ Within(loop, first, tx_seq) /\ Within(back, first, tx_seq)
        /\ Expects(back, seen_any, exp_seq) /\ Tallied(cnt, back) /\ ~ctrl.clear
    BY <1>1, <1>2 DEF LbCounts
  <2>2. first \in Nat /\ tx_seq \in Nat /\ seen_any \in BOOLEAN /\ exp_seq \in Nat
    BY <1>2 DEF LbTypes
  <2>3. Within(Tail(loop), first, tx_seq) /\ first <= f.seq /\ f.seq < tx_seq
    BY <2>1, <2>2, <1>1, <1>3, WithinTail DEF f
  <2>4. Within(back', first, tx_seq)  BY <2>1, <2>2, <2>3, <1>1, <1>3, WithinAppend
  <2>5. Expects(Append(back, f), TRUE, f.seq + 1) /\ Tallied(d, Append(back, f))
    <3>1. /\ back \in Seq(Frames) /\ f \in Frames /\ seen_any \in BOOLEAN /\ exp_seq \in Nat
          /\ cnt \in Tallies /\ d \in Tallies /\ gap \in {0, 1}
      BY <2>2, <1>3, <1>6
    <3>2. OneMore(cnt, d, f, gap)  BY <1>5, <1>7 DEF OneMore
    <3>3. IsGap(gap, seen_any, f, exp_seq)  BY <1>5 DEF IsGap
    <3>4. Expects(back, seen_any, exp_seq) /\ Tallied(cnt, back)  BY <2>1
    <3> QED  BY <3>1, <3>2, <3>3, <3>4, OneMoreTallied
  <2>6. cnt' = d /\ seen_any' = TRUE /\ exp_seq' = f.seq + 1  BY <2>1, <1>1, <1>7
  <2>7. Expects(back', seen_any', exp_seq') /\ Tallied(cnt', back')  BY <2>5, <2>6, <1>1
  <2> QED  BY <2>1, <2>3, <2>4, <2>6, <2>7, <1>1, <1>7 DEF LbCounts
<1>12. LbStands'
  <2>1. lb_pc \notin {"final", "judge", "pass", "fail"}  BY <1>1, <1>2 DEF LbStands
  <2> QED  BY <2>1, <1>1, <1>2 DEF LbStands
<1> QED  BY <1>9, <1>10, <1>11, <1>12 DEF LbInv
\* Steps that move only the host.
LbFrame == UNCHANGED <<ctrl, busy, tx_seq, loop, cnt, seen_any, exp_seq>>

LEMMA LbHost ==
  ASSUME LbInv, LbFrame, UNCHANGED <<first, back>>, lb_pc' \in LbPlaces,
         LbCleared', LbStands', Running' => Running
  PROVE  LbInv'
<1>1. LbTypes /\ LbCounts  BY DEF LbInv
<1>2. LbTypes'  BY <1>1 DEF LbTypes, LbFrame
<1>3. LbCounts'
  <2> SUFFICES ASSUME Running PROVE LbCounts'  BY DEF LbCounts
  <2> QED  BY <1>1 DEF LbCounts, LbFrame
<1> QED  BY <1>2, <1>3 DEF LbInv

\* What a write of the control bits does: the run bit is set or cleared, or all is cleared.
RunBit(run) == ctrl' = [run |-> run, clear |-> FALSE] /\ UNCHANGED <<cnt, seen_any>>
ClearBit    == ctrl' = [run |-> FALSE, clear |-> TRUE] /\ cnt' = Lb!Zero /\ seen_any' = FALSE
NotWritten  == UNCHANGED <<ctrl, cnt, seen_any>>

WriteFrame == UNCHANGED <<busy, tx_seq, loop, exp_seq, first, back>>

\* Before the run: the speed is set, and everything cleared.
LEMMA LbClears == LbInv /\ (Lb!SetSpeed \/ Lb!Clear) => LbInv'
<1> SUFFICES ASSUME LbInv, Lb!SetSpeed \/ Lb!Clear PROVE LbInv'  OBVIOUS
<1>2. LbTypes  BY DEF LbInv
<1>3. seen_any \in BOOLEAN  BY <1>2 DEF LbTypes
<1>1. /\ WriteFrame /\ lb_pc' \in {"speed", "clear", "cleared", "died"}
      /\ RunBit(FALSE) \/ ClearBit \/ NotWritten
      /\ lb_pc' = "cleared" => ClearBit
  <2>1. CASE Lb!SetSpeed
    <3>1. WriteFrame /\ lb_pc' \in {"speed", "clear", "died"}
      BY <2>1 DEF Lb!SetSpeed, Lb!Write, Lb!Put, Lb!Failed, Lb!board, WriteFrame
    <3>2. RunBit(FALSE) \/ NotWritten
      BY <2>1, <1>3 DEF Lb!SetSpeed, Lb!Write, Lb!Put, Lb!board, RunBit, NotWritten
    <3> QED  BY <3>1, <3>2
  <2>2. CASE Lb!Clear
    <3>1. WriteFrame /\ lb_pc = "clear" /\ lb_pc' \in {"clear", "cleared", "died"}
      BY <2>2 DEF Lb!Clear, Lb!Write, Lb!Put, Lb!Failed, Lb!board, WriteFrame
    <3>2. ClearBit \/ NotWritten
      BY <2>2, <1>3 DEF Lb!Clear, Lb!Write, Lb!Put, Lb!board, ClearBit, NotWritten
    <3>3. lb_pc' = "cleared" => ClearBit
      BY <2>2, <1>3, <3>1 DEF Lb!Clear, Lb!Write, Lb!Put, Lb!Failed, ClearBit
    <3> QED  BY <3>1, <3>2, <3>3
  <2> QED  BY <2>1, <2>2
<1>4. /\ ctrl' \in [run : BOOLEAN, clear : BOOLEAN] /\ seen_any' \in BOOLEAN /\ cnt' \in Tallies
  <2>1. Lb!Zero \in Tallies  BY DEF Lb!Zero, Tallies
  <2>2. CASE RunBit(FALSE)  BY <2>2, <1>2 DEF RunBit, LbTypes
  <2>3. CASE ClearBit  BY <2>1, <2>3 DEF ClearBit
  <2>4. CASE NotWritten  BY <2>4, <1>2 DEF NotWritten, LbTypes
  <2> QED  BY <2>2, <2>3, <2>4, <1>1
<1>5. LbTypes'  BY <1>1, <1>2, <1>4 DEF LbTypes, WriteFrame, LbPlaces
<1>6. LbCleared'  BY <1>1 DEF LbCleared, ClearBit
<1>7. LbCounts' /\ LbStands'  BY <1>1 DEF LbCounts, Running, LbStands
<1> QED  BY <1>5, <1>6, <1>7 DEF LbInv

\* The sleep ends when nothing is on its way: the run begins here.
LEMMA LbSleeps == LbInv /\ Lb!Sleep => LbInv'
<1> SUFFICES ASSUME LbInv, Lb!Sleep PROVE LbInv'  OBVIOUS
<1>1. /\ lb_pc = "cleared" /\ ~busy /\ loop = <<>> /\ lb_pc' \in {"run", "unclear"}
      /\ first' = tx_seq /\ back' = <<>> /\ LbFrame
  BY DEF Lb!Sleep, Lb!Drained, Lb!board, LbFrame
<1>2. LbTypes /\ ctrl = [run |-> FALSE, clear |-> TRUE] /\ cnt = Lb!Zero /\ ~seen_any
  BY <1>1 DEF LbInv, LbCleared
<1>3. LbTypes'
  <2>1. back' \in Seq(Frames)  BY <1>1
  <2> QED  BY <2>1, <1>1, <1>2 DEF LbTypes, LbFrame, LbPlaces
<1>4. LbCounts'
  <2>1. first' <= tx_seq /\ Lb!Zero.tx_frames = tx_seq - first'
    BY <1>1, <1>2 DEF LbTypes, Lb!Zero
  <2>2. Within(<<>>, first', tx_seq)  BY DEF Within
  <2>3. Expects(<<>>, FALSE, exp_seq)  BY DEF Expects
  <2>4. Tallied(Lb!Zero, <<>>)  BY DEF Tallied, Exact, Lb!Zero
  <2>5. /\ loop' = <<>> /\ back' = <<>> /\ cnt' = Lb!Zero /\ seen_any' = FALSE
        /\ exp_seq' = exp_seq /\ tx_seq' = tx_seq /\ first' = tx_seq /\ ~ctrl'.run /\ ~busy'
    BY <1>1, <1>2 DEF LbFrame, LbTypes
  <2> QED  BY <2>1, <2>2, <2>3, <2>4, <2>5 DEF LbCounts
<1>5. LbCleared' /\ LbStands'  BY <1>1 DEF LbCleared, LbStands
<1> QED  BY <1>3, <1>4, <1>5 DEF LbInv

\* The run: the clear bit goes down, the run bit up and down.
LEMMA LbWrites == LbInv /\ (Lb!Unclear \/ Lb!Run \/ Lb!Stop) => LbInv'
<1> SUFFICES ASSUME LbInv, Lb!Unclear \/ Lb!Run \/ Lb!Stop PROVE LbInv'  OBVIOUS
<1>1. LbTypes /\ seen_any \in BOOLEAN  BY DEF LbInv, LbTypes
<1>2. /\ WriteFrame /\ lb_pc \in {"unclear", "run", "stop"}
      /\ lb_pc' \in {"unclear", "run", "traffic", "stop", "stopped", "died"}
      /\ RunBit(TRUE) \/ RunBit(FALSE) \/ NotWritten
      /\ lb_pc' = "stopped" => RunBit(FALSE)
  <2>1. CASE Lb!Unclear
    <3>1. WriteFrame /\ lb_pc = "unclear" /\ lb_pc' \in {"unclear", "run", "died"}
      BY <2>1 DEF Lb!Unclear, Lb!Write, Lb!Put, Lb!Failed, Lb!board, WriteFrame
    <3>2. RunBit(FALSE) \/ NotWritten
      BY <2>1, <1>1 DEF Lb!Unclear, Lb!Write, Lb!Put, Lb!board, RunBit, NotWritten
    <3> QED  BY <3>1, <3>2
  <2>2. CASE Lb!Run
    <3>1. WriteFrame /\ lb_pc = "run" /\ lb_pc' \in {"run", "traffic", "died"}
      BY <2>2 DEF Lb!Run, Lb!Write, Lb!Put, Lb!Failed, Lb!board, WriteFrame
    <3>2. RunBit(TRUE) \/ NotWritten
      BY <2>2, <1>1 DEF Lb!Run, Lb!Write, Lb!Put, Lb!board, RunBit, NotWritten
    <3> QED  BY <3>1, <3>2
  <2>3. CASE Lb!Stop
    <3>1. WriteFrame /\ lb_pc = "stop" /\ lb_pc' \in {"stop", "stopped", "died"}
      BY <2>3 DEF Lb!Stop, Lb!Write, Lb!Put, Lb!Failed, Lb!board, WriteFrame
    <3>2. RunBit(FALSE) \/ NotWritten
      BY <2>3, <1>1 DEF Lb!Stop, Lb!Write, Lb!Put, Lb!board, RunBit, NotWritten
    <3>3. lb_pc' = "stopped" => RunBit(FALSE)
      BY <2>3, <1>1, <3>1 DEF Lb!Stop, Lb!Write, Lb!Put, Lb!Failed, RunBit
    <3> QED  BY <3>1, <3>2, <3>3
  <2> QED  BY <2>1, <2>2, <2>3
<1>3. LbCounts /\ Running  BY <1>2 DEF LbInv, Running
<1>4. /\ UNCHANGED <<cnt, seen_any>> /\ ctrl' \in [run : BOOLEAN, clear : BOOLEAN]
      /\ ctrl'.clear => ctrl' = ctrl
      /\ lb_pc' = "stopped" => ~ctrl'.run
  <2>1. ASSUME NEW run \in BOOLEAN, RunBit(run)
        PROVE  /\ UNCHANGED <<cnt, seen_any>> /\ ctrl' \in [run : BOOLEAN, clear : BOOLEAN]
               /\ ~ctrl'.clear /\ ctrl'.run = run
    BY <2>1 DEF RunBit
  <2>2. CASE RunBit(TRUE) \/ RunBit(FALSE)  BY <2>1, <2>2, <1>2
  <2>3. CASE NotWritten
    <3>1. UNCHANGED <<cnt, seen_any>> /\ ctrl' = ctrl  BY <2>3 DEF NotWritten
    <3>2. lb_pc' = "stopped" => ~ctrl'.run  BY <2>1, <1>2
    <3> QED  BY <3>1, <3>2, <1>1 DEF LbTypes
  <2> QED  BY <2>2, <2>3, <1>2
<1>5. LbTypes'  BY <1>1, <1>2, <1>4 DEF LbTypes, LbPlaces, WriteFrame
<1>6. LbCounts'  BY <1>2, <1>3, <1>4 DEF LbCounts, Running, WriteFrame
<1>7. LbCleared' /\ LbStands'  BY <1>2, <1>4 DEF LbCleared, LbStands
<1> QED  BY <1>5, <1>6, <1>7 DEF LbInv

\* The traffic ends, what is on its way comes back, and the counters are read and judged.
LEMMA LbJudges ==
  LbInv /\ (Lb!Traffic \/ Lb!Drain \/ Lb!Final \/ Lb!Judge) => LbInv'
<1> SUFFICES ASSUME LbInv, Lb!Traffic \/ Lb!Drain \/ Lb!Final \/ Lb!Judge PROVE LbInv'  OBVIOUS
<1>1. /\ LbFrame /\ UNCHANGED <<first, back>>
      /\ \/ lb_pc = "traffic" /\ lb_pc' \in {"traffic", "stop", "died"}
         \/ lb_pc = "stopped" /\ ~busy /\ loop = <<>> /\ lb_pc' = "final"
         \/ lb_pc = "final" /\ lb_s' = cnt /\ lb_pc' = "judge"
         \/ lb_pc = "final" /\ lb_pc' \in {"final", "died"}
         \/ lb_pc = "judge" /\ lb_pc' = (IF Lb!Checks THEN "pass" ELSE "fail") /\ lb_s' = lb_s
  BY DEF Lb!Traffic, Lb!Drain, Lb!Drained, Lb!Final, Lb!Judge, Lb!Failed, Lb!board, LbFrame
<1>2. LbStands  BY DEF LbInv
<1>3. LbStands'
  <2>1. CASE lb_pc = "judge"
    BY <2>1, <1>1, <1>2 DEF LbStands, LbFrame, Lb!Checks, Lb!clean
  <2>2. CASE lb_pc # "judge"
    BY <2>2, <1>1, <1>2 DEF LbStands, LbFrame
  <2> QED  BY <2>1, <2>2
<1>4. LbCleared' /\ lb_pc' \in LbPlaces /\ Running
  BY <1>1 DEF LbCleared, LbPlaces, Running
<1> QED  BY <1>1, <1>3, <1>4, LbHost

\* The script starts, goes on with the next speed, or is run again.
LEMMA LbMains ==
  LbInv /\ (\/ \E which \in {"gmii", "rgmii"} : Lb!Main(which)
            \/ Lb!NotReady \/ Lb!NextSpeed \/ Lb!Rerun) => LbInv'
<1> SUFFICES ASSUME LbInv,
                    \/ \E which \in {"gmii", "rgmii"} : Lb!Main(which)
                    \/ Lb!NotReady \/ Lb!NextSpeed \/ Lb!Rerun
             PROVE  LbInv'
  OBVIOUS
<1>1. LbFrame /\ UNCHANGED <<first, back>> /\ lb_pc' \in {"clear", "speed", "refused", "main"}
  BY DEF Lb!Main, Lb!NotReady, Lb!NextSpeed, Lb!Rerun, Lb!board, LbFrame
<1>2. LbCleared' /\ LbStands' /\ lb_pc' \in LbPlaces /\ ~Running'
  BY <1>1 DEF LbCleared, LbStands, LbPlaces, Running
<1> QED  BY <1>1, <1>2, LbHost

LEMMA LbRuns == Spec => Lb!Spec
<1>1. Init => Lb!Init
  BY DEF Init
<1>2. [Next]_allVars => [Lb!Next]_(Lb!vars)
  BY DEF Next, allVars, RunSfp, RunPause, RunStats, RunLb, RunUart, RunThr, RunReg, lbVars,
         Lb!vars, Lb!host, Lb!board
<1> QED  BY <1>1, <1>2, PTL DEF Spec, Lb!Spec

\* Frames of the run that all came back unhurt and numbered on are the run's, from its
\* first to its last.
LEMMA WholeIs ==
  ASSUME LbInv, Running
  PROVE  /\ (Exact(back) /\ Len(back) = tx_seq - first) <=> Lb!Whole
<1>1. /\ back \in Seq(Frames) /\ first \in Nat /\ tx_seq \in Nat /\ first <= tx_seq
      /\ Within(back, first, tx_seq)
  BY DEF LbInv, LbTypes, LbCounts
<1>2. PICK n \in Nat : n = tx_seq - first  BY <1>1
<1> DEFINE w == [i \in 1 .. n |-> [seq |-> first + i - 1, bad |-> FALSE]]
<1>3. Lb!Whole <=> back = w  BY <1>2 DEF Lb!Whole
<1>4. w \in Seq(Frames) /\ Len(w) = n
      /\ \A i \in 1 .. n : w[i].seq = first + i - 1 /\ ~w[i].bad
  <2>1. \A i \in 1 .. n : [seq |-> first + i - 1, bad |-> FALSE] \in Frames
    BY <1>1 DEF Frames
  <2> QED  BY <2>1
<1> HIDE DEF w
<1>5. ASSUME back = w PROVE Exact(back) /\ Len(back) = n
  <2>1. CASE n = 0  BY <2>1, <1>4, <1>5 DEF Exact
  <2>2. CASE n > 0
    <3>1. 1 \in 1 .. n  BY <2>2
    <3>2. w[1].seq = first  BY <3>1, <1>1, <1>4
    <3> QED  BY <3>2, <1>4, <1>5 DEF Exact
  <2> QED  BY <2>1, <2>2
<1>6. ASSUME Exact(back), Len(back) = n PROVE back = w
  <2>1. \A i \in 1 .. n : back[i] \in Frames  BY <1>1, <1>6
  <2>2. \A i \in 1 .. n : /\ ~back[i].bad /\ back[i].seq = back[1].seq + i - 1
                          /\ first <= back[i].seq /\ back[i].seq < tx_seq
    BY <1>1, <1>6 DEF Exact, Within
  <2>3. \A i \in 1 .. n : back[i].seq = first + i - 1
    <3>1. CASE n = 0  BY <3>1
    <3>2. CASE n > 0
      <4>1. 1 \in 1 .. n /\ n \in 1 .. n  BY <3>2
      <4>2. PICK a \in Nat : a = back[1].seq  BY <4>1, <2>1 DEF Frames
      <4>3. first <= a /\ back[n].seq = a + n - 1 /\ back[n].seq < tx_seq
        BY <4>1, <4>2, <2>2
      <4>4. a = first  BY <4>3, <1>1, <1>2
      <4> QED  BY <4>2, <4>4, <2>2
    <3> QED  BY <3>1, <3>2
  <2>4. \A i \in 1 .. n : back[i] = w[i]
    <3> TAKE i \in 1 .. n
    <3>1. w[i] \in Frames  BY <1>4
    <3>2. back[i] \in Frames  BY <2>1
    <3>3. back[i].seq = w[i].seq  BY <2>3, <1>4
    <3>4. ~back[i].bad /\ ~w[i].bad  BY <2>2, <1>4
    <3>5. back[i].bad = w[i].bad  BY <3>1, <3>2, <3>4 DEF Frames
    <3>6. \A g \in Frames, h \in Frames : g.seq = h.seq /\ g.bad = h.bad => g = h
      BY DEF Frames
    <3> QED  BY <3>1, <3>2, <3>3, <3>5, <3>6
  <2>5. Len(w) = Len(back)  BY <1>4, <1>6
  <2> QED  BY <2>4, <2>5, <1>1, <1>4, <1>6, SeqEqual
<1> QED  BY <1>2, <1>3, <1>5, <1>6

\* The verdict of the loopback test is about its own run (gmii_lb_selftest.py 83-112,
\* gmii_lb_selftest.v), for any number of frames, of frames the loop hurts, of failed
\* accesses and of speeds: PASS only if the loop brought back every frame of the run once,
\* whole and in order, and FAIL only if it hurt one or none of the largest length was sent.
THEOREM LoopIsOwnRun == Spec => []LoopVerdict
<1>1. LbInv /\ [Lb!Next]_(Lb!vars) => LbInv'
  <2> SUFFICES ASSUME LbInv, [Lb!Next]_(Lb!vars) PROVE LbInv'  OBVIOUS
  <2>1. CASE Lb!Next
    BY <2>1, LbTxStarts, LbTxEnds, LbHurts, LbReceives, LbClears, LbSleeps, LbWrites, LbJudges,
       LbMains DEF Lb!Next
  <2>2. CASE UNCHANGED Lb!vars
    BY <2>2 DEF Lb!vars, Lb!host, Lb!board, LbInv, LbTypes, LbCleared, LbCounts, Running,
       LbStands, Lb!Checks, Lb!clean
  <2> QED  BY <2>1, <2>2
<1>2. LbInv => LoopVerdict
  <2> SUFFICES ASSUME LbInv, lb_pc \in {"pass", "fail"}
               PROVE  /\ lb_pc = "pass" => Lb!Whole
                      /\ (lb_pc = "fail" /\ Lb!Whole) =>
                           \A q \in first .. tx_seq - 1 : Lb!Length(q) # 3
    BY DEF LoopVerdict, Lb!LoopVerdict, Lb!Largest
  <2>1. /\ Running /\ LbTypes /\ lb_s = cnt
        /\ lb_pc = "pass" => Lb!Checks
        /\ lb_pc = "fail" => ~Lb!Checks
        /\ cnt.tx_frames = tx_seq - first /\ Tallied(cnt, back)
    BY DEF LbInv, LbStands, LbCounts, Running
  <2>2. /\ cnt.rx_ok \in Nat /\ cnt.rx_bad \in Nat /\ cnt.seq_gap \in Nat
        /\ cnt.max_ok_len \in Nat /\ cnt.rx_ok_big \in Nat
        /\ tx_seq \in Nat /\ first \in Nat
    BY <2>1 DEF LbTypes, Tallies
  <2>3. (Exact(back) /\ Len(back) = tx_seq - first) <=> Lb!Whole  BY <2>1, WholeIs
  <2>4. PICK n \in Nat : n = Len(back)  BY <2>1 DEF LbTypes
  <2>5. /\ cnt.rx_ok + cnt.rx_bad = n
        /\ (cnt.rx_bad = 0 /\ cnt.seq_gap = 0) <=> Exact(back)
        /\ cnt.max_ok_len <= 3
    BY <2>1, <2>4 DEF Tallied
  <2>6. Lb!Checks <=> /\ cnt.tx_frames > 0 /\ cnt.rx_ok = cnt.tx_frames
                      /\ cnt.rx_bad = 0 /\ cnt.seq_gap = 0
                      /\ cnt.rx_ok_big > 0 /\ cnt.max_ok_len = 3
    BY <2>1 DEF Lb!Checks, Lb!clean, Lb!Largest
  <2>7. ASSUME lb_pc = "pass" PROVE Lb!Whole
    BY <2>1, <2>2, <2>3, <2>4, <2>5, <2>6, <2>7
  <2>8. ASSUME lb_pc = "fail", Lb!Whole, NEW q \in first .. tx_seq - 1, Lb!Length(q) = 3
        PROVE  FALSE
    <3>1. n = tx_seq - first /\ cnt.rx_bad = 0 /\ cnt.seq_gap = 0 /\ n > 0
      BY <2>2, <2>3, <2>4, <2>5, <2>8
    <3>2. cnt.rx_ok = cnt.tx_frames /\ cnt.tx_frames > 0  BY <3>1, <2>1, <2>2, <2>5
    <3>3. PICK i \in 1 .. n : i = q - first + 1  BY <3>1, <2>2, <2>8
    <3>4. ~back[i].bad /\ back[i].seq = q
      <4>1. back[i] = [seq |-> first + i - 1, bad |-> FALSE]
        BY <3>1, <3>3, <2>8 DEF Lb!Whole
      <4>2. first + i - 1 = q  BY <3>3, <2>2, <2>8
      <4> QED  BY <4>1, <4>2
    <3>5. 3 <= cnt.max_ok_len /\ (3 > 1 => cnt.rx_ok_big > 0)
      BY <3>4, <2>1, <2>4, <2>8 DEF Tallied
    <3>6. cnt.max_ok_len = 3 /\ cnt.rx_ok_big > 0  BY <3>5, <2>2, <2>5
    <3> QED  BY <3>1, <3>2, <3>6, <2>1, <2>6, <2>8
  <2> QED  BY <2>7, <2>8
<1> QED  BY <1>1, <1>2, LbStarts, LbRuns, PTL DEF Lb!Spec
-----------------------------------------------------------------------------
(* The serial monitor.                                                      *)

IdCount == Len(Ids)
Named   == {Ids[i] : i \in 1 .. IdCount} \cup {"LINK", "TX", "RX"}
Lines   == [name : Named \cup {"DONE"}, val : {"ok", "bad"}, boot : Nat \ {0}]
Results == [Named -> [val : {"ok", "bad", "none"}, boot : Nat]]

\* What the board, the host and the wire hold.
UartTypes ==
  /\ boot \in Nat \ {0} /\ pos \in 1 .. IdCount + 5 /\ link \in BOOLEAN
  /\ uart_uart \in Seq(Lines) /\ results \in Results
  /\ last \in Nat /\ done \in BOOLEAN /\ on_board \in BOOLEAN /\ all_pass \in BOOLEAN
  /\ uart_pc \in {"main", "read", "judge", "ping", "arp", "sustained", "report", "exit0",
                  "exit1"}

\* The line n of this boot is behind the board.
Behind(n, p) ==
  \/ \E i \in 1 .. IdCount : n = Ids[i] /\ i < p
  \/ n = "LINK" /\ IdCount + 1 < p
  \/ n = "TX" /\ IdCount + 2 < p
  \/ n = "RX" /\ IdCount + 3 < p

\* Lines arrive boot after boot, and the DONE of a boot is its last.
BootsInOrder(s) ==
  \A i, j \in 1 .. Len(s) :
    i < j => s[i].boot <= s[j].boot /\ (s[i].name = "DONE" => s[i].boot < s[j].boot)

\* What the LINK line of this boot says.
LinkSays == IF link THEN "ok" ELSE "bad"

\* The lines of s are of boot b or an earlier one; a LINK of b says v, and is there only if
\* LINK is behind p; a DONE of b only if all is.
LinesUpTo(s, b, p, v) ==
  \A i \in 1 .. Len(s) :
    /\ s[i].boot <= b
    /\ s[i].boot = b =>
         /\ s[i].name = "DONE" => p = IdCount + 5
         /\ s[i].name = "LINK" => IdCount + 1 < p /\ s[i].val = v

\* So are the results, and the lines that wait are no older.
ResultsUpTo(r, s, b, p, v) ==
  /\ \A n \in Named : /\ r[n].boot <= b /\ (r[n].val = "none" <=> r[n].boot = 0)
                      /\ \A i \in 1 .. Len(s) : r[n].boot <= s[i].boot
  /\ r["LINK"].boot = b => IdCount + 1 < p /\ r["LINK"].val = v

\* Where the line n of boot b is: damaged, on its way, read, or printed before the host
\* listened.
Accounted(n, s, r, b, d) ==
  \/ n \in d
  \/ \E i \in 1 .. Len(s) : s[i].name = n /\ s[i].boot = b
  \/ r[n].boot = b
  \/ r[n].val = "none" /\ \A i \in 1 .. Len(s) : s[i].name # n

UartLines == /\ BootsInOrder(uart_uart) /\ LinesUpTo(uart_uart, boot, pos, LinkSays)
             /\ ResultsUpTo(results, uart_uart, boot, pos, LinkSays)

\* Every line of this boot is accounted for, but TX and RX are not printed without a link.
ThisBoot ==
  (uart_pc \in {"main", "read"} \/ (done /\ last = boot)) =>
    \A n \in Named : Behind(n, pos) => \/ Accounted(n, uart_uart, results, boot, damaged)
                                       \/ n \in {"TX", "RX"} /\ ~link

\* A DONE was the last line of its boot.
WasDone ==
  /\ uart_pc \in {"main", "read"} => ~done
  /\ done => last <= boot
  /\ (done /\ last = boot) => pos = IdCount + 5 /\ uart_uart = <<>>

\* Nothing is received before the port is open, or on another port.
Unheard == (uart_pc = "main" \/ ~on_board) =>
             uart_uart = <<>> /\ \A n \in Named : results[n].val = "none"

\* What is judged.
PhaseOne == /\ uart_pc \in {"ping", "arp", "sustained", "report", "exit0"} /\ all_pass =>
                 \A n \in Named : results[n].val = "ok"
            /\ uart_pc = "exit0" => all_pass

\* The neighbor table.
OwnAddress ==
  /\ uart_pc \in {"main", "read", "judge", "ping"} => neighbor = "none"
  /\ uart_pc \in {"sustained", "report", "exit0"} /\ all_pass => neighbor # "other"

UartInv == UartTypes /\ UartLines /\ ThisBoot /\ WasDone /\ Unheard /\ PhaseOne /\ OwnAddress
\* The script prints the identification lines, then LINK, TX, RX and DONE.
LEMMA ScriptIs ==
  /\ IdCount \in Nat /\ Len(Uart!Script) = IdCount + 4
  /\ Uart!Script \in Seq(Named \cup {"DONE"})
  /\ \A i \in 1 .. IdCount : Uart!Script[i] = Ids[i]
  /\ Uart!Script[IdCount + 1] = "LINK" /\ Uart!Script[IdCount + 2] = "TX"
  /\ Uart!Script[IdCount + 3] = "RX" /\ Uart!Script[IdCount + 4] = "DONE"
<1> DEFINE S == Named \cup {"DONE"}
           w == <<"LINK", "TX", "RX", "DONE">>
<1>1. "LINK" \in S /\ "TX" \in S /\ "RX" \in S /\ "DONE" \in S  BY DEF Named
<1>2. w \in Seq(S)  BY <1>1
<1>3. Len(w) = 4 /\ w[1] = "LINK" /\ w[2] = "TX" /\ w[3] = "RX" /\ w[4] = "DONE"  OBVIOUS
<1>4. Uart!Script = Ids \o w  BY DEF Uart!Script
<1>5. PICK c \in Nat : c = Len(Ids)  BY UartAssumption, LenProperties
<1>6. Ids \in Seq(S)
  <2>1. Ids \in [1 .. c -> STRING]  BY <1>5, UartAssumption, LenProperties
  <2>2. \A i \in 1 .. c : Ids[i] \in S  BY <1>5 DEF Named, IdCount
  <2>3. Ids \in [1 .. c -> S]  BY <2>1, <2>2
  <2> QED  BY <2>3, <1>5, IsASeq
<1> HIDE DEF w, S
<1>7. /\ Ids \o w \in Seq(S) /\ Len(Ids \o w) = Len(Ids) + Len(w)
      /\ \A i \in 1 .. Len(Ids) + Len(w) :
           (Ids \o w)[i] = IF i <= Len(Ids) THEN Ids[i] ELSE w[i - Len(Ids)]
  <2> HIDE <1>3, <1>4, <1>5
  <2> QED  BY <1>2, <1>6, ConcatProperties
<1>8. /\ Ids \o w \in Seq(S) /\ Len(Ids \o w) = c + 4
      /\ \A i \in 1 .. c + 4 : (Ids \o w)[i] = IF i <= c THEN Ids[i] ELSE w[i - c]
  BY <1>3, <1>5, <1>7
<1>9. \A i \in 1 .. c : (Ids \o w)[i] = Ids[i]  BY <1>8
<1>10. ASSUME NEW k \in 1 .. 4 PROVE (Ids \o w)[c + k] = w[k]
  <2>1. PICK i \in 1 .. c + 4 : i = c + k  OBVIOUS
  <2>2. i - c = k /\ ~(i <= c)  BY <2>1
  <2> QED  BY <2>1, <2>2, <1>8
<1>11. /\ (Ids \o w)[c + 1] = w[1] /\ (Ids \o w)[c + 2] = w[2]
       /\ (Ids \o w)[c + 3] = w[3] /\ (Ids \o w)[c + 4] = w[4]
  <2>1. 1 \in 1 .. 4 /\ 2 \in 1 .. 4 /\ 3 \in 1 .. 4 /\ 4 \in 1 .. 4  OBVIOUS
  <2> HIDE <1>8
  <2> QED  BY <2>1, <1>10
<1> QED  BY <1>3, <1>4, <1>5, <1>8, <1>9, <1>11 DEF IdCount, S

\* The names of the dictionary.
LEMMA NamesAre ==
  /\ Uart!Names = Named
  /\ "DONE" \notin Named /\ "LINK" \in Named /\ "TX" \in Named /\ "RX" \in Named
  /\ \A i \in 1 .. IdCount : /\ Ids[i] \in Named
                             /\ Ids[i] # "LINK" /\ Ids[i] # "TX" /\ Ids[i] # "RX"
                             /\ Ids[i] # "DONE"
<1>1. \A i \in 1 .. IdCount : Ids[i] \notin {"LINK", "TX", "RX", "DONE"}
  BY UartAssumption DEF IdCount
<1>2. "DONE" \notin Named /\ "LINK" \in Named /\ "TX" \in Named /\ "RX" \in Named
  BY <1>1 DEF Named
<1>3. \A i \in 1 .. IdCount : /\ Ids[i] \in Named
                              /\ Ids[i] # "LINK" /\ Ids[i] # "TX" /\ Ids[i] # "RX"
                              /\ Ids[i] # "DONE"
  BY <1>1 DEF Named
<1>4. DOMAIN Uart!Script = 1 .. IdCount + 4  BY ScriptIs, LenProperties
<1>5. \A k \in 1 .. IdCount + 4 : Uart!Script[k] \in Named \cup {"DONE"}
  <2> TAKE k \in 1 .. IdCount + 4
  <2>1. k \in 1 .. IdCount \/ k = IdCount + 1 \/ k = IdCount + 2 \/ k = IdCount + 3
        \/ k = IdCount + 4
    BY ScriptIs
  <2> QED  BY <2>1, <1>2, <1>3, ScriptIs
<1>6. \A n \in Named : \E k \in 1 .. IdCount + 4 : Uart!Script[k] = n
  <2> TAKE n \in Named
  <2>1. (\E i \in 1 .. IdCount : n = Ids[i]) \/ n = "LINK" \/ n = "TX" \/ n = "RX"
    BY DEF Named
  <2>2. \A i \in 1 .. IdCount : i \in 1 .. IdCount + 4  BY ScriptIs
  <2>3. IdCount + 1 \in 1 .. IdCount + 4 /\ IdCount + 2 \in 1 .. IdCount + 4
        /\ IdCount + 3 \in 1 .. IdCount + 4
    BY ScriptIs
  <2> QED  BY <2>1, <2>2, <2>3, ScriptIs
<1>7. Uart!ToSet(Uart!Script) = {Uart!Script[i] : i \in 1 .. IdCount + 4}
  BY <1>4 DEF Uart!ToSet
<1>8. Uart!Names = Named
  BY <1>2, <1>5, <1>6, <1>7 DEF Uart!Names
<1> QED  BY <1>2, <1>3, <1>8

\* What is printed at a place of the script.
LEMMA ScriptAt ==
  ASSUME NEW p \in 1 .. IdCount + 5, p <= Len(Uart!Script)
  PROVE  /\ Uart!Script[p] = "LINK" => p = IdCount + 1
         /\ Uart!Script[p] = "TX" => p = IdCount + 2
         /\ Uart!Script[p] = "RX" => p = IdCount + 3
         /\ Uart!Script[p] = "DONE" => p = IdCount + 4
<1>1. p \in 1 .. IdCount \/ p = IdCount + 1 \/ p = IdCount + 2 \/ p = IdCount + 3
      \/ p = IdCount + 4
  BY ScriptIs
<1> QED  BY <1>1, ScriptIs, NamesAre
\* The board goes on in its boot: what it sent before stays as it was.
LEMMA LinesGoOn ==
  ASSUME NEW s \in Seq(Lines), NEW r \in Results, NEW b \in Nat,
         NEW p \in 1 .. IdCount + 4, NEW q \in 1 .. IdCount + 5, p <= q,
         NEW v, NEW u, u = v \/ p <= IdCount + 1,
         BootsInOrder(s), LinesUpTo(s, b, p, v), ResultsUpTo(r, s, b, p, v)
  PROVE  LinesUpTo(s, b, q, u) /\ ResultsUpTo(r, s, b, q, u)
<1>1. IdCount \in Nat  BY ScriptIs
<1>2. LinesUpTo(s, b, q, u)
  <2> SUFFICES ASSUME NEW i \in 1 .. Len(s)
               PROVE  /\ s[i].boot <= b
                      /\ s[i].boot = b =>
                           /\ s[i].name = "DONE" => q = IdCount + 5
                           /\ s[i].name = "LINK" => IdCount + 1 < q /\ s[i].val = u
    BY DEF LinesUpTo
  <2>1. /\ s[i].boot <= b
        /\ s[i].boot = b =>
             /\ s[i].name = "DONE" => p = IdCount + 5
             /\ s[i].name = "LINK" => IdCount + 1 < p /\ s[i].val = v
    BY DEF LinesUpTo
  <2>2. p # IdCount + 5  BY <1>1
  <2>3. IdCount + 1 < p => IdCount + 1 < q /\ u = v  BY <1>1
  <2> QED  BY <2>1, <2>2, <2>3
<1>3. ResultsUpTo(r, s, b, q, u)
  <2>1. IdCount + 1 < p => IdCount + 1 < q /\ u = v  BY <1>1
  <2> QED  BY <2>1 DEF ResultsUpTo
<1> QED  BY <1>2, <1>3

\* A line of this boot joins those that wait.
LEMMA LineJoins ==
  ASSUME NEW s \in Seq(Lines), NEW r \in Results, NEW b \in Nat,
         NEW p \in 1 .. IdCount + 4, NEW q \in 1 .. IdCount + 5, p <= q,
         NEW v, NEW u, u = v \/ p <= IdCount + 1,
         BootsInOrder(s), LinesUpTo(s, b, p, v), ResultsUpTo(r, s, b, p, v),
         NEW l \in Lines, l.boot = b,
         l.name = "DONE" => q = IdCount + 5,
         l.name = "LINK" => IdCount + 1 < q /\ l.val = u
  PROVE  /\ BootsInOrder(Append(s, l)) /\ LinesUpTo(Append(s, l), b, q, u)
         /\ ResultsUpTo(r, Append(s, l), b, q, u)
<1> DEFINE t == Append(s, l)
<1>1. PICK k \in Nat : k = Len(s)  BY LenProperties
<1>2. /\ t \in Seq(Lines) /\ Len(t) = k + 1 /\ t[k + 1] = l
      /\ \A i \in 1 .. k : t[i] = s[i]
  BY <1>1, AppendOf
<1> HIDE DEF t
<1>3. \A i \in 1 .. k + 1 : i \in 1 .. k \/ i = k + 1  OBVIOUS
<1>4. LinesUpTo(s, b, q, u) /\ ResultsUpTo(r, s, b, q, u)  BY LinesGoOn
<1>5. \A i \in 1 .. k : s[i].boot <= b /\ s[i].boot \in Nat /\ (s[i].name = "DONE" => s[i].boot < b)
  <2> TAKE i \in 1 .. k
  <2>1. s[i] \in Lines  BY <1>1, ElementOfSeq
  <2>2. s[i].boot <= b /\ (s[i].boot = b /\ s[i].name = "DONE" => p = IdCount + 5)
    BY <1>1 DEF LinesUpTo
  <2>3. p # IdCount + 5  BY ScriptIs
  <2>4. PICK c \in Nat : c = s[i].boot  BY <2>1 DEF Lines
  <2>5. c <= b /\ (c = b \/ c < b)  BY <2>2, <2>4
  <2> QED  BY <2>2, <2>3, <2>4, <2>5
<1>6. BootsInOrder(t)
  <2> SUFFICES ASSUME NEW i \in 1 .. k + 1, NEW j \in 1 .. k + 1, i < j
               PROVE  t[i].boot <= t[j].boot /\ (t[i].name = "DONE" => t[i].boot < t[j].boot)
    BY <1>2 DEF BootsInOrder
  <2>1. i \in 1 .. k  BY <1>1
  <2>2. CASE j = k + 1  BY <2>1, <2>2, <1>2, <1>5
  <2>3. CASE j \in 1 .. k  BY <2>1, <2>3, <1>1, <1>2 DEF BootsInOrder
  <2> QED  BY <1>3, <2>2, <2>3
<1>7. LinesUpTo(t, b, q, u)
  <2> SUFFICES ASSUME NEW i \in 1 .. k + 1
               PROVE  /\ t[i].boot <= b
                      /\ t[i].boot = b =>
                           /\ t[i].name = "DONE" => q = IdCount + 5
                           /\ t[i].name = "LINK" => IdCount + 1 < q /\ t[i].val = u
    BY <1>2 DEF LinesUpTo
  <2>1. CASE i \in 1 .. k  BY <2>1, <1>1, <1>2, <1>4 DEF LinesUpTo
  <2>2. CASE i = k + 1
    <3>1. b <= b  OBVIOUS
    <3> QED  BY <3>1, <2>2, <1>2
  <2> QED  BY <1>3, <2>1, <2>2
<1>8. ResultsUpTo(r, t, b, q, u)
  <2>1. ASSUME NEW n \in Named, NEW i \in 1 .. k + 1 PROVE r[n].boot <= t[i].boot
    <3>1. CASE i \in 1 .. k  BY <3>1, <1>1, <1>2, <1>4 DEF ResultsUpTo
    <3>2. CASE i = k + 1  BY <3>2, <1>2, <1>4 DEF ResultsUpTo
    <3> QED  BY <1>3, <3>1, <3>2
  <2> QED  BY <2>1, <1>2, <1>4 DEF ResultsUpTo
<1> QED  BY <1>6, <1>7, <1>8 DEF t

\* What is accounted for stays so when a line joins or is damaged; so is that line.
LEMMA AccountJoins ==
  ASSUME NEW s \in Seq(Lines), NEW r, NEW b, NEW d, NEW l \in Lines, l.boot = b,
         NEW n, n = l.name \/ Accounted(n, s, r, b, d)
  PROVE  Accounted(n, Append(s, l), r, b, d)
<1> DEFINE t == Append(s, l)
<1>1. PICK k \in Nat : k = Len(s)  BY LenProperties
<1>2. /\ Len(t) = k + 1 /\ t[k + 1] = l
      /\ \A i \in 1 .. k : t[i] = s[i]
  BY <1>1, AppendOf
<1> HIDE DEF t
<1>3. \A i \in 1 .. k + 1 : i \in 1 .. k \/ i = k + 1  OBVIOUS
<1>4. k + 1 \in 1 .. k + 1 /\ \A i \in 1 .. k : i \in 1 .. k + 1  OBVIOUS
<1>5. CASE n = l.name  BY <1>5, <1>2, <1>4 DEF Accounted, t
<1>6. CASE n # l.name /\ Accounted(n, s, r, b, d)
  BY <1>1, <1>2, <1>3, <1>4, <1>6 DEF Accounted, t
<1> QED  BY <1>5, <1>6

LEMMA AccountDamages ==
  ASSUME NEW s, NEW r, NEW b, NEW d, NEW m, NEW n, n = m \/ Accounted(n, s, r, b, d)
  PROVE  Accounted(n, s, r, b, d \cup {m})
BY DEF Accounted

\* The oldest line that waits is read.
LEMMA LineGoes ==
  ASSUME NEW s \in Seq(Lines), s # <<>>, NEW r \in Results, NEW b \in Nat, NEW p, NEW v,
         BootsInOrder(s), LinesUpTo(s, b, p, v), ResultsUpTo(r, s, b, p, v)
  PROVE  /\ BootsInOrder(Tail(s)) /\ LinesUpTo(Tail(s), b, p, v)
         /\ ResultsUpTo(r, Tail(s), b, p, v)
<1> DEFINE t == Tail(s)
<1>1. PICK k \in Nat : k = Len(t)  BY TailOf, LenProperties
<1>2. /\ Len(t) = k /\ Len(s) = k + 1 /\ \A i \in 1 .. k : t[i] = s[i + 1]
  <2>1. Len(s) \in Nat /\ Len(t) = Len(s) - 1  BY TailOf
  <2> QED  BY <2>1, <1>1, TailOf
<1>3. \A i \in 1 .. k : i + 1 \in 1 .. k + 1  OBVIOUS
<1> HIDE DEF t
<1>4. BootsInOrder(t)
  <2> SUFFICES ASSUME NEW i \in 1 .. k, NEW j \in 1 .. k, i < j
               PROVE  t[i].boot <= t[j].boot /\ (t[i].name = "DONE" => t[i].boot < t[j].boot)
    BY <1>2 DEF BootsInOrder
  <2>1. i + 1 < j + 1  OBVIOUS
  <2> QED  BY <2>1, <1>2, <1>3 DEF BootsInOrder
<1>5. LinesUpTo(t, b, p, v)  BY <1>2, <1>3 DEF LinesUpTo
<1>6. ResultsUpTo(r, t, b, p, v)  BY <1>2, <1>3 DEF ResultsUpTo
<1> QED  BY <1>4, <1>5, <1>6 DEF t
LEMMA UartStarts == Uart!Init => UartInv
<1> SUFFICES ASSUME Uart!Init PROVE UartInv  OBVIOUS
<1>1. /\ boot = 1 /\ pos = 1 /\ link = FALSE /\ uart_uart = <<>> /\ uart_pc = "main"
      /\ on_board = FALSE /\ done = FALSE /\ all_pass = TRUE /\ neighbor = "none" /\ last = 0
      /\ damaged = {} /\ results = [n \in Named |-> [val |-> "none", boot |-> 0]]
  BY NamesAre DEF Uart!Init, Uart!Missing, Uart!None
<1>2. IdCount \in Nat  BY ScriptIs
<1>3. results \in Results /\ \A n \in Named : results[n].val = "none" /\ results[n].boot = 0
  <2>1. [val |-> "none", boot |-> 0] \in [val : {"ok", "bad", "none"}, boot : Nat]  OBVIOUS
  <2> QED  BY <2>1, <1>1 DEF Results
<1>4. uart_uart \in Seq(Lines) /\ Len(uart_uart) = 0  BY <1>1
<1>5. UartTypes
  <2>1. boot \in Nat \ {0} /\ pos \in 1 .. IdCount + 5 /\ last \in Nat  BY <1>1, <1>2
  <2>2. link \in BOOLEAN /\ done \in BOOLEAN /\ on_board \in BOOLEAN /\ all_pass \in BOOLEAN
    BY <1>1
  <2> QED  BY <2>1, <2>2, <1>1, <1>3, <1>4 DEF UartTypes
<1>6. UartLines
  BY <1>1, <1>3, <1>4, NamesAre DEF UartLines, BootsInOrder, LinesUpTo, ResultsUpTo
<1>7. \A n \in Named : ~Behind(n, pos)  BY <1>1, <1>2 DEF Behind
<1>8. ThisBoot  BY <1>7 DEF ThisBoot
<1>9. WasDone /\ Unheard /\ PhaseOne /\ OwnAddress
  BY <1>1, <1>3 DEF WasDone, Unheard, PhaseOne, OwnAddress
<1> QED  BY <1>5, <1>6, <1>8, <1>9 DEF UartInv

\* A line of the script is printed: the board goes on to the place q.
LEMMA UartPrints ==
  ASSUME UartInv, UNCHANGED <<boot, Uart!host, neighbor, last>>,
         NEW n \in Named \cup {"DONE"}, NEW v \in {"ok", "bad"}, Uart!Sent(n, v),
         pos \in 1 .. IdCount + 4, pos' \in 1 .. IdCount + 5, pos <= pos',
         link' \in BOOLEAN, LinkSays' = LinkSays \/ pos <= IdCount + 1,
         n = "DONE" => pos' = IdCount + 5,
         n = "LINK" => IdCount + 1 < pos' /\ v = LinkSays',
         \A m \in Named : Behind(m, pos') =>
           \/ Behind(m, pos) /\ ~(m \in {"TX", "RX"} /\ ~link)
           \/ m = n \/ (m \in {"TX", "RX"} /\ ~link')
  PROVE  UartInv'
<1> DEFINE l == Uart!Line(n, v)
<1>1. IdCount \in Nat  BY ScriptIs
<1>2. l \in Lines /\ l.boot = boot /\ l.name = n /\ l.val = v
  BY DEF UartInv, UartTypes, Uart!Line, Lines
<1> HIDE DEF l
<1>3. /\ boot' = boot /\ uart_pc' = uart_pc /\ on_board' = on_board /\ results' = results
      /\ done' = done /\ all_pass' = all_pass /\ neighbor' = neighbor /\ last' = last
  BY DEF Uart!host
<1>4. \/ /\ uart_uart' = IF uart_pc = "read" /\ on_board THEN Append(uart_uart, l)
                         ELSE uart_uart
         /\ damaged' = damaged
      \/ /\ damaged' = damaged \cup {n} /\ uart_uart' = uart_uart
  BY DEF Uart!Sent, l
<1>5. /\ uart_uart \in Seq(Lines) /\ results \in Results /\ boot \in Nat
      /\ BootsInOrder(uart_uart) /\ LinesUpTo(uart_uart, boot, pos, LinkSays)
      /\ ResultsUpTo(results, uart_uart, boot, pos, LinkSays)
  BY DEF UartInv, UartTypes, UartLines
<1>6. uart_uart' = uart_uart \/ uart_uart' = Append(uart_uart, l)  BY <1>4
<1>7. uart_uart' \in Seq(Lines)
  <2>1. Append(uart_uart, l) \in Seq(Lines)  BY ONLY <1>2, <1>5, AppendOf
  <2> QED  BY ONLY <2>1, <1>5, <1>6, Zenon
<1>8. UartTypes'
  BY <1>3, <1>7 DEF UartInv, UartTypes
<1>9. /\ BootsInOrder(uart_uart') /\ LinesUpTo(uart_uart', boot, pos', LinkSays')
      /\ ResultsUpTo(results, uart_uart', boot, pos', LinkSays')
  <2>1. PICK q \in 1 .. IdCount + 5 : q = pos'  OBVIOUS
  <2>2. pos <= q /\ (n = "DONE" => q = IdCount + 5)
        /\ (n = "LINK" => IdCount + 1 < q /\ v = LinkSays')
    BY <2>1
  <2>3. CASE uart_uart' = uart_uart  BY <2>1, <2>2, <2>3, <1>5, LinesGoOn
  <2>4. CASE uart_uart' = Append(uart_uart, l)
    BY <2>1, <2>2, <2>4, <1>2, <1>5, LineJoins
  <2> QED  BY <2>3, <2>4, <1>6
<1>10. UartLines'  BY <1>3, <1>9 DEF UartLines
<1>11. ~(done /\ last = boot)
  <2>1. pos # IdCount + 5  BY <1>1
  <2> QED  BY <2>1 DEF UartInv, WasDone
<1>12. ThisBoot'
  <2> SUFFICES ASSUME uart_pc \in {"main", "read"}, NEW m \in Named, Behind(m, pos'),
                      ~(m \in {"TX", "RX"} /\ ~link')
               PROVE  Accounted(m, uart_uart', results, boot, damaged')
    BY <1>3, <1>11 DEF ThisBoot
  <2>1. m = n \/ Accounted(m, uart_uart, results, boot, damaged)
    BY DEF UartInv, ThisBoot
  <2>2. CASE damaged' = damaged \cup {n} /\ uart_uart' = uart_uart
    BY <2>1, <2>2, AccountDamages
  <2>3. CASE uart_uart' = Append(uart_uart, l) /\ damaged' = damaged
    BY <2>1, <2>3, <1>2, <1>5, AccountJoins
  <2>4. CASE uart_uart' = uart_uart /\ damaged' = damaged /\ ~(uart_pc = "read" /\ on_board)
    <3>1. uart_uart = <<>> /\ results[m].val = "none"
      BY <2>4 DEF UartInv, Unheard
    <3> QED  BY <3>1, <2>4 DEF Accounted
  <2> QED  BY <2>2, <2>3, <2>4, <1>4
<1>13. WasDone'  BY <1>3, <1>11 DEF UartInv, WasDone
<1>14. Unheard'
  <2>1. (uart_pc = "main" \/ ~on_board) => uart_uart' = uart_uart  BY <1>4
  <2> QED  BY <2>1, <1>3 DEF UartInv, Unheard
<1>15. PhaseOne'  BY <1>3 DEF UartInv, PhaseOne
<1>16. OwnAddress'  BY <1>3 DEF UartInv, OwnAddress
<1> QED  BY <1>8, <1>10, <1>12, <1>13, <1>14, <1>15, <1>16 DEF UartInv
\* An identification line.
LEMMA UartIds == UartInv /\ Uart!PrintId => UartInv'
<1> SUFFICES ASSUME UartInv, Uart!PrintId PROVE UartInv'  OBVIOUS
<1>1. PICK v \in {"ok", "bad"} : Uart!Sent(Uart!Script[pos], v)  BY DEF Uart!PrintId
<1>2. PICK p \in Nat : p = pos  BY DEF UartInv, UartTypes
<1>3. PICK c \in Nat : c = IdCount  BY ScriptIs
<1>4. pos' = p + 1 /\ link' = link /\ p \in 1 .. c
  BY <1>2, <1>3 DEF Uart!PrintId, UartInv, UartTypes, IdCount
<1>5. /\ Uart!Script[pos] = Ids[p] /\ Ids[p] \in Named
      /\ Ids[p] # "LINK" /\ Ids[p] # "TX" /\ Ids[p] # "RX" /\ Ids[p] # "DONE"
  BY <1>2, <1>3, <1>4, ScriptIs, NamesAre
<1>6. pos \in 1 .. IdCount + 4 /\ pos' \in 1 .. IdCount + 5 /\ pos <= pos'
  BY <1>2, <1>3, <1>4
<1>7. link' \in BOOLEAN /\ LinkSays' = LinkSays
  BY <1>4 DEF UartInv, UartTypes, LinkSays
<1>8. ASSUME NEW m \in Named, Behind(m, p + 1)
      PROVE  (Behind(m, p) /\ ~(m \in {"TX", "RX"})) \/ m = Ids[p]
  <2>1. PICK i \in 1 .. c : m = Ids[i] /\ i < p + 1
    BY <1>3, <1>4, <1>8 DEF Behind
  <2>2. i = p \/ i < p  BY <2>1
  <2> QED  BY <2>1, <2>2, <1>3, NamesAre DEF Behind
<1>9. UNCHANGED <<boot, Uart!host, neighbor, last>>  BY DEF Uart!PrintId
<1> QED
  BY <1>1, <1>2, <1>4, <1>5, <1>6, <1>7, <1>8, <1>9, UartPrints

\* The LINK line: without a link, TX and RX are passed over.
LEMMA UartLinks == UartInv /\ Uart!PrintLink => UartInv'
<1> SUFFICES ASSUME UartInv, Uart!PrintLink PROVE UartInv'  OBVIOUS
<1>1. PICK c \in Nat : c = IdCount  BY ScriptIs
<1>2. pos = c + 1
  BY <1>1, ScriptAt DEF Uart!PrintLink, UartInv, UartTypes
<1>3. PICK up \in BOOLEAN : /\ link' = up /\ Uart!Sent("LINK", IF up THEN "ok" ELSE "bad")
                            /\ pos' = IF up THEN pos + 1 ELSE Len(Uart!Script)
  BY DEF Uart!PrintLink
<1>4. /\ LinkSays' = IF up THEN "ok" ELSE "bad"
      /\ LinkSays' \in {"ok", "bad"} /\ Uart!Sent("LINK", LinkSays')
  BY <1>3 DEF LinkSays
<1>5. pos' = (IF up THEN c + 2 ELSE c + 4)  BY <1>1, <1>2, <1>3, ScriptIs
<1>6. /\ pos \in 1 .. IdCount + 4 /\ pos' \in 1 .. IdCount + 5 /\ pos <= pos'
      /\ IdCount + 1 < pos' /\ pos <= IdCount + 1
  BY <1>1, <1>2, <1>5
<1>7. ASSUME NEW m \in Named, Behind(m, pos')
      PROVE  (Behind(m, pos) /\ ~(m \in {"TX", "RX"})) \/ m = "LINK"
             \/ (m \in {"TX", "RX"} /\ ~link')
  <2>1. CASE \E i \in 1 .. c : m = Ids[i]
    <3>1. PICK i \in 1 .. c : m = Ids[i]  BY <2>1
    <3>2. i < c + 1  OBVIOUS
    <3> QED  BY <3>1, <3>2, <1>1, <1>2, NamesAre DEF Behind
  <2>2. CASE m \in {"TX", "RX"} /\ up
    <3>1. ~(c + 2 < c + 2) /\ ~(c + 3 < c + 2)  OBVIOUS
    <3> QED  BY <3>1, <2>2, <1>1, <1>5, <1>7, NamesAre DEF Behind
  <2>3. CASE m \in {"TX", "RX"} /\ ~up  BY <2>3, <1>3
  <2> QED  BY <2>1, <2>2, <2>3, <1>1 DEF Named
<1>8. UNCHANGED <<boot, Uart!host, neighbor, last>> /\ link' \in BOOLEAN
  BY <1>3 DEF Uart!PrintLink
<1>9. "LINK" \in Named /\ "LINK" # "DONE"  BY NamesAre
<1> QED
  BY <1>4, <1>6, <1>7, <1>8, <1>9, UartPrints

\* The TX, RX and DONE lines.
LEMMA UartEnds == UartInv /\ (Uart!PrintTx \/ Uart!PrintRx \/ Uart!PrintDone) => UartInv'
<1> SUFFICES ASSUME UartInv, Uart!PrintTx \/ Uart!PrintRx \/ Uart!PrintDone PROVE UartInv'
  OBVIOUS
<1>1. PICK c \in Nat : c = IdCount  BY ScriptIs
<1>2. /\ UNCHANGED <<boot, Uart!host, neighbor, last>> /\ link' = link /\ pos' = pos + 1
  BY DEF Uart!PrintTx, Uart!PrintRx, Uart!PrintDone
<1>3. \/ pos = c + 2 /\ \E v \in {"ok", "bad"} : Uart!Sent("TX", v)
      \/ pos = c + 3 /\ \E v \in {"ok", "bad"} : Uart!Sent("RX", v)
      \/ pos = c + 4 /\ \E v \in {"ok", "bad"} : Uart!Sent("DONE", v)
  <2>1. pos \in 1 .. IdCount + 5  BY DEF UartInv, UartTypes
  <2>2. CASE Uart!PrintTx  BY <2>1, <2>2, <1>1, ScriptAt DEF Uart!PrintTx
  <2>3. CASE Uart!PrintRx
    <3>1. Uart!Sent("RX", IF rx THEN "ok" ELSE "bad")  BY <2>3 DEF Uart!PrintRx
    <3>2. (IF rx THEN "ok" ELSE "bad") \in {"ok", "bad"}  OBVIOUS
    <3>3. pos = c + 3  BY <2>1, <2>3, <1>1, ScriptAt DEF Uart!PrintRx
    <3> QED  BY <3>1, <3>2, <3>3
  <2>4. CASE Uart!PrintDone  BY <2>1, <2>4, <1>1, ScriptAt DEF Uart!PrintDone
  <2> QED  BY <2>2, <2>3, <2>4
<1>4. PICK k \in {2, 3, 4}, n \in {"TX", "RX", "DONE"}, v \in {"ok", "bad"} :
        /\ pos = c + k /\ Uart!Sent(n, v)
        /\ n = "TX" <=> k = 2
        /\ n = "RX" <=> k = 3
        /\ n = "DONE" <=> k = 4
  <2>1. CASE pos = c + 2 /\ \E v \in {"ok", "bad"} : Uart!Sent("TX", v)  BY <2>1
  <2>2. CASE pos = c + 3 /\ \E v \in {"ok", "bad"} : Uart!Sent("RX", v)  BY <2>2
  <2>3. CASE pos = c + 4 /\ \E v \in {"ok", "bad"} : Uart!Sent("DONE", v)  BY <2>3
  <2> QED  BY <2>1, <2>2, <2>3, <1>3
<1>5. /\ pos \in 1 .. IdCount + 4 /\ pos' \in 1 .. IdCount + 5 /\ pos <= pos'
      /\ n = "DONE" => pos' = IdCount + 5
  BY <1>1, <1>2, <1>4
<1>6. link' \in BOOLEAN /\ LinkSays' = LinkSays
  BY <1>2 DEF UartInv, UartTypes, LinkSays
<1>7. ASSUME NEW m \in Named, Behind(m, pos'), ~(m \in {"TX", "RX"} /\ ~link), m # n
      PROVE  Behind(m, pos)
  <2>1. CASE \E i \in 1 .. c : m = Ids[i]
    <3>1. PICK i \in 1 .. c : m = Ids[i]  BY <2>1
    <3>2. i < c + k  BY <1>4
    <3> QED  BY <3>1, <3>2, <1>1, <1>4 DEF Behind
  <2>2. CASE m = "LINK"
    <3>1. c + 1 < c + k  BY <1>4
    <3> QED  BY <3>1, <2>2, <1>1, <1>4 DEF Behind
  <2>3. CASE m = "TX"
    <3>1. k # 2  BY <2>3, <1>4, <1>7
    <3>2. c + 2 < c + k  BY <3>1, <1>4
    <3> QED  BY <3>2, <2>3, <1>1, <1>4 DEF Behind
  <2>4. CASE m = "RX"
    <3>1. c + 3 < c + k + 1
      BY <2>4, <1>1, <1>2, <1>4, <1>7, NamesAre DEF Behind
    <3>2. k # 3  BY <2>4, <1>4, <1>7
    <3>3. c + 3 < c + k  BY <3>1, <3>2, <1>4
    <3> QED  BY <3>3, <2>4, <1>1, <1>4 DEF Behind
  <2> QED  BY <2>1, <2>2, <2>3, <2>4, <1>1 DEF Named
<1>8. n \in Named \cup {"DONE"} /\ n # "LINK"  BY <1>4, NamesAre
<1>9. UNCHANGED <<boot, Uart!host, neighbor, last>>  BY <1>2
<1>10. \A m \in Named : Behind(m, pos') =>
         \/ Behind(m, pos) /\ ~(m \in {"TX", "RX"} /\ ~link)
         \/ m = n \/ (m \in {"TX", "RX"} /\ ~link')
  BY <1>2, <1>7
<1> QED
  BY <1>4, <1>5, <1>6, <1>8, <1>9, <1>10, UartPrints

\* A reset: the next boot has printed nothing.
LEMMA UartResets == UartInv /\ Uart!Reset => UartInv'
<1> SUFFICES ASSUME UartInv, Uart!Reset PROVE UartInv'  OBVIOUS
<1>1. /\ boot' = boot + 1 /\ pos' = 1 /\ link' = FALSE /\ damaged' = {}
      /\ UNCHANGED <<uart_uart, uart_pc, on_board, results, done, all_pass, neighbor, last>>
  BY DEF Uart!Reset, Uart!host
<1>2. PICK b \in Nat \ {0} : b = boot  BY DEF UartInv, UartTypes
<1>3. IdCount \in Nat  BY ScriptIs
<1>4. UartTypes'
  <2>1. boot' \in Nat \ {0} /\ pos' \in 1 .. IdCount + 5  BY <1>1, <1>2, <1>3
  <2>2. link' \in BOOLEAN  BY <1>1
  <2> QED  BY <2>1, <2>2, <1>1 DEF UartInv, UartTypes
<1>5. UartLines'
  <2>1. /\ BootsInOrder(uart_uart) /\ LinesUpTo(uart_uart, b, pos, LinkSays)
        /\ ResultsUpTo(results, uart_uart, b, pos, LinkSays)
        /\ uart_uart \in Seq(Lines) /\ results \in Results
    BY <1>2 DEF UartInv, UartLines, UartTypes
  <2>2. \A x \in Nat : x <= b => x <= b + 1 /\ x # b + 1  OBVIOUS
  <2>3. ASSUME NEW i \in 1 .. Len(uart_uart)
        PROVE  uart_uart[i].boot <= b + 1 /\ uart_uart[i].boot # b + 1
    <3>1. uart_uart[i] \in Lines  BY <2>1, ElementOfSeq
    <3> QED  BY <3>1, <2>1, <2>2 DEF LinesUpTo, Lines
  <2>4. \A n \in Named : results[n].boot <= b + 1 /\ results[n].boot # b + 1
    BY <2>1, <2>2 DEF ResultsUpTo, Results
  <2>5. LinesUpTo(uart_uart, b + 1, 1, LinkSays')
    BY <2>3 DEF LinesUpTo
  <2>6. ResultsUpTo(results, uart_uart, b + 1, 1, LinkSays')
    BY <2>1, <2>4, NamesAre DEF ResultsUpTo
  <2> QED  BY <2>1, <2>5, <2>6, <1>1, <1>2 DEF UartLines
<1>6. ThisBoot'
  <2>1. \A n \in Named : ~Behind(n, 1)  BY <1>3 DEF Behind
  <2> QED  BY <2>1, <1>1 DEF ThisBoot
<1>7. WasDone'
  <2>1. last \in Nat /\ (done => last <= b)  BY <1>2 DEF UartInv, UartTypes, WasDone
  <2>2. done => last <= b + 1 /\ last # b + 1  BY <2>1
  <2> QED  BY <2>2, <1>1, <1>2 DEF UartInv, WasDone
<1>8. Unheard' /\ PhaseOne' /\ OwnAddress'
  BY <1>1 DEF UartInv, Unheard, PhaseOne, OwnAddress
<1> QED  BY <1>4, <1>5, <1>6, <1>7, <1>8 DEF UartInv
\* A line is read.
LEMMA UartReads == UartInv /\ Uart!ReadLine => UartInv'
<1> SUFFICES ASSUME UartInv, Uart!ReadLine PROVE UartInv'  OBVIOUS
<1> DEFINE l == Head(uart_uart)
<1>1. /\ uart_pc = "read" /\ uart_uart # <<>> /\ uart_uart' = Tail(uart_uart)
      /\ UNCHANGED <<boot, pos, link, on_board, all_pass, neighbor, damaged>>
      /\ LinkSays' = LinkSays
  BY DEF Uart!ReadLine, Uart!board, LinkSays
<1>2. /\ uart_uart \in Seq(Lines) /\ results \in Results /\ boot \in Nat
      /\ BootsInOrder(uart_uart) /\ LinesUpTo(uart_uart, boot, pos, LinkSays)
      /\ ResultsUpTo(results, uart_uart, boot, pos, LinkSays)
  BY DEF UartInv, UartTypes, UartLines
<1>3. PICK k \in Nat : k = Len(Tail(uart_uart))  BY <1>1, <1>2, TailOf, LenProperties
<1>4. /\ Len(uart_uart) = k + 1 /\ l = uart_uart[1] /\ l \in Lines
      /\ Tail(uart_uart) \in Seq(Lines)
      /\ \A i \in 1 .. k : i + 1 \in 1 .. k + 1 /\ Tail(uart_uart)[i] = uart_uart[i + 1]
  <2>1. Len(uart_uart) \in Nat /\ Len(Tail(uart_uart)) = Len(uart_uart) - 1
    BY <1>1, <1>2, TailOf
  <2> QED  BY <2>1, <1>1, <1>2, <1>3, TailOf
<1> HIDE DEF l
<1>5. /\ BootsInOrder(Tail(uart_uart)) /\ LinesUpTo(Tail(uart_uart), boot, pos, LinkSays)
      /\ ResultsUpTo(results, Tail(uart_uart), boot, pos, LinkSays)
  BY <1>1, <1>2, LineGoes
<1>6. on_board /\ ~done /\ neighbor = "none"
  BY <1>1 DEF UartInv, Unheard, WasDone, OwnAddress, UartTypes
<1>7. 1 \in 1 .. k + 1 /\ \A i \in 1 .. k + 1 : i = 1 \/ \E j \in 1 .. k : i = j + 1
  <2>1. ASSUME NEW i \in 1 .. k + 1, i # 1 PROVE i - 1 \in 1 .. k /\ i = (i - 1) + 1
    BY <2>1
  <2> QED  BY <2>1
<1>8. l.boot \in Nat /\ l.boot # 0 /\ l.boot <= boot
  BY <1>2, <1>4, <1>7 DEF Lines, LinesUpTo
<1>9. \A n \in Named : Behind(n, pos) =>
        \/ Accounted(n, uart_uart, results, boot, damaged)
        \/ n \in {"TX", "RX"} /\ ~link
  BY <1>1 DEF UartInv, ThisBoot
<1>10. CASE l.name = "DONE"
  <2>1. done' = TRUE /\ uart_pc' = "judge" /\ last' = l.boot /\ results' = results
    BY <1>10 DEF Uart!ReadLine, l
  <2>2. UartTypes'
    <3>1. done' \in BOOLEAN /\ last' \in Nat  BY <2>1, <1>8
    <3> QED  BY <3>1, <2>1, <1>1, <1>4 DEF UartInv, UartTypes
  <2>3. UartLines'  BY <2>1, <1>1, <1>5 DEF UartLines
  <2>4. ASSUME l.boot = boot PROVE pos = IdCount + 5 /\ k = 0
    <3>1. pos = IdCount + 5  BY <2>4, <1>2, <1>4, <1>7, <1>10 DEF LinesUpTo
    <3>2. ASSUME k # 0 PROVE FALSE
      <4>1. 1 \in 1 .. k /\ 1 + 1 \in 1 .. k + 1 /\ 1 < 1 + 1  BY <3>2
      <4>2. uart_uart[1].boot < uart_uart[1 + 1].boot
        BY <4>1, <1>2, <1>4, <1>7, <1>10 DEF BootsInOrder
      <4>3. uart_uart[1 + 1] \in Lines /\ uart_uart[1 + 1].boot <= boot
        BY <4>1, <1>2, <1>4, ElementOfSeq DEF LinesUpTo
      <4>4. PICK x \in Nat : x = uart_uart[1 + 1].boot  BY <4>3 DEF Lines
      <4> QED  BY <4>2, <4>3, <4>4, <2>4, <1>2, <1>4
    <3> QED  BY <3>1, <3>2
  <2>5. k = 0 => Tail(uart_uart) = <<>>
    BY <1>3, <1>4, EmptySeq
  <2>6. ThisBoot'
    <3> SUFFICES ASSUME l.boot = boot, NEW n \in Named, Behind(n, pos),
                        ~(n \in {"TX", "RX"} /\ ~link)
                 PROVE  Accounted(n, Tail(uart_uart), results, boot, damaged)
      BY <2>1, <1>1 DEF ThisBoot
    <3>1. Accounted(n, uart_uart, results, boot, damaged)  BY <1>9
    <3>2. k = 0 /\ n # "DONE"  BY <2>4, NamesAre
    <3>3. \A i \in 1 .. k + 1 : i = 1  BY <3>2
    <3> QED  BY <3>1, <3>2, <3>3, <1>3, <1>4, <1>10 DEF Accounted
  <2>7. WasDone'  BY <2>1, <2>4, <2>5, <1>1, <1>8 DEF WasDone
  <2>8. Unheard' /\ PhaseOne' /\ OwnAddress'
    BY <2>1, <1>1, <1>6 DEF Unheard, PhaseOne, OwnAddress
  <2> QED  BY <2>2, <2>3, <2>6, <2>7, <2>8 DEF UartInv
<1>11. CASE l.name # "DONE"
  <2> DEFINE e == [val |-> l.val, boot |-> l.boot]
  <2>1. /\ results' = [results EXCEPT ![l.name] = e]
        /\ done' = done /\ uart_pc' = uart_pc /\ last' = last
    BY <1>11 DEF Uart!ReadLine, l
  <2>2. l.name \in Named /\ l.val \in {"ok", "bad"}  BY <1>4, <1>11 DEF Lines
  <2>3. e \in [val : {"ok", "bad", "none"}, boot : Nat] /\ e.val = l.val /\ e.boot = l.boot
    BY <2>2, <1>8
  <2> HIDE DEF e
  <2>4. /\ results' \in Results /\ results'[l.name] = e
        /\ \A n \in Named : n # l.name => results'[n] = results[n]
    BY <2>1, <2>2, <2>3, <1>2 DEF Results
  <2>5. UartTypes'  BY <2>1, <2>4, <1>1, <1>4 DEF UartInv, UartTypes
  <2>6. ResultsUpTo(results', Tail(uart_uart), boot, pos, LinkSays)
    <3>1. \A i \in 1 .. k : l.boot <= Tail(uart_uart)[i].boot
      <4> TAKE i \in 1 .. k
      <4>1. i + 1 \in 1 .. k + 1 /\ 1 < i + 1  OBVIOUS
      <4> QED  BY <4>1, <1>2, <1>4, <1>7 DEF BootsInOrder
    <3>2. l.name = "LINK" /\ l.boot = boot => IdCount + 1 < pos /\ l.val = LinkSays
      BY <1>2, <1>4, <1>7 DEF LinesUpTo
    <3>3. ASSUME NEW n \in Named
          PROVE  /\ results'[n].boot <= boot
                 /\ results'[n].val = "none" <=> results'[n].boot = 0
                 /\ \A i \in 1 .. k : results'[n].boot <= Tail(uart_uart)[i].boot
      <4>1. CASE n = l.name  BY <4>1, <3>1, <2>2, <2>3, <2>4, <1>8
      <4>2. CASE n # l.name  BY <4>2, <2>4, <1>3, <1>5 DEF ResultsUpTo
      <4> QED  BY <4>1, <4>2
    <3>4. results'["LINK"].boot = boot =>
            IdCount + 1 < pos /\ results'["LINK"].val = LinkSays
      <4>1. CASE l.name = "LINK"  BY <4>1, <3>2, <2>3, <2>4
      <4>2. CASE l.name # "LINK"  BY <4>2, <2>4, <1>5, NamesAre DEF ResultsUpTo
      <4> QED  BY <4>1, <4>2
    <3> QED  BY <3>3, <3>4, <1>3 DEF ResultsUpTo
  <2>7. UartLines'  BY <2>6, <1>1, <1>5 DEF UartLines
  <2>8. ThisBoot'
    <3> SUFFICES ASSUME NEW n \in Named, Behind(n, pos), ~(n \in {"TX", "RX"} /\ ~link)
                 PROVE  Accounted(n, Tail(uart_uart), results', boot, damaged)
      BY <1>1 DEF ThisBoot
    <3>1. Accounted(n, uart_uart, results, boot, damaged)  BY <1>9
    <3>2. CASE n \in damaged  BY <3>2 DEF Accounted
    <3>3. CASE \E i \in 1 .. k + 1 : uart_uart[i].name = n /\ uart_uart[i].boot = boot
      <4>1. PICK i \in 1 .. k + 1 : uart_uart[i].name = n /\ uart_uart[i].boot = boot
        BY <3>3
      <4>2. CASE i = 1  BY <4>1, <4>2, <2>3, <2>4, <1>4 DEF Accounted
      <4>3. CASE \E j \in 1 .. k : i = j + 1
        <5>1. PICK j \in 1 .. k : i = j + 1  BY <4>3
        <5>2. Tail(uart_uart)[j] = uart_uart[i]  BY <5>1, <1>4
        <5> QED  BY <5>2, <4>1, <1>3 DEF Accounted
      <4> QED  BY <4>2, <4>3, <1>7
    <3>4. CASE results[n].boot = boot
      <4>1. CASE n = l.name
        <5>1. results[n].boot <= uart_uart[1].boot  BY <1>2, <1>4, <1>7 DEF ResultsUpTo
        <5>2. PICK x \in Nat : x = l.boot  BY <1>8
        <5>3. boot <= x /\ x <= boot  BY <5>1, <5>2, <3>4, <1>4, <1>8
        <5>4. l.boot = boot  BY <5>2, <5>3, <1>2
        <5> QED  BY <5>4, <4>1, <2>3, <2>4 DEF Accounted
      <4>2. CASE n # l.name  BY <4>2, <3>4, <2>4 DEF Accounted
      <4> QED  BY <4>1, <4>2
    <3>5. CASE results[n].val = "none" /\ \A i \in 1 .. k + 1 : uart_uart[i].name # n
      <4>1. n # l.name  BY <3>5, <1>4, <1>7
      <4>2. \A i \in 1 .. k : Tail(uart_uart)[i].name # n  BY <3>5, <1>4
      <4> QED  BY <4>1, <4>2, <3>5, <2>4, <1>3 DEF Accounted
    <3> QED  BY <3>1, <3>2, <3>3, <3>4, <3>5, <1>4 DEF Accounted
  <2>9. WasDone' /\ Unheard' /\ PhaseOne' /\ OwnAddress'
    BY <2>1, <1>1, <1>6 DEF WasDone, Unheard, PhaseOne, OwnAddress
  <2> QED  BY <2>5, <2>7, <2>8, <2>9 DEF UartInv
<1> QED  BY <1>10, <1>11

\* The port is looked for and opened.
LEMMA UartOpens ==
  UartInv /\ (Uart!CannotOpen \/ \E found \in Uart!Ports : Uart!Main(found)) => UartInv'
<1> SUFFICES ASSUME UartInv, Uart!CannotOpen \/ \E found \in Uart!Ports : Uart!Main(found)
             PROVE  UartInv'
  OBVIOUS
<1>1. /\ uart_pc = "main" /\ uart_pc' \in {"read", "exit1"}
      /\ UNCHANGED <<boot, pos, link, uart_uart, results, done, all_pass, neighbor, damaged,
                     last>>
  <2>1. CASE Uart!CannotOpen  BY <2>1 DEF Uart!CannotOpen, Uart!board
  <2>2. CASE \E found \in Uart!Ports : Uart!Main(found)
    <3>1. PICK found \in Uart!Ports : Uart!Main(found)  BY <2>2
    <3> QED  BY <3>1 DEF Uart!Main, Uart!board
  <2> QED  BY <2>1, <2>2
<1>2. on_board' \in BOOLEAN
  <2>1. CASE Uart!CannotOpen  BY <2>1 DEF Uart!CannotOpen, UartInv, UartTypes
  <2>2. CASE \E found \in Uart!Ports : Uart!Main(found)
    <3>1. PICK found \in Uart!Ports : on_board' = (Uart!FindPort(found) = "arty")
      BY <2>2 DEF Uart!Main
    <3> QED  BY <3>1
  <2> QED  BY <2>1, <2>2
<1>3. LinkSays' = LinkSays  BY <1>1 DEF LinkSays
<1>4. UartTypes'  BY <1>1, <1>2 DEF UartInv, UartTypes
<1>5. UartLines'  BY <1>1, <1>3 DEF UartInv, UartLines
<1>6. ThisBoot' /\ WasDone' /\ Unheard' /\ PhaseOne' /\ OwnAddress'
  BY <1>1 DEF UartInv, ThisBoot, WasDone, Unheard, PhaseOne, OwnAddress
<1> QED  BY <1>4, <1>5, <1>6 DEF UartInv

\* The host judges what it read: no line and no result moves.
LEMMA UartHost ==
  ASSUME UartInv,
         UNCHANGED <<boot, pos, link, uart_uart, on_board, results, done, damaged, last>>,
         uart_pc # "main",
         uart_pc' \in {"judge", "ping", "arp", "sustained", "report", "exit0", "exit1"},
         all_pass' \in BOOLEAN, PhaseOne', OwnAddress'
  PROVE  UartInv'
<1>1. LinkSays' = LinkSays  BY DEF LinkSays
<1>2. UartTypes'  BY DEF UartInv, UartTypes
<1>3. UartLines'  BY <1>1 DEF UartInv, UartLines
<1>4. WasDone'  BY DEF UartInv, WasDone
<1>5. ThisBoot'  BY DEF UartInv, ThisBoot
<1>6. Unheard'  BY DEF UartInv, Unheard
<1> QED  BY <1>2, <1>3, <1>4, <1>5, <1>6 DEF UartInv
\* The timeout, the two phases, and the report.
LEMMA UartJudges ==
  UartInv /\ (\/ Uart!Timeout \/ Uart!Judge \/ Uart!Ping \/ Uart!Arp \/ Uart!Sustained
              \/ Uart!Report) => UartInv'
<1> SUFFICES ASSUME UartInv,
                    \/ Uart!Timeout \/ Uart!Judge \/ Uart!Ping \/ Uart!Arp
                    \/ Uart!Sustained \/ Uart!Report
             PROVE  UartInv'
  OBVIOUS
<1>1. UNCHANGED <<boot, pos, link, uart_uart, on_board, results, done, damaged, last>>
  BY DEF Uart!Timeout, Uart!Judge, Uart!Ping, Uart!Arp, Uart!Sustained, Uart!Report, Uart!board
<1>2. PhaseOne /\ OwnAddress /\ all_pass \in BOOLEAN
  BY DEF UartInv, UartTypes
<1>3. CASE Uart!Timeout
  <2>1. uart_pc = "read" /\ uart_pc' = "judge" /\ UNCHANGED <<all_pass, neighbor>>
    BY <1>3 DEF Uart!Timeout
  <2> QED  BY <2>1, <1>1, <1>2, UartHost DEF PhaseOne, OwnAddress
<1>4. CASE Uart!Judge
  <2>1. /\ uart_pc = "judge" /\ uart_pc' \in {"ping", "report"} /\ neighbor' = neighbor
        /\ all_pass' = Uart!Phase1
    BY <1>4 DEF Uart!Judge
  <2>2. Uart!Phase1 => \A n \in Named : results[n].val = "ok"
    <3>1. Uart!ToSet(Ids) = {Ids[i] : i \in 1 .. IdCount}
      BY UartAssumption, LenProperties DEF Uart!ToSet, IdCount
    <3> QED  BY <3>1 DEF Uart!Phase1, Named
  <2>3. all_pass' \in BOOLEAN  BY <2>1 DEF Uart!Phase1
  <2>4. PhaseOne'  BY <2>1, <2>2, <1>1 DEF PhaseOne
  <2>5. OwnAddress'  BY <2>1, <1>2 DEF OwnAddress
  <2> QED  BY <2>1, <2>3, <2>4, <2>5, <1>1, UartHost
<1>5. CASE Uart!Ping
  <2>1. uart_pc = "ping" /\ uart_pc' = "arp" /\ all_pass' = (all_pass /\ icmp_ok')
    BY <1>5 DEF Uart!Ping
  <2>2. all_pass' \in BOOLEAN /\ (all_pass' => all_pass)  BY <2>1, <1>2
  <2>3. PhaseOne' /\ OwnAddress'  BY <2>1, <2>2, <1>1, <1>2 DEF PhaseOne, OwnAddress
  <2> QED  BY <2>1, <2>2, <2>3, <1>1, UartHost
<1>6. CASE Uart!Arp
  <2>1. PICK entry : all_pass' = (all_pass /\ Uart!ArpOk(entry)) /\ neighbor' = entry
    BY <1>6 DEF Uart!Arp
  <2>2. uart_pc = "arp" /\ uart_pc' = "sustained"  BY <1>6 DEF Uart!Arp
  <2>3. Uart!ArpOk(entry) => entry # "other"  BY DEF Uart!ArpOk, Uart!None
  <2>4. all_pass' \in BOOLEAN /\ (all_pass' => all_pass /\ entry # "other")
    BY <2>1, <2>3, <1>2
  <2>5. PhaseOne' /\ OwnAddress'  BY <2>1, <2>2, <2>4, <1>1, <1>2 DEF PhaseOne, OwnAddress
  <2> QED  BY <2>2, <2>4, <2>5, <1>1, UartHost
<1>7. CASE Uart!Sustained
  <2>1. /\ uart_pc = "sustained" /\ uart_pc' = "report" /\ neighbor' = neighbor
    BY <1>7 DEF Uart!Sustained
  <2>2. all_pass' \in BOOLEAN /\ (all_pass' => all_pass)
    <3>1. CASE all_pass' = all_pass  BY <3>1, <1>2
    <3>2. CASE all_pass' = FALSE  BY <3>2
    <3> QED  BY <3>1, <3>2, <1>7 DEF Uart!Sustained
  <2>3. PhaseOne' /\ OwnAddress'  BY <2>1, <2>2, <1>1, <1>2 DEF PhaseOne, OwnAddress
  <2> QED  BY <2>1, <2>2, <2>3, <1>1, UartHost
<1>8. CASE Uart!Report
  <2>1. /\ uart_pc = "report" /\ UNCHANGED <<all_pass, neighbor>>
        /\ uart_pc' = IF all_pass THEN "exit0" ELSE "exit1"
    BY <1>8 DEF Uart!Report
  <2>2. PhaseOne'  BY <2>1, <1>1, <1>2 DEF PhaseOne
  <2>3. OwnAddress'  BY <2>1, <1>2 DEF OwnAddress
  <2>4. uart_pc' \in {"exit0", "exit1"}  BY <2>1
  <2> QED  BY <2>1, <2>2, <2>3, <2>4, <1>1, <1>2, UartHost
<1> QED  BY <1>3, <1>4, <1>5, <1>6, <1>7, <1>8

\* A frame that arrives, or nothing.
LEMMA UartRests == UartInv /\ (Uart!FrameArrives \/ UNCHANGED Uart!vars) => UartInv'
<1> SUFFICES ASSUME UartInv, Uart!FrameArrives \/ UNCHANGED Uart!vars PROVE UartInv'  OBVIOUS
<1>1. UNCHANGED <<boot, pos, link, uart_uart, uart_pc, on_board, results, done, all_pass,
                  neighbor, damaged, last>>
  BY DEF Uart!FrameArrives, Uart!vars, Uart!board, Uart!host
<1>2. LinkSays' = LinkSays  BY <1>1 DEF LinkSays
<1>3. UartTypes' /\ UartLines'  BY <1>1, <1>2 DEF UartInv, UartTypes, UartLines
<1>4. ThisBoot' /\ WasDone' /\ Unheard' /\ PhaseOne' /\ OwnAddress'
  BY <1>1 DEF UartInv, ThisBoot, WasDone, Unheard, PhaseOne, OwnAddress
<1> QED  BY <1>3, <1>4 DEF UartInv

LEMMA UartRuns == Spec => Uart!Spec
<1>1. Init => Uart!Init
  BY DEF Init
<1>2. [Next]_allVars => [Uart!Next]_(Uart!vars)
  BY DEF Next, allVars, RunSfp, RunPause, RunStats, RunLb, RunUart, RunThr, RunReg, uartVars,
         Uart!vars, Uart!host, Uart!board
<1> QED  BY <1>1, <1>2, PTL DEF Spec, Uart!Spec

\* A PASS of the serial monitor is about one boot of this board (serial_monitor.py 158-367,
\* test_sequencer.v), for any identification lines, boots, damaged lines and room for lines:
\* the results it used are those of the boot whose DONE it read, except where that boot's
\* own line, or its LINK, was damaged on the way, and no other machine answered for the
\* board's address.
THEOREM PassIsOwnBoot == Spec => []PassIsOneBoot
<1>1. UartInv /\ [Uart!Next]_(Uart!vars) => UartInv'
  <2> SUFFICES ASSUME UartInv, [Uart!Next]_(Uart!vars) PROVE UartInv'  OBVIOUS
  <2>1. CASE Uart!Next
    BY <2>1, UartIds, UartLinks, UartEnds, UartRests, UartResets, UartOpens, UartReads,
       UartJudges DEF Uart!Next
  <2>2. CASE UNCHANGED Uart!vars  BY <2>2, UartRests
  <2> QED  BY <2>1, <2>2
<1>2. UartInv => PassIsOneBoot
  <2> SUFFICES ASSUME UartInv, uart_pc = "exit0"
               PROVE  /\ on_board /\ neighbor # "other"
                      /\ (done /\ last = boot) =>
                           \A n \in Uart!Names :
                             results[n].boot = last \/ {n, "LINK"} \cap damaged # {}
    BY DEF PassIsOneBoot, Uart!PassIsOneBoot
  <2>1. \A n \in Named : results[n].val = "ok"
    BY DEF UartInv, PhaseOne
  <2>2. on_board  BY <2>1, NamesAre DEF UartInv, Unheard
  <2>3. neighbor # "other"  BY DEF UartInv, PhaseOne, OwnAddress
  <2>4. ASSUME done, last = boot, NEW n \in Named
        PROVE  results[n].boot = last \/ {n, "LINK"} \cap damaged # {}
    <3>1. pos = IdCount + 5 /\ uart_uart = <<>>  BY <2>4 DEF UartInv, WasDone
    <3>2. \A m \in Named : Behind(m, pos)
      <4>1. PICK c \in Nat : c = IdCount  BY ScriptIs
      <4>2. c + 1 < c + 5 /\ c + 2 < c + 5 /\ c + 3 < c + 5 /\ \A i \in 1 .. c : i < c + 5
        OBVIOUS
      <4> QED  BY <4>1, <4>2, <3>1 DEF Behind, Named
    <3>3. \A m \in Named : Accounted(m, uart_uart, results, boot, damaged) =>
                             m \in damaged \/ results[m].boot = boot
      <4>1. Len(uart_uart) = 0  BY <3>1
      <4> QED  BY <4>1, <2>1 DEF Accounted
    <3>4. \A m \in Named : \/ m \in damaged \/ results[m].boot = boot
                           \/ m \in {"TX", "RX"} /\ ~link
      BY <3>2, <3>3, <2>4 DEF UartInv, ThisBoot
    <3>5. ASSUME ~link PROVE "LINK" \in damaged
      <4>1. results["LINK"].boot = boot => results["LINK"].val = LinkSays
        BY DEF UartInv, UartLines, ResultsUpTo
      <4>2. LinkSays = "bad" /\ results["LINK"].val = "ok"
        BY <3>5, <2>1, NamesAre DEF LinkSays
      <4> QED  BY <4>1, <4>2, <3>4, NamesAre
    <3> QED  BY <3>4, <3>5, <2>4
  <2> QED  BY <2>2, <2>3, <2>4, NamesAre
<1> QED  BY <1>1, <1>2, UartStarts, UartRuns, PTL DEF Uart!Spec
-----------------------------------------------------------------------------
(* The counters over JTAG.                                                  *)

Counts   == [Sfp!Counters -> Nat]
MacStats == [Sfp!MacRegs -> Nat]
Parts    == Nat \cup Sfp!Builds
Words    == [1 .. 1 -> Parts] \cup [1 .. 2 -> Parts]

\* What the board and the tool hold.
SfpTypes ==
  /\ sfp_pc \in {"main", "wrong", "failed", "done"} \cup Sfp!EioPcs \cup Sfp!MacPcs
  /\ build \in Sfp!Builds /\ clear_on \in BOOLEAN /\ cleared \in BOOLEAN
  /\ count \in Counts /\ stat \in MacStats /\ since \in [eio : Counts, mac : MacStats]
  /\ raw \in Seq(Words) /\ Len(raw) <= 3
  /\ mac \in Seq(Nat) /\ Len(mac) <= 3 /\ idx \in 1 .. 3
  /\ window \in (SUBSET Counts) \X (SUBSET Counts) /\ torn \in BOOLEAN \X BOOLEAN
  /\ untaken \in SUBSET Sfp!MacRegs

\* The counters only go on.
AtMost(u, w) == u[1] <= w[1] /\ u[2] <= w[2]

\* The words of s, as far as they go, hold the halves the counters had at three instants
\* one after the other, a, b and d.
HalvesOf(s, a, b, d) ==
  /\ AtMost(a, b) /\ AtMost(b, d)
  /\ Len(s) >= 1 => s[1][1] = Sfp!lo(a[1])
  /\ Len(s) >= 2 => s[2][1] = Sfp!hi(b[1]) /\ s[2][2] = Sfp!lo(b[2])
  /\ Len(s) >= 3 => s[3][1] = Sfp!hi(d[2])

\* The read under way, and the one before it.
ReadOf(s, W) == \E a, b, d \in W : HalvesOf(s, a, b, d)
ReadBefore(s, V, W) ==
  Len(s) = 3 /\ \E a, b, d \in V : HalvesOf(s, a, b, d) /\ \A w \in W : AtMost(d, w)

\* The counters had every value of the window, and have the last.
Windows(V, W, c) == c \in W /\ W \subseteq V /\ \A v \in V : AtMost(v, c)

Reading ==
  sfp_pc = "read" =>
    /\ Windows(window[2], window[1], count)
    /\ torn[1] = FALSE => ReadOf(raw, window[1])
    /\ torn[2] = FALSE => prev = <<>> \/ ReadBefore(prev, window[2], window[1])
    /\ Len(raw) = 3 => raw[3][2] = build

\* A read that was accepted.
Trusted ==
  torn = <<FALSE, FALSE>> =>
    /\ \A c \in Sfp!Counters : \E w \in window[2] : w[c] = pcs.c[c]
    /\ (\A c \in Sfp!Counters : ~Sfp!Moved(c)) => pcs.c \in window[2]

Taken == {"check", "done"} \cup Sfp!MacPcs
Believed == /\ sfp_pc \in Taken => Trusted
            /\ sfp_pc = "check" => pcs.marker = build

\* The counters hold no more than was counted in this run; nor does what was read of them.
CountsFresh == AtMost(count, since.eio)
ReadFresh   == torn = <<FALSE, FALSE>> =>
                 \A c \in Sfp!Counters : pcs.c[c] \in Nat /\ pcs.c[c] <= since.eio[c]

\* The clear bit holds the counters at zero.
Held == clear_on => \A c \in Sfp!Counters : count[c] = 0

\* After a clear that was read back.
Cleared ==
  /\ sfp_pc \in {"main", "connect", "set", "set_back", "drop", "drop_back"} => ~cleared
  /\ sfp_pc \in {"drop", "drop_back"} => CountsFresh
  /\ sfp_pc \in {"read", "check"} /\ cleared => CountsFresh /\ ~clear_on
  /\ sfp_pc = "check" /\ cleared => ReadFresh
  /\ sfp_pc \in {"done"} \cup Sfp!MacPcs /\ opts.clear => ~clear_on /\ ReadFresh

\* A board with another build is left alone.
OtherBuild ==
  build # "throughput" =>
    ~clear_on /\ ~cleared /\ sfp_pc \in {"main", "connect", "read", "check", "wrong", "failed"}

\* A clear of the register's group, before the i-th, took place in this session.
ClearedBefore(r, i) == \E g \in Sfp!Group(r) : g < i /\ g \notin untaken

\* The MAC's registers are cleared one after the other, then read.
MacFresh ==
  /\ sfp_pc \in {"main", "mac_pause", "mac_clear"} => mac = <<>>
  /\ sfp_pc = "mac_pause" => idx = 1
  /\ sfp_pc = "mac_read" => idx = Len(mac) + 1
  /\ opts.clear =>
       /\ sfp_pc = "mac_clear" =>
            \A r \in 1 .. 3 : ClearedBefore(r, idx) => stat[r] <= since.mac[r]
       /\ sfp_pc \in {"mac_read", "mac_verify"} =>
            \A r \in 1 .. 3 : stat[r] <= since.mac[r] \/ Sfp!Group(r) \subseteq untaken
       /\ \A i \in 1 .. 3 : i <= Len(mac) =>
            mac[i] <= since.mac[i] \/ Sfp!Group(i) \subseteq untaken

SfpInv == SfpTypes /\ Reading /\ Believed /\ Held /\ Cleared /\ OtherBuild /\ MacFresh
\* The halves of a counter.
LEMMA HalvesAre ==
  ASSUME NEW v \in Nat
  PROVE  /\ Sfp!lo(v) \in 0 .. Base - 1 /\ Sfp!hi(v) \in Nat
         /\ v = Sfp!hi(v) * Base + Sfp!lo(v)
<1>1. Base \in Nat /\ Base > 0  BY SfpAssumption
<1>2. v % Base \in 0 .. Base - 1 /\ v \div Base \in Nat  BY <1>1
<1>3. v = Base * (v \div Base) + (v % Base)  BY <1>1
<1> QED  BY <1>1, <1>2, <1>3 DEF Sfp!lo, Sfp!hi

\* The high half goes on with the counter.
LEMMA HighGoesOn ==
  ASSUME NEW u \in Nat, NEW v \in Nat, u <= v
  PROVE  Sfp!hi(u) <= Sfp!hi(v)
<1>1. Base \in Nat /\ Base > 0  BY SfpAssumption
<1>2. u % Base \in 0 .. Base - 1 /\ u \div Base \in Nat  BY <1>1
<1>3. v % Base \in 0 .. Base - 1 /\ v \div Base \in Nat  BY <1>1
<1>4. u = Base * (u \div Base) + (u % Base) /\ v = Base * (v \div Base) + (v % Base)  BY <1>1
<1> QED  BY <1>1, <1>2, <1>3, <1>4 DEF Sfp!hi

\* A high half that was the same before and after belongs to the value between.
LEMMA HalvesMeet ==
  ASSUME NEW u \in Nat, NEW v \in Nat, NEW w \in Nat, u <= v, v <= w, Sfp!hi(u) = Sfp!hi(w)
  PROVE  Sfp!hi(w) * Base + Sfp!lo(v) = v
<1>1. Sfp!hi(u) <= Sfp!hi(v) /\ Sfp!hi(v) <= Sfp!hi(w)  BY HighGoesOn
<1>2. Sfp!hi(u) \in Nat /\ Sfp!hi(v) \in Nat /\ Sfp!hi(w) \in Nat  BY HalvesAre
<1>3. Sfp!hi(v) = Sfp!hi(w)  BY <1>1, <1>2
<1> QED  BY <1>3, HalvesAre

\* A low half comes back only after a whole round of it.
LEMMA LowComesBack ==
  ASSUME NEW u \in Nat, NEW v \in Nat, u <= v, Sfp!lo(u) = Sfp!lo(v), ~(v - u >= Base)
  PROVE  u = v
<1>1. Base \in Nat /\ Base > 0  BY SfpAssumption
<1>2. u % Base \in 0 .. Base - 1 /\ u \div Base \in Nat  BY <1>1
<1>3. v % Base \in 0 .. Base - 1 /\ v \div Base \in Nat  BY <1>1
<1>4. u = Base * (u \div Base) + (u % Base) /\ v = Base * (v \div Base) + (v % Base)  BY <1>1
<1>5. PICK p \in Nat, q \in Nat : p = u \div Base /\ q = v \div Base  BY <1>2, <1>3
<1>6. v - u = Base * q - Base * p
  <2>1. u % Base = v % Base  BY DEF Sfp!lo
  <2> QED  BY <2>1, <1>1, <1>2, <1>3, <1>4, <1>5
<1>7. Base * q - Base * p = Base * (q - p)  BY <1>1
<1>8. q - p <= 0
  <2>1. ASSUME q - p >= 1 PROVE Base * (q - p) >= Base  BY <2>1, <1>1
  <2> QED  BY <2>1, <1>6, <1>7
<1>9. Base * (q - p) <= 0  BY <1>1, <1>8
<1> QED  BY <1>6, <1>7, <1>9

\* Counts.
LEMMA CountsAre ==
  ASSUME NEW u \in Counts
  PROVE  u[1] \in Nat /\ u[2] \in Nat
BY DEF Counts, Sfp!Counters

LEMMA AtMostGoesOn ==
  ASSUME NEW u \in Counts, NEW v \in Counts, NEW w \in Counts
  PROVE  AtMost(u, u) /\ (AtMost(u, v) /\ AtMost(v, w) => AtMost(u, w))
<1>1. /\ u[1] \in Nat /\ u[2] \in Nat /\ v[1] \in Nat /\ v[2] \in Nat
      /\ w[1] \in Nat /\ w[2] \in Nat
  BY CountsAre
<1> QED  BY <1>1 DEF AtMost

\* Two whole reads that agree: the second one's counters each had their value at an
\* instant, and both at once if no low half came round.
LEMMA AgreeingReads ==
  ASSUME NEW V \in SUBSET Counts, NEW W \in SUBSET Counts, W \subseteq V,
         NEW s, Len(s) = 3, ReadBefore(s, V, W), ReadOf(s, W),
         NEW x, NEW y, x = s[2][1] * Base + s[1][1], y = s[3][1] * Base + s[2][2]
  PROVE  /\ \E w \in V : w[1] = x
         /\ \E w \in V : w[2] = y
         /\ (\A c \in {1, 2} : ~(\E u, w \in V : w[c] - u[c] >= Base)) =>
              \E w \in V : w[1] = x /\ w[2] = y
<1>1. PICK a \in V, b \in V, d \in V : HalvesOf(s, a, b, d) /\ \A w \in W : AtMost(d, w)
  BY DEF ReadBefore
<1>2. PICK e \in W, f \in W, g \in W : HalvesOf(s, e, f, g)  BY DEF ReadOf
<1>3. /\ a[1] \in Nat /\ b[1] \in Nat /\ d[1] \in Nat /\ e[1] \in Nat /\ f[1] \in Nat
      /\ g[1] \in Nat
      /\ a[2] \in Nat /\ b[2] \in Nat /\ d[2] \in Nat /\ e[2] \in Nat /\ f[2] \in Nat
      /\ g[2] \in Nat
  BY CountsAre
<1>4. /\ a[1] <= b[1] /\ b[1] <= d[1] /\ d[1] <= e[1] /\ e[1] <= f[1] /\ f[1] <= g[1]
      /\ a[2] <= b[2] /\ b[2] <= d[2] /\ d[2] <= e[2] /\ e[2] <= f[2] /\ f[2] <= g[2]
  BY <1>1, <1>2 DEF HalvesOf, AtMost
<1>5. /\ Sfp!lo(a[1]) = s[1][1] /\ Sfp!lo(e[1]) = s[1][1]
      /\ Sfp!hi(b[1]) = s[2][1] /\ Sfp!hi(f[1]) = s[2][1]
      /\ Sfp!lo(b[2]) = s[2][2] /\ Sfp!lo(f[2]) = s[2][2]
      /\ Sfp!hi(d[2]) = s[3][1] /\ Sfp!hi(g[2]) = s[3][1]
  <2>1. 3 >= 1 /\ 3 >= 2 /\ 3 >= 3  OBVIOUS
  <2> QED  BY <2>1, <1>1, <1>2 DEF HalvesOf
<1>6. e[1] = x
  <2>1. b[1] <= e[1]  BY <1>3, <1>4
  <2> QED  BY <2>1, <1>3, <1>4, <1>5, HalvesMeet
<1>7. f[2] = y
  <2>1. d[2] <= f[2]  BY <1>3, <1>4
  <2> QED  BY <2>1, <1>3, <1>4, <1>5, HalvesMeet
<1>8. ASSUME \A c \in {1, 2} : ~(\E u, w \in V : w[c] - u[c] >= Base)
      PROVE  b[1] = x /\ b[2] = y
  <2>1. ~(e[1] - a[1] >= Base) /\ ~(f[2] - b[2] >= Base)  BY <1>8
  <2>2. a[1] <= e[1] /\ b[2] <= f[2]  BY <1>3, <1>4
  <2>3. a[1] = e[1] /\ b[2] = f[2]  BY <2>1, <2>2, <1>3, <1>5, LowComesBack
  <2>4. b[1] = e[1]  BY <2>3, <1>3, <1>4
  <2> QED  BY <2>3, <2>4, <1>6, <1>7
<1> QED  BY <1>6, <1>7, <1>8
\* A counter goes on in the middle of a read.
LEMMA WindowsGoOn ==
  ASSUME NEW V \in SUBSET Counts, NEW W \in SUBSET Counts, NEW c \in Counts, NEW n \in Counts,
         Windows(V, W, c), AtMost(c, n)
  PROVE  /\ V \cup {n} \in SUBSET Counts /\ W \cup {n} \in SUBSET Counts
         /\ Windows(V \cup {n}, W \cup {n}, n)
         /\ \A s : ReadOf(s, W) => ReadOf(s, W \cup {n})
         /\ \A s : ReadBefore(s, V, W) => ReadBefore(s, V \cup {n}, W \cup {n})
<1>1. Windows(V \cup {n}, W \cup {n}, n)
  <2>1. ASSUME NEW v \in V PROVE AtMost(v, n)
    <3>1. v \in Counts /\ AtMost(v, c)  BY DEF Windows
    <3> QED  BY <3>1, AtMostGoesOn
  <2>2. AtMost(n, n)  BY AtMostGoesOn
  <2> QED  BY <2>1, <2>2 DEF Windows
<1>2. \A s : ReadOf(s, W) => ReadOf(s, W \cup {n})  BY DEF ReadOf
<1>3. ASSUME NEW s, ReadBefore(s, V, W) PROVE ReadBefore(s, V \cup {n}, W \cup {n})
  <2>1. PICK a \in V, b \in V, d \in V : HalvesOf(s, a, b, d) /\ \A w \in W : AtMost(d, w)
    BY <1>3 DEF ReadBefore
  <2>2. c \in W /\ d \in Counts  BY DEF Windows
  <2>3. AtMost(d, n)  BY <2>1, <2>2, AtMostGoesOn
  <2>4. \A w \in W \cup {n} : AtMost(d, w)  BY <2>1, <2>3
  <2> QED  BY <2>1, <2>4, <1>3 DEF ReadBefore
<1> QED  BY <1>1, <1>2, <1>3

\* A read begins.
LEMMA ReadBegins ==
  ASSUME NEW c \in Counts
  PROVE  Windows({c}, {c}, c) /\ ReadOf(<<>>, {c})
<1>1. AtMost(c, c)  BY AtMostGoesOn
<1>2. ~(Len(<<>>) >= 1) /\ ~(Len(<<>>) >= 2) /\ ~(Len(<<>>) >= 3)  OBVIOUS
<1>3. HalvesOf(<<>>, c, c, c)  BY <1>1, <1>2 DEF HalvesOf
<1> QED  BY <1>1, <1>3 DEF Windows, ReadOf

\* One more word is read.
LEMMA ReadGoesOn ==
  ASSUME NEW V \in SUBSET Counts, NEW W \in SUBSET Counts, NEW c \in Counts,
         Windows(V, W, c), NEW s \in Seq(Words), Len(s) < 3, ReadOf(s, W), NEW l \in Words,
         Len(s) = 0 => l[1] = Sfp!lo(c[1]),
         Len(s) = 1 => l[1] = Sfp!hi(c[1]) /\ l[2] = Sfp!lo(c[2]),
         Len(s) = 2 => l[1] = Sfp!hi(c[2])
  PROVE  ReadOf(Append(s, l), W)
<1> DEFINE t == Append(s, l)
<1>1. PICK k \in 0 .. 2 : k = Len(s)
  <2>1. PICK n \in Nat : n = Len(s)  BY LenProperties
  <2>2. n < 3  BY <2>1
  <2>3. n \in 0 .. 2  BY <2>2
  <2> QED  BY <2>1, <2>3
<1>2. Len(t) = k + 1 /\ t[k + 1] = l /\ \A i \in 1 .. k : t[i] = s[i]
  BY <1>1, AppendOf
<1> HIDE DEF t
<1>3. PICK a \in W, b \in W, d \in W : HalvesOf(s, a, b, d)  BY DEF ReadOf
<1>4. c \in W /\ AtMost(c, c) /\ AtMost(a, c) /\ AtMost(b, c)
  BY AtMostGoesOn DEF Windows
<1>5. CASE k = 0
  <2>1. ~(Len(t) >= 2) /\ ~(Len(t) >= 3) /\ t[1] = l  BY <1>2, <1>5
  <2>2. HalvesOf(t, c, c, c)  BY <2>1, <1>1, <1>4, <1>5 DEF HalvesOf
  <2> QED  BY <2>2, <1>4 DEF ReadOf, t
<1>6. CASE k = 1
  <2>1. ~(Len(t) >= 3) /\ t[2] = l /\ t[1] = s[1] /\ Len(s) >= 1  BY <1>1, <1>2, <1>6
  <2>2. HalvesOf(t, a, c, c)  BY <2>1, <1>1, <1>3, <1>4, <1>6 DEF HalvesOf
  <2> QED  BY <2>2, <1>4 DEF ReadOf, t
<1>7. CASE k = 2
  <2>1. t[3] = l /\ t[1] = s[1] /\ t[2] = s[2] /\ Len(s) >= 1 /\ Len(s) >= 2
    BY <1>1, <1>2, <1>7
  <2>2. HalvesOf(t, a, b, c)  BY <2>1, <1>1, <1>3, <1>4, <1>7 DEF HalvesOf
  <2> QED  BY <2>2, <1>4 DEF ReadOf, t
<1> QED  BY <1>5, <1>6, <1>7

\* A whole read becomes the one before.
LEMMA ReadTurns ==
  ASSUME NEW V \in SUBSET Counts, NEW W \in SUBSET Counts, NEW c \in Counts,
         Windows(V, W, c), NEW s, Len(s) = 3
  PROVE  /\ Windows(W, {c}, c)
         /\ ReadOf(s, W) => ReadBefore(s, W, {c})
<1>1. \A w \in W : AtMost(w, c)  BY DEF Windows
<1> QED  BY <1>1 DEF Windows, ReadOf, ReadBefore

LEMMA SfpStarts == Sfp!Init => SfpInv
<1> SUFFICES ASSUME Sfp!Init PROVE SfpInv  OBVIOUS
<1>1. /\ sfp_pc = "main" /\ build = "throughput" /\ clear_on = FALSE /\ cleared = FALSE
      /\ opts = [clear |-> FALSE, pause |-> "none"]
      /\ count = [c \in Sfp!Counters |-> 0] /\ stat = [r \in Sfp!MacRegs |-> 0]
      /\ since = [eio |-> [c \in Sfp!Counters |-> 0], mac |-> [r \in Sfp!MacRegs |-> 0]]
      /\ raw = <<>> /\ mac = <<>> /\ idx = 1
      /\ window = <<{}, {}>> /\ torn = <<FALSE, FALSE>> /\ untaken = {}
  BY DEF Sfp!Init, Sfp!None, Sfp!Zero
<1>2. count \in Counts /\ stat \in MacStats /\ since \in [eio : Counts, mac : MacStats]
  BY <1>1 DEF Counts, MacStats
<1>3. raw \in Seq(Words) /\ mac \in Seq(Nat) /\ Len(raw) = 0 /\ Len(mac) = 0  BY <1>1
<1>4. window \in (SUBSET Counts) \X (SUBSET Counts) /\ torn \in BOOLEAN \X BOOLEAN  BY <1>1
<1>5. build \in Sfp!Builds /\ idx \in 1 .. 3 /\ Len(raw) <= 3 /\ Len(mac) <= 3
  BY <1>1, <1>3 DEF Sfp!Builds
<1>6. clear_on \in BOOLEAN /\ cleared \in BOOLEAN  BY <1>1
<1>7. SfpTypes  BY <1>1, <1>2, <1>3, <1>4, <1>5, <1>6 DEF SfpTypes
<1>8. opts.clear = FALSE  BY <1>1
<1>9. Reading /\ Believed /\ Held /\ Cleared /\ OtherBuild /\ MacFresh
  BY <1>1, <1>8 DEF Reading, Believed, Taken, Held, Cleared, OtherBuild, MacFresh, Sfp!EioPcs,
     Sfp!MacPcs
<1> QED  BY <1>7, <1>9 DEF SfpInv
\* The words the host reads.
LEMMA WordIs ==
  ASSUME NEW u \in Counts, build \in Sfp!Builds
  PROVE  /\ Sfp!Word(1, u) = <<Sfp!lo(u[1])>>
         /\ Sfp!Word(2, u) = <<Sfp!hi(u[1]), Sfp!lo(u[2])>>
         /\ Sfp!Word(3, u) = <<Sfp!hi(u[2]), build>>
         /\ \A k \in {1, 2, 3} : Sfp!Word(k, u) \in Words
<1>1. /\ Sfp!Word(1, u) = <<Sfp!lo(u[1])>>
      /\ Sfp!Word(2, u) = <<Sfp!hi(u[1]), Sfp!lo(u[2])>>
      /\ Sfp!Word(3, u) = <<Sfp!hi(u[2]), build>>
  BY DEF Sfp!Word
<1>2. /\ Sfp!lo(u[1]) \in Parts /\ Sfp!lo(u[2]) \in Parts /\ build \in Parts
      /\ Sfp!hi(u[1]) \in Parts /\ Sfp!hi(u[2]) \in Parts
  <2>1. u[1] \in Nat /\ u[2] \in Nat  BY CountsAre
  <2>2. \A v \in Nat : Sfp!lo(v) \in Nat /\ Sfp!hi(v) \in Nat
    BY HalvesAre, SfpAssumption
  <2> QED  BY <2>1, <2>2 DEF Parts
<1>3. \A x, y \in Parts : <<x>> \in Words /\ <<x, y>> \in Words
  BY DEF Words
<1> QED  BY <1>1, <1>2, <1>3

\* A word that changes as it is captured stays a word; the build's name does not change.
LEMMA TornWord ==
  ASSUME NEW u \in Counts, NEW n \in Counts, build \in Sfp!Builds, NEW k \in {1, 2, 3},
         NEW j \in DOMAIN Sfp!Word(k, u), Sfp!Word(k, u)[j] # Sfp!Word(k, n)[j],
         NEW v \in 0 .. Base - 1
  PROVE  /\ [Sfp!Word(k, u) EXCEPT ![j] = v] \in Words
         /\ k = 3 => [Sfp!Word(k, u) EXCEPT ![j] = v][2] = build
<1>1. v \in Parts  BY SfpAssumption DEF Parts
<1>2. \A w \in Words : \A i \in DOMAIN w : [w EXCEPT ![i] = v] \in Words
  <2> TAKE w \in Words
  <2> TAKE i \in DOMAIN w
  <2>1. CASE w \in [1 .. 1 -> Parts]  BY <2>1, <1>1 DEF Words
  <2>2. CASE w \in [1 .. 2 -> Parts]  BY <2>2, <1>1 DEF Words
  <2> QED  BY <2>1, <2>2 DEF Words
<1>3. Sfp!Word(k, u) \in Words  BY WordIs
<1>4. ASSUME k = 3 PROVE [Sfp!Word(k, u) EXCEPT ![j] = v][2] = build
  <2>1. Sfp!Word(k, u) = <<Sfp!hi(u[2]), build>> /\ Sfp!Word(k, n) = <<Sfp!hi(n[2]), build>>
    BY <1>4, WordIs
  <2>2. j # 2  BY <2>1
  <2>3. 2 \in DOMAIN Sfp!Word(k, u) /\ Sfp!Word(k, u)[2] = build  BY <2>1
  <2> QED  BY <2>2, <2>3
<1> QED  BY <1>2, <1>3, <1>4

\* One more event.
LEMMA CountedIs ==
  ASSUME SfpTypes, Held, NEW c \in Sfp!Counters,
         NEW sn, sn = [since EXCEPT !.eio[c] = @ + 1]
  PROVE  /\ Sfp!Counted(c) \in Counts /\ AtMost(count, Sfp!Counted(c))
         /\ clear_on => Sfp!Counted(c) = count
         /\ sn \in [eio : Counts, mac : MacStats] /\ sn.mac = since.mac
         /\ \A i \in Sfp!Counters : since.eio[i] <= sn.eio[i]
         /\ CountsFresh => AtMost(Sfp!Counted(c), sn.eio)
<1>1. count \in Counts /\ since.eio \in Counts /\ since \in [eio : Counts, mac : MacStats]
  BY DEF SfpTypes
<1>2. /\ count[1] \in Nat /\ count[2] \in Nat /\ since.eio[1] \in Nat /\ since.eio[2] \in Nat
      /\ c = 1 \/ c = 2
  BY <1>1, CountsAre DEF Sfp!Counters
<1> DEFINE e == [count EXCEPT ![c] = @ + 1]
           f == [since.eio EXCEPT ![c] = @ + 1]
<1>3. /\ e \in Counts /\ \A i \in {1, 2} : e[i] = IF i = c THEN count[i] + 1 ELSE count[i]
  BY <1>1, <1>2 DEF Counts, Sfp!Counters
<1>4. /\ f \in Counts
      /\ \A i \in {1, 2} : f[i] = IF i = c THEN since.eio[i] + 1 ELSE since.eio[i]
  BY <1>1, <1>2 DEF Counts, Sfp!Counters
<1>5. sn.eio = f /\ sn.mac = since.mac /\ sn = [since EXCEPT !.eio = f]
  BY <1>1
<1>6. sn \in [eio : Counts, mac : MacStats]
  <2> HIDE DEF f
  <2> QED  BY <1>1, <1>4, <1>5
<1>7. Sfp!Counted(c) = (IF clear_on THEN count ELSE e)  BY DEF Sfp!Counted
<1> HIDE DEF e, f
<1>8. AtMost(count, e)  BY <1>2, <1>3 DEF AtMost
<1>9. AtMost(count, count)  BY <1>1, AtMostGoesOn
<1>10. \A i \in Sfp!Counters : since.eio[i] <= f[i]  BY <1>2, <1>4 DEF Sfp!Counters
<1>11. CountsFresh => AtMost(e, f) /\ AtMost(count, f)
  <2> SUFFICES ASSUME CountsFresh PROVE AtMost(e, f) /\ AtMost(count, f)  OBVIOUS
  <2>1. count[1] <= since.eio[1] /\ count[2] <= since.eio[2]  BY DEF CountsFresh, AtMost
  <2>2. CASE c = 1
    <3>1. e[1] = count[1] + 1 /\ e[2] = count[2] /\ f[1] = since.eio[1] + 1
          /\ f[2] = since.eio[2]
      BY <2>2, <1>3, <1>4
    <3> QED  BY <3>1, <2>1, <1>2 DEF AtMost
  <2>3. CASE c = 2
    <3>1. e[2] = count[2] + 1 /\ e[1] = count[1] /\ f[2] = since.eio[2] + 1
          /\ f[1] = since.eio[1]
      BY <2>3, <1>3, <1>4
    <3> QED  BY <3>1, <2>1, <1>2 DEF AtMost
  <2> QED  BY <2>2, <2>3, <1>2
<1> QED  BY <1>1, <1>3, <1>5, <1>6, <1>7, <1>8, <1>9, <1>10, <1>11
\* What the host does not see moves while it is not reading.
LEMMA SfpBoard ==
  ASSUME SfpInv, NEW c \in Sfp!Counters, count' = Sfp!Counted(c),
         since' = [since EXCEPT !.eio[c] = @ + 1],
         UNCHANGED <<sfp_pc, opts, pcs, cleared, mac, idx, build, clear_on, stat, untaken>>,
         sfp_pc \in Taken => UNCHANGED <<window, torn>>
  PROVE  /\ count' \in Counts /\ AtMost(count, count')
         /\ since' \in [eio : Counts, mac : MacStats]
         /\ Believed' /\ Held' /\ Cleared' /\ OtherBuild' /\ MacFresh'
<1>1. SfpTypes /\ Held  BY DEF SfpInv
<1>2. /\ count' \in Counts /\ AtMost(count, count')
      /\ clear_on => count' = count
      /\ since' \in [eio : Counts, mac : MacStats] /\ since'.mac = since.mac
      /\ \A i \in Sfp!Counters : since.eio[i] <= since'.eio[i]
      /\ CountsFresh => AtMost(count', since'.eio)
  BY <1>1, CountedIs
<1>3. since.eio \in Counts /\ since'.eio \in Counts  BY <1>1, <1>2 DEF SfpTypes
<1>4. Believed'
  <2>1. CASE sfp_pc \in Taken
    <3>1. Trusted' = Trusted  BY <2>1 DEF Trusted, Sfp!Moved
    <3> QED  BY <3>1, <2>1 DEF SfpInv, Believed
  <2>2. CASE sfp_pc \notin Taken  BY <2>2 DEF Believed, Taken
  <2> QED  BY <2>1, <2>2
<1>5. Held'  BY <1>1, <1>2 DEF Held
<1>6. ASSUME sfp_pc \in Taken, ReadFresh PROVE ReadFresh'
  <2> SUFFICES ASSUME torn = <<FALSE, FALSE>>, NEW i \in Sfp!Counters
               PROVE  pcs.c[i] \in Nat /\ pcs.c[i] <= since'.eio[i]
    BY <1>6 DEF ReadFresh
  <2>1. pcs.c[i] \in Nat /\ pcs.c[i] <= since.eio[i] /\ since.eio[i] <= since'.eio[i]
    BY <1>6, <1>2 DEF ReadFresh
  <2>2. since.eio[i] \in Nat /\ since'.eio[i] \in Nat
    BY <1>3 DEF Counts
  <2>3. PICK x \in Nat : x = pcs.c[i]  BY <2>1
  <2> QED  BY <2>1, <2>2, <2>3
<1>7. CountsFresh => CountsFresh'  BY <1>2 DEF CountsFresh
<1>8. Cleared'  BY <1>6, <1>7 DEF SfpInv, Cleared, Taken
<1>9. OtherBuild'  BY DEF SfpInv, OtherBuild
<1>10. MacFresh'  BY <1>2 DEF SfpInv, MacFresh, ClearedBefore
<1> QED  BY <1>2, <1>4, <1>5, <1>8, <1>9, <1>10

\* A counter moves in the window.
LEMMA SfpWindow ==
  ASSUME SfpInv, sfp_pc = "read", NEW n \in Counts, AtMost(count, n),
         window' = <<window[1] \cup {n}, window[2] \cup {n}>>
  PROVE  /\ window' \in (SUBSET Counts) \X (SUBSET Counts)
         /\ Windows(window'[2], window'[1], n)
         /\ \A s : ReadOf(s, window[1]) => ReadOf(s, window'[1])
         /\ \A s : ReadBefore(s, window[2], window[1]) =>
                     ReadBefore(s, window'[2], window'[1])
<1>1. /\ window[1] \in SUBSET Counts /\ window[2] \in SUBSET Counts /\ count \in Counts
      /\ Windows(window[2], window[1], count)
  BY DEF SfpInv, SfpTypes, Reading
<1> DEFINE W == window[1] \cup {n}
           V == window[2] \cup {n}
<1>2. window' = <<W, V>>  OBVIOUS
<1>3. window'[1] = W /\ window'[2] = V  BY <1>2
<1>4. /\ W \in SUBSET Counts /\ V \in SUBSET Counts /\ Windows(V, W, n)
      /\ \A s : ReadOf(s, window[1]) => ReadOf(s, W)
      /\ \A s : ReadBefore(s, window[2], window[1]) => ReadBefore(s, V, W)
  BY <1>1, WindowsGoOn
<1> HIDE DEF W, V
<1> QED  BY <1>2, <1>3, <1>4

\* The board counts an event.
LEMMA SfpEvents == SfpInv /\ (\E c \in Sfp!Counters : Sfp!Event(c)) => SfpInv'
<1> SUFFICES ASSUME SfpInv, NEW c \in Sfp!Counters, Sfp!Event(c) PROVE SfpInv'  OBVIOUS
<1>1. /\ count' = Sfp!Counted(c) /\ since' = [since EXCEPT !.eio[c] = @ + 1]
      /\ UNCHANGED <<sfp_pc, opts, pcs, cleared, mac, idx, build, clear_on, stat, raw, prev,
                     torn, untaken>>
      /\ window' = IF sfp_pc = "read"
                   THEN <<window[1] \cup {count'}, window[2] \cup {count'}>> ELSE window
  BY DEF Sfp!Event, Sfp!tool, Sfp!Note
<1>2. sfp_pc \in Taken => sfp_pc # "read"  BY DEF Taken, Sfp!MacPcs
<1>3. /\ count' \in Counts /\ AtMost(count, count')
      /\ since' \in [eio : Counts, mac : MacStats]
      /\ Believed' /\ Held' /\ Cleared' /\ OtherBuild' /\ MacFresh'
  BY <1>1, <1>2, SfpBoard
<1>4. CASE sfp_pc = "read"
  <2>1. /\ window' \in (SUBSET Counts) \X (SUBSET Counts)
        /\ Windows(window'[2], window'[1], count')
        /\ \A s : ReadOf(s, window[1]) => ReadOf(s, window'[1])
        /\ \A s : ReadBefore(s, window[2], window[1]) => ReadBefore(s, window'[2], window'[1])
    BY <1>1, <1>3, <1>4, SfpWindow
  <2>2. SfpTypes'  BY <2>1, <1>1, <1>3 DEF SfpInv, SfpTypes
  <2>3. Reading'  BY <2>1, <1>1, <1>4 DEF SfpInv, Reading
  <2> QED  BY <2>2, <2>3, <1>3 DEF SfpInv
<1>5. CASE sfp_pc # "read"
  <2>1. SfpTypes'  BY <1>1, <1>3, <1>5 DEF SfpInv, SfpTypes
  <2>2. Reading'  BY <1>1, <1>5 DEF Reading
  <2> QED  BY <2>1, <2>2, <1>3 DEF SfpInv
<1> QED  BY <1>4, <1>5

\* An event the very moment a word is captured.
LEMMA SfpTears == SfpInv /\ (\E c \in Sfp!Counters : Sfp!CaptureOnEvent(c)) => SfpInv'
<1> SUFFICES ASSUME SfpInv, NEW c \in Sfp!Counters, Sfp!CaptureOnEvent(c) PROVE SfpInv'
  OBVIOUS
<1>1. /\ sfp_pc = "read" /\ Len(raw) < 3
      /\ count' = Sfp!Counted(c) /\ since' = [since EXCEPT !.eio[c] = @ + 1]
      /\ torn' = <<TRUE, TRUE>>
      /\ UNCHANGED <<sfp_pc, opts, pcs, cleared, mac, idx, build, clear_on, stat, prev, untaken>>
      /\ window' = <<window[1] \cup {count'}, window[2] \cup {count'}>>
  BY DEF Sfp!CaptureOnEvent, Sfp!Note, Sfp!Go
<1>2. sfp_pc \notin Taken  BY <1>1 DEF Taken, Sfp!MacPcs
<1>3. /\ count' \in Counts /\ AtMost(count, count')
      /\ since' \in [eio : Counts, mac : MacStats]
      /\ Believed' /\ Held' /\ Cleared' /\ OtherBuild' /\ MacFresh'
  BY <1>1, <1>2, SfpBoard
<1>4. /\ window' \in (SUBSET Counts) \X (SUBSET Counts)
      /\ Windows(window'[2], window'[1], count')
  BY <1>1, <1>3, SfpWindow
<1>5. raw \in Seq(Words) /\ count \in Counts /\ build \in Sfp!Builds
  BY DEF SfpInv, SfpTypes
<1>6. PICK n \in 0 .. 2 : n = Len(raw)
  <2>1. PICK n \in Nat : n = Len(raw)  BY <1>5, LenProperties
  <2>2. n < 3  BY <1>1, <2>1
  <2>3. n \in 0 .. 2  BY <2>2
  <2> QED  BY <2>1, <2>3
<1>7. PICK k \in {1, 2, 3} : k = n + 1
  <2>1. n + 1 \in {1, 2, 3}  BY <1>6
  <2> QED  BY <2>1
<1>8. PICK j \in DOMAIN Sfp!Word(k, count), v \in 0 .. Base - 1 :
        /\ Sfp!Word(k, count)[j] # Sfp!Word(k, count')[j]
        /\ raw' = Append(raw, [Sfp!Word(k, count) EXCEPT ![j] = v])
  <2> DEFINE D == {i \in DOMAIN Sfp!Word(k, count) :
                     Sfp!Word(k, count)[i] # Sfp!Word(k, count')[i]}
             Seen(j, v) == [Sfp!Word(k, count) EXCEPT ![j] = v]
  <2>1. \E w \in {Seen(j, v) : j \in D, v \in 0 .. Base - 1} : raw' = Append(raw, w)
    BY <1>1, <1>6, <1>7 DEF Sfp!CaptureOnEvent
  <2> HIDE DEF D, Seen
  <2>2. PICK j \in D, v \in 0 .. Base - 1 : raw' = Append(raw, Seen(j, v))
    BY ONLY <2>1
  <2> QED  BY ONLY <2>2, Zenon DEF D, Seen
<1>9. PICK w \in Words : raw' = Append(raw, w) /\ (k = 3 => w[2] = build)
  <2>1. /\ [Sfp!Word(k, count) EXCEPT ![j] = v] \in Words
        /\ k = 3 => [Sfp!Word(k, count) EXCEPT ![j] = v][2] = build
    BY <1>3, <1>5, <1>8, TornWord
  <2> QED  BY <2>1, <1>8
<1>10. raw' \in Seq(Words) /\ Len(raw') = n + 1 /\ raw'[n + 1] = w
  BY <1>5, <1>6, <1>9, AppendOf
<1>11. Len(raw') <= 3 /\ (Len(raw') = 3 => raw'[3][2] = build)
  <2>1. n + 1 <= 3 /\ (n + 1 = 3 => k = 3)  BY <1>6, <1>7
  <2> QED  BY <2>1, <1>9, <1>10
<1>12. torn' \in BOOLEAN \X BOOLEAN /\ torn'[1] # FALSE /\ torn'[2] # FALSE  BY <1>1
<1>13. SfpTypes'
  BY <1>1, <1>3, <1>4, <1>10, <1>11, <1>12 DEF SfpInv, SfpTypes
<1>14. Reading'  BY <1>1, <1>4, <1>11, <1>12 DEF Reading
<1> QED  BY <1>3, <1>13, <1>14 DEF SfpInv
\* The MAC counts an event.
LEMMA SfpMacEvents == SfpInv /\ (\E r \in Sfp!MacRegs : Sfp!MacEvent(r)) => SfpInv'
<1> SUFFICES ASSUME SfpInv, NEW r \in Sfp!MacRegs, Sfp!MacEvent(r) PROVE SfpInv'  OBVIOUS
<1>1. /\ stat' = [stat EXCEPT ![r] = @ + 1] /\ since' = [since EXCEPT !.mac[r] = @ + 1]
      /\ UNCHANGED <<sfp_pc, opts, pcs, cleared, mac, idx, build, clear_on, count, raw, prev,
                     untaken, window, torn>>
  BY DEF Sfp!MacEvent, Sfp!tool, Sfp!ghost
<1>2. /\ SfpTypes /\ stat \in MacStats /\ since.mac \in MacStats
      /\ since \in [eio : Counts, mac : MacStats]
  BY DEF SfpInv, SfpTypes
<1> DEFINE f == [since.mac EXCEPT ![r] = @ + 1]
<1>3. f \in MacStats /\ \A i \in 1 .. 3 : f[i] = IF i = r THEN since.mac[i] + 1 ELSE since.mac[i]
  BY <1>2 DEF MacStats, Sfp!MacRegs
<1>4. stat' \in MacStats
      /\ \A i \in 1 .. 3 : stat'[i] = IF i = r THEN stat[i] + 1 ELSE stat[i]
  BY <1>1, <1>2 DEF MacStats, Sfp!MacRegs
<1>5. since'.mac = f /\ since'.eio = since.eio /\ since' = [since EXCEPT !.mac = f]
  BY <1>1, <1>2
<1> HIDE DEF f
<1>6. since' \in [eio : Counts, mac : MacStats]  BY <1>2, <1>3, <1>5
<1>7. \A i \in 1 .. 3 : stat[i] \in Nat /\ since.mac[i] \in Nat
  BY <1>2 DEF MacStats, Sfp!MacRegs
<1>8. \A i \in 1 .. 3 : stat[i] <= since.mac[i] => stat'[i] <= since'.mac[i]
  <2> TAKE i \in 1 .. 3
  <2>1. PICK x \in Nat, y \in Nat : x = stat[i] /\ y = since.mac[i]  BY <1>7
  <2>2. x <= y => x + 1 <= y + 1  OBVIOUS
  <2>3. CASE i = r
    <3>1. stat'[i] = x + 1 /\ since'.mac[i] = y + 1  BY <2>1, <2>3, <1>3, <1>4, <1>5
    <3> QED  BY <3>1, <2>1, <2>2
  <2>4. CASE i # r
    <3>1. stat'[i] = x /\ since'.mac[i] = y  BY <2>1, <2>4, <1>3, <1>4, <1>5
    <3> QED  BY <3>1, <2>1
  <2> QED  BY <2>3, <2>4
<1>9. \A i \in 1 .. 3 : i <= Len(mac) /\ mac[i] <= since.mac[i] => mac[i] <= since'.mac[i]
  <2> SUFFICES ASSUME NEW i \in 1 .. 3, i <= Len(mac), mac[i] <= since.mac[i]
               PROVE  mac[i] <= since'.mac[i]
    OBVIOUS
  <2>1. PICK k \in Nat : k = Len(mac)  BY <1>2, LenProperties DEF SfpTypes
  <2>2. i \in 1 .. Len(mac)  BY <2>1
  <2>3. mac[i] \in Nat  BY <2>2, <1>2, ElementOfSeq DEF SfpTypes
  <2>4. PICK x \in Nat, y \in Nat : x = mac[i] /\ y = since.mac[i]  BY <2>3, <1>7
  <2>5. since'.mac[i] = y \/ since'.mac[i] = y + 1  BY <2>4, <1>3, <1>5
  <2>6. x <= y /\ y <= y + 1  BY <2>4
  <2> QED  BY <2>4, <2>5, <2>6
<1>10. SfpTypes'  BY <1>1, <1>2, <1>4, <1>6 DEF SfpTypes
<1>11. Reading'  BY <1>1 DEF SfpInv, Reading
<1>12. Believed'
  <2>1. Trusted' = Trusted  BY <1>1 DEF Trusted, Sfp!Moved
  <2> QED  BY <2>1, <1>1 DEF SfpInv, Believed
<1>13. Held' /\ OtherBuild'  BY <1>1 DEF SfpInv, Held, OtherBuild
<1>14. Cleared'
  <2>1. CountsFresh' = CountsFresh /\ ReadFresh' = ReadFresh
    BY <1>1, <1>5 DEF CountsFresh, ReadFresh
  <2> QED  BY <2>1, <1>1 DEF SfpInv, Cleared
<1>15. MacFresh'  BY <1>1, <1>8, <1>9 DEF SfpInv, MacFresh, ClearedBefore
<1> QED  BY <1>10, <1>11, <1>12, <1>13, <1>14, <1>15 DEF SfpInv

\* A failed session starts again, or the tool gives up.
LEMMA SfpAgain ==
  ASSUME SfpInv, NEW entry \in {"connect", "mac_connect"},
         entry = "mac_connect" => sfp_pc \in Sfp!MacPcs,
         Sfp!Retry(entry),
         UNCHANGED <<build, count, clear_on, stat, since, untaken, window, torn>>
  PROVE  SfpInv'
<1>1. CASE /\ sfp_pc' = "failed"
           /\ UNCHANGED <<opts, prev, raw, pcs, cleared, mac, idx>>
  <2>1. SfpTypes'  BY <1>1 DEF SfpInv, SfpTypes
  <2>2. Reading' /\ Believed' /\ Held' /\ Cleared' /\ OtherBuild' /\ MacFresh'
    BY <1>1 DEF SfpInv, Reading, Believed, Taken, Held, Cleared, OtherBuild, MacFresh,
       Sfp!MacPcs
  <2> QED  BY <2>1, <2>2 DEF SfpInv
<1>2. CASE /\ sfp_pc' = entry /\ prev' = <<>> /\ raw' = <<>>
           /\ cleared' = FALSE /\ mac' = <<>> /\ idx' = 1 /\ opts' = opts
           /\ entry = "mac_connect" => pcs' = pcs
  <2>1. cleared' \in BOOLEAN  BY <1>2
  <2>2. raw' \in Seq(Words) /\ Len(raw') <= 3 /\ mac' \in Seq(Nat) /\ Len(mac') = 0
        /\ Len(mac') <= 3 /\ idx' \in 1 .. 3
    BY <1>2
  <2>3. sfp_pc' \in Sfp!EioPcs \cup Sfp!MacPcs  BY <1>2 DEF Sfp!EioPcs, Sfp!MacPcs
  <2>4. SfpTypes'  BY <2>1, <2>2, <2>3 DEF SfpInv, SfpTypes
  <2>5. Reading'  BY <1>2 DEF Reading
  <2>6. entry = "mac_connect" => Trusted' = Trusted /\ ReadFresh' = ReadFresh
    BY <1>2 DEF Trusted, Sfp!Moved, ReadFresh
  <2>7. Believed'  BY <2>6, <1>2 DEF SfpInv, Believed, Taken, Sfp!MacPcs
  <2>8. Held'  BY DEF SfpInv, Held
  <2>9. Cleared'  BY <2>6, <1>2 DEF SfpInv, Cleared, Sfp!MacPcs
  <2>10. OtherBuild'  BY <1>2 DEF SfpInv, OtherBuild, Sfp!MacPcs
  <2>11. \A i \in 1 .. 3 : ~(i <= Len(mac'))  BY <2>2
  <2>12. MacFresh'  BY <2>11, <1>2 DEF MacFresh
  <2> QED  BY <2>4, <2>5, <2>7, <2>8, <2>9, <2>10, <2>12 DEF SfpInv
<1> QED  BY <1>1, <1>2 DEF Sfp!Retry, Sfp!None

\* A scan fails, or ten reads disagree.
LEMMA SfpFails == SfpInv /\ (Sfp!ScanFails \/ Sfp!GiveUp) => SfpInv'
<1> SUFFICES ASSUME SfpInv, Sfp!ScanFails \/ Sfp!GiveUp PROVE SfpInv'  OBVIOUS
<1>1. UNCHANGED <<build, count, clear_on, stat, since, untaken, window, torn>>
  BY DEF Sfp!ScanFails, Sfp!GiveUp, Sfp!board, Sfp!ghost
<1>2. CASE Sfp!ScanFails
  <2>1. /\ sfp_pc \in Sfp!EioPcs \cup Sfp!MacPcs
        /\ Sfp!Retry(IF sfp_pc \in Sfp!EioPcs THEN "connect" ELSE "mac_connect")
    BY <1>2 DEF Sfp!ScanFails, Sfp!Session
  <2>2. CASE sfp_pc \in Sfp!EioPcs  BY <2>1, <2>2, <1>1, SfpAgain
  <2>3. CASE sfp_pc \notin Sfp!EioPcs  BY <2>1, <2>3, <1>1, SfpAgain
  <2> QED  BY <2>2, <2>3
<1>3. CASE Sfp!GiveUp  BY <1>3, <1>1, SfpAgain DEF Sfp!GiveUp
<1> QED  BY <1>2, <1>3

\* The tool starts on a board.
LEMMA SfpMains ==
  SfpInv /\ (\E o \in Sfp!Options, b \in Sfp!Builds, left_on \in BOOLEAN :
               (b # "throughput" => ~left_on) /\ Sfp!Main(o, b, left_on)) => SfpInv'
<1> SUFFICES ASSUME SfpInv, NEW o \in Sfp!Options, NEW b \in Sfp!Builds,
                    NEW left_on \in BOOLEAN, b # "throughput" => ~left_on,
                    Sfp!Main(o, b, left_on)
             PROVE  SfpInv'
  OBVIOUS
<1>1. /\ sfp_pc = "main" /\ sfp_pc' = "connect" /\ build' = b /\ clear_on' = left_on
      /\ count' = (IF left_on THEN [c \in Sfp!Counters |-> 0]
                   ELSE [c \in Sfp!Counters |-> Base - 1])
      /\ stat' = [r \in Sfp!MacRegs |-> 1]
      /\ UNCHANGED <<raw, prev, pcs, cleared, mac, idx, since, untaken, window, torn>>
  BY DEF Sfp!Main, Sfp!ghost, Sfp!Zero
<1>2. ~cleared /\ mac = <<>>  BY <1>1 DEF SfpInv, Cleared, MacFresh
<1>3. count' \in Counts /\ stat' \in MacStats
  <2>1. Base - 1 \in Nat  BY SfpAssumption
  <2> QED  BY <2>1, <1>1 DEF Counts, MacStats
<1>4. clear_on' \in BOOLEAN /\ sfp_pc' \in Sfp!EioPcs  BY <1>1 DEF Sfp!EioPcs
<1>5. SfpTypes'  BY <1>1, <1>3, <1>4 DEF SfpInv, SfpTypes
<1>6. Held'  BY <1>1 DEF Held
<1>7. \A i \in 1 .. 3 : ~(i <= Len(mac))
  <2>1. Len(mac) = 0  BY <1>2
  <2> QED  BY <2>1
<1>8. Reading' /\ Believed' /\ Cleared' /\ OtherBuild' /\ MacFresh'
  BY <1>1, <1>2, <1>7 DEF Reading, Believed, Taken, Cleared, OtherBuild, MacFresh, Sfp!MacPcs
<1> QED  BY <1>5, <1>6, <1>8 DEF SfpInv
\* A new read: at the start of a session, or after the clear bit was read back low.
LEMMA SfpReads ==
  ASSUME SfpInv, sfp_pc' \in {"read", "wrong"}, Sfp!StartRead, cleared' \in BOOLEAN,
         cleared' => CountsFresh /\ ~clear_on,
         build # "throughput" => ~cleared' /\ sfp_pc \in {"connect", "read", "check"},
         UNCHANGED <<opts, mac, idx, build, clear_on, stat, count, since, untaken>>
  PROVE  SfpInv'
<1>1. count \in Counts  BY DEF SfpInv, SfpTypes
<1>2. raw' = <<>> /\ prev' = <<>> /\ window' = <<{count}, {count}>> /\ torn' = <<FALSE, FALSE>>
  BY DEF Sfp!StartRead, Sfp!None
<1>3. window'[1] = {count} /\ window'[2] = {count} /\ Len(raw') = 0 /\ raw' \in Seq(Words)
  BY <1>2
<1>4. window' \in (SUBSET Counts) \X (SUBSET Counts)  BY <1>1, <1>2
<1>5. torn' \in BOOLEAN \X BOOLEAN  BY <1>2
<1>6. sfp_pc' \in {"wrong"} \cup Sfp!EioPcs  BY DEF Sfp!EioPcs
<1>7. SfpTypes'
  <2>1. Len(raw') <= 3  BY <1>3
  <2> QED  BY <2>1, <1>3, <1>4, <1>5, <1>6 DEF SfpInv, SfpTypes
<1>8. Reading'
  <2>1. Windows({count}, {count}, count) /\ ReadOf(<<>>, {count})  BY <1>1, ReadBegins
  <2>2. Len(raw') # 3  BY <1>3
  <2> QED  BY <2>1, <2>2, <1>2, <1>3 DEF Reading
<1>9. Held'  BY DEF SfpInv, Held
<1>10. Believed' /\ OtherBuild'
  BY DEF SfpInv, Believed, Taken, OtherBuild, Sfp!MacPcs
<1>11. Cleared'
  <2>1. CountsFresh' = CountsFresh  BY DEF CountsFresh
  <2> QED  BY <2>1 DEF Cleared, Sfp!MacPcs
<1>12. MacFresh'  BY DEF SfpInv, MacFresh
<1> QED  BY <1>7, <1>8, <1>9, <1>10, <1>11, <1>12 DEF SfpInv

\* A session connects.
LEMMA SfpConnects == SfpInv /\ Sfp!Connect => SfpInv'
<1> SUFFICES ASSUME SfpInv, Sfp!Connect PROVE SfpInv'  OBVIOUS
<1>1. /\ sfp_pc = "connect" /\ sfp_pc' \in {"read", "wrong"} /\ Sfp!StartRead
      /\ UNCHANGED <<opts, cleared, mac, idx, build, clear_on, stat, count, since, untaken>>
  BY DEF Sfp!Connect, Sfp!Go, Sfp!board
<1>2. ~cleared /\ cleared' \in BOOLEAN  BY <1>1 DEF SfpInv, SfpTypes, Cleared
<1> QED  BY <1>1, <1>2, SfpReads

\* A word is captured.
LEMMA SfpCaptures == SfpInv /\ Sfp!Capture => SfpInv'
<1> SUFFICES ASSUME SfpInv, Sfp!Capture PROVE SfpInv'  OBVIOUS
<1>1. /\ sfp_pc = "read" /\ Len(raw) < 3 /\ raw' = Append(raw, Sfp!Word(Len(raw) + 1, count))
      /\ UNCHANGED <<sfp_pc, opts, prev, pcs, cleared, mac, idx, build, clear_on, stat, count,
                     since, untaken, window, torn>>
  BY DEF Sfp!Capture, Sfp!Go, Sfp!board, Sfp!ghost
<1>2. /\ raw \in Seq(Words) /\ count \in Counts /\ build \in Sfp!Builds
      /\ window[1] \in SUBSET Counts /\ window[2] \in SUBSET Counts
      /\ Windows(window[2], window[1], count)
  BY <1>1 DEF SfpInv, SfpTypes, Reading
<1>3. PICK n \in 0 .. 2 : n = Len(raw)
  <2>1. PICK n \in Nat : n = Len(raw)  BY <1>2, LenProperties
  <2>2. n < 3  BY <1>1, <2>1
  <2>3. n \in 0 .. 2  BY <2>2
  <2> QED  BY <2>1, <2>3
<1>4. PICK w : w = Sfp!Word(n + 1, count)  OBVIOUS
<1>5. /\ w \in Words
      /\ n = 0 => w[1] = Sfp!lo(count[1])
      /\ n = 1 => w[1] = Sfp!hi(count[1]) /\ w[2] = Sfp!lo(count[2])
      /\ n = 2 => w[1] = Sfp!hi(count[2]) /\ w[2] = build
  <2>1. CASE n = 0
    <3>1. n + 1 = 1  BY <2>1
    <3>2. w = <<Sfp!lo(count[1])>> /\ w \in Words  BY <3>1, <1>2, <1>4, WordIs
    <3> QED  BY <3>2, <2>1
  <2>2. CASE n = 1
    <3>1. n + 1 = 2  BY <2>2
    <3>2. w = <<Sfp!hi(count[1]), Sfp!lo(count[2])>> /\ w \in Words  BY <3>1, <1>2, <1>4, WordIs
    <3> QED  BY <3>2, <2>2
  <2>3. CASE n = 2
    <3>1. n + 1 = 3  BY <2>3
    <3>2. w = <<Sfp!hi(count[2]), build>> /\ w \in Words  BY <3>1, <1>2, <1>4, WordIs
    <3> QED  BY <3>2, <2>3
  <2> QED  BY <2>1, <2>2, <2>3
<1>6. raw' = Append(raw, w)  BY <1>1, <1>3, <1>4
<1>7. /\ raw' \in Seq(Words) /\ Len(raw') = n + 1 /\ raw'[n + 1] = w
  BY <1>2, <1>3, <1>5, <1>6, AppendOf
<1>8. Len(raw') <= 3 /\ (Len(raw') = 3 => raw'[3][2] = build)
  <2>1. n + 1 <= 3 /\ (n + 1 = 3 => n = 2)  BY <1>3
  <2> QED  BY <2>1, <1>5, <1>7
<1>9. ReadOf(raw, window[1]) => ReadOf(raw', window[1])
  BY <1>1, <1>2, <1>3, <1>5, <1>6, ReadGoesOn
<1>10. SfpTypes'  BY <1>1, <1>7, <1>8 DEF SfpInv, SfpTypes
<1>11. Reading'  BY <1>1, <1>8, <1>9 DEF SfpInv, Reading
<1>12. Believed'  BY <1>1 DEF Believed, Taken, Sfp!MacPcs
<1>13. Held' /\ OtherBuild' /\ MacFresh'
  BY <1>1 DEF SfpInv, Held, OtherBuild, MacFresh
<1>14. Cleared'
  <2>1. CountsFresh' = CountsFresh  BY <1>1 DEF CountsFresh
  <2> QED  BY <2>1, <1>1 DEF SfpInv, Cleared, Sfp!MacPcs
<1> QED  BY <1>10, <1>11, <1>12, <1>13, <1>14 DEF SfpInv

\* What was read twice alike is trusted.
LEMMA AcceptedIsTrusted ==
  ASSUME SfpInv, sfp_pc = "read", Len(raw) = 3, raw = prev
  PROVE  torn = <<FALSE, FALSE>> =>
           /\ \A c \in Sfp!Counters : \E w \in window[2] : w[c] = Sfp!Fields(raw).c[c]
           /\ (\A c \in Sfp!Counters : ~Sfp!Moved(c)) => Sfp!Fields(raw).c \in window[2]
<1> SUFFICES ASSUME torn = <<FALSE, FALSE>>
             PROVE  /\ \A c \in Sfp!Counters :
                         \E w \in window[2] : w[c] = Sfp!Fields(raw).c[c]
                    /\ (\A c \in Sfp!Counters : ~Sfp!Moved(c)) =>
                         Sfp!Fields(raw).c \in window[2]
  OBVIOUS
<1>1. torn[1] = FALSE /\ torn[2] = FALSE  OBVIOUS
<1>2. /\ window[1] \in SUBSET Counts /\ window[2] \in SUBSET Counts
      /\ window[1] \subseteq window[2]
      /\ ReadOf(raw, window[1]) /\ (raw = <<>> \/ ReadBefore(raw, window[2], window[1]))
  BY <1>1 DEF SfpInv, SfpTypes, Reading, Windows
<1>3. ReadBefore(raw, window[2], window[1])
  <2>1. Len(<<>>) # 3  OBVIOUS
  <2> QED  BY <2>1, <1>2
<1>4. PICK x, y : x = raw[2][1] * Base + raw[1][1] /\ y = raw[3][1] * Base + raw[2][2]
  OBVIOUS
<1>5. /\ \E w \in window[2] : w[1] = x
      /\ \E w \in window[2] : w[2] = y
      /\ (\A c \in {1, 2} : ~(\E u, w \in window[2] : w[c] - u[c] >= Base)) =>
           \E w \in window[2] : w[1] = x /\ w[2] = y
  BY <1>2, <1>3, <1>4, AgreeingReads
<1>6. Sfp!Fields(raw).c = <<x, y>>  BY <1>4 DEF Sfp!Fields
<1>7. \A c \in {1, 2} : Sfp!Moved(c) <=> \E u, w \in window[2] : w[c] - u[c] >= Base
  BY DEF Sfp!Moved
<1>8. \A w \in Counts : w[1] = x /\ w[2] = y => w = <<x, y>>
  <2> SUFFICES ASSUME NEW w \in Counts, w[1] = x, w[2] = y PROVE w = <<x, y>>
    OBVIOUS
  <2>1. DOMAIN w = 1 .. 2
    <3>1. {1, 2} = 1 .. 2  OBVIOUS
    <3> QED  BY <3>1 DEF Counts, Sfp!Counters
  <2>2. w = [i \in 1 .. 2 |-> w[i]]  BY <2>1 DEF Counts
  <2>3. \A i \in 1 .. 2 : w[i] = <<x, y>>[i]
    <3>1. \A i \in 1 .. 2 : i = 1 \/ i = 2  OBVIOUS
    <3> QED  BY <3>1
  <2> QED  BY <2>2, <2>3
<1>9. \A c \in Sfp!Counters : c = 1 \/ c = 2  BY DEF Sfp!Counters
<1>10. \A c \in Sfp!Counters : \E w \in window[2] : w[c] = <<x, y>>[c]
  BY <1>5, <1>9
<1>11. ASSUME \A c \in Sfp!Counters : ~Sfp!Moved(c) PROVE <<x, y>> \in window[2]
  <2>1. PICK w \in window[2] : w[1] = x /\ w[2] = y
    BY <1>5, <1>7, <1>11 DEF Sfp!Counters
  <2>2. w \in Counts  BY <1>2
  <2> QED  BY <2>1, <2>2, <1>8
<1> QED  BY <1>6, <1>10, <1>11
\* Two reads agree, or the second becomes the one before.
LEMMA SfpCompares == SfpInv /\ Sfp!Compare => SfpInv'
<1> SUFFICES ASSUME SfpInv, Sfp!Compare PROVE SfpInv'  OBVIOUS
<1>1. /\ sfp_pc = "read" /\ Len(raw) = 3
      /\ UNCHANGED <<opts, cleared, mac, idx, build, clear_on, stat, count, since, untaken>>
  BY DEF Sfp!Compare, Sfp!Go, Sfp!board
<1>2. /\ SfpTypes /\ window[1] \in SUBSET Counts /\ window[2] \in SUBSET Counts
      /\ Windows(window[2], window[1], count) /\ count \in Counts
  BY <1>1 DEF SfpInv, SfpTypes, Reading
<1>3. CountsFresh' = CountsFresh  BY <1>1 DEF CountsFresh
<1>4. CASE /\ raw = prev /\ pcs' = Sfp!Fields(raw) /\ sfp_pc' = "check"
           /\ UNCHANGED <<prev, raw, window, torn>>
  <2>1. SfpTypes'
    BY <1>1, <1>4, <1>2 DEF SfpTypes, Sfp!EioPcs
  <2>2. Trusted'
    <3>1. \A c \in Sfp!Counters : Sfp!Moved(c)' = Sfp!Moved(c)
      BY <1>4 DEF Sfp!Moved
    <3> QED  BY <3>1, <1>1, <1>4, AcceptedIsTrusted DEF Trusted
  <2>3. pcs'.marker = build
    BY <1>1, <1>4 DEF Sfp!Fields, SfpInv, Reading
  <2>4. Reading' /\ Believed' /\ Held' /\ OtherBuild' /\ MacFresh'
    BY <2>2, <2>3, <1>1, <1>4 DEF SfpInv, Reading, Believed, Taken, Held, OtherBuild, MacFresh
  <2>5. ASSUME CountsFresh PROVE ReadFresh'
    <3> SUFFICES ASSUME torn = <<FALSE, FALSE>>, NEW c \in Sfp!Counters
                 PROVE  pcs'.c[c] \in Nat /\ pcs'.c[c] <= since.eio[c]
      BY <1>1, <1>4 DEF ReadFresh
    <3>1. PICK w \in window[2] : w[c] = pcs'.c[c]
      BY <2>2, <1>4 DEF Trusted
    <3>2. w \in Counts /\ AtMost(w, count)  BY <1>2 DEF Windows
    <3>3. since.eio \in Counts  BY <1>2 DEF SfpTypes
    <3>4. AtMost(w, since.eio)  BY <3>2, <3>3, <2>5, <1>2, AtMostGoesOn DEF CountsFresh
    <3>5. w[c] \in Nat /\ w[c] <= since.eio[c]
      BY <3>2, <3>4, CountsAre DEF AtMost, Sfp!Counters
    <3> QED  BY <3>1, <3>5
  <2>6. Cleared'  BY <2>5, <1>1, <1>3, <1>4 DEF SfpInv, Cleared, Sfp!MacPcs
  <2> QED  BY <2>1, <2>4, <2>6 DEF SfpInv
<1>5. CASE /\ prev' = raw /\ raw' = <<>> /\ window' = <<{count}, window[1]>>
           /\ torn' = <<FALSE, torn[1]>> /\ sfp_pc' = "read" /\ pcs' = pcs
  <2>1. /\ window'[1] = {count} /\ window'[2] = window[1] /\ torn'[2] = torn[1]
        /\ raw' \in Seq(Words) /\ Len(raw') = 0 /\ Len(raw') <= 3
    BY <1>5
  <2>2. window' \in (SUBSET Counts) \X (SUBSET Counts) /\ torn' \in BOOLEAN \X BOOLEAN
    BY <1>2, <1>5 DEF SfpTypes
  <2>3. SfpTypes'  BY <2>1, <2>2, <1>1, <1>2, <1>5 DEF SfpTypes, Sfp!EioPcs
  <2>4. Windows(window[1], {count}, count)
        /\ (ReadOf(raw, window[1]) => ReadBefore(raw, window[1], {count}))
    BY <1>1, <1>2, ReadTurns
  <2>5. ReadOf(<<>>, {count})  BY <1>2, ReadBegins
  <2>6. torn[1] = FALSE => ReadOf(raw, window[1])  BY <1>1 DEF SfpInv, Reading
  <2>7. Reading'
    <3>1. Len(raw') # 3  BY <2>1
    <3> QED  BY <3>1, <2>1, <2>4, <2>5, <2>6, <1>1, <1>5 DEF Reading
  <2>8. Believed' /\ Held' /\ OtherBuild' /\ MacFresh'
    BY <1>1, <1>5 DEF SfpInv, Believed, Taken, Held, OtherBuild, MacFresh, Sfp!MacPcs
  <2>9. Cleared'  BY <1>1, <1>3, <1>5 DEF SfpInv, Cleared, Sfp!MacPcs
  <2> QED  BY <2>3, <2>7, <2>8, <2>9 DEF SfpInv
<1> QED  BY <1>4, <1>5 DEF Sfp!Compare, Sfp!Go, Sfp!None

\* The build is checked before anything is written.
LEMMA SfpChecks == SfpInv /\ Sfp!Check => SfpInv'
<1> SUFFICES ASSUME SfpInv, Sfp!Check PROVE SfpInv'  OBVIOUS
<1>1. /\ sfp_pc = "check"
      /\ UNCHANGED <<opts, pcs, cleared, mac, idx, build, clear_on, stat, count, since, raw,
                     prev, untaken, window, torn>>
  BY DEF Sfp!Check, Sfp!Go, Sfp!board, Sfp!ghost
<1>2. \/ sfp_pc' = "wrong"
      \/ sfp_pc' = "set" /\ pcs.marker = "throughput" /\ ~cleared
      \/ /\ sfp_pc' = "mac_connect" /\ (~cleared => pcs.marker = "throughput")
         /\ opts.clear => cleared
  BY DEF Sfp!Check, Sfp!Go, Sfp!Marker
<1>3. pcs.marker = build /\ Trusted  BY <1>1 DEF SfpInv, Believed, Taken
<1>4. CountsFresh' = CountsFresh /\ ReadFresh' = ReadFresh /\ Trusted' = Trusted
  BY <1>1 DEF CountsFresh, ReadFresh, Trusted, Sfp!Moved
<1>5. SfpTypes'  BY <1>1, <1>2 DEF SfpInv, SfpTypes, Sfp!EioPcs, Sfp!MacPcs
<1>6. Reading' /\ Held' /\ MacFresh'
  BY <1>1, <1>2 DEF SfpInv, Reading, Held, MacFresh
<1>7. Believed'  BY <1>2, <1>3, <1>4 DEF Believed
<1>8. Cleared'  BY <1>1, <1>2, <1>4 DEF SfpInv, Cleared, Sfp!MacPcs
<1>9. OtherBuild'  BY <1>1, <1>2, <1>3 DEF SfpInv, OtherBuild
<1> QED  BY <1>5, <1>6, <1>7, <1>8, <1>9 DEF SfpInv

\* The clear bit is written, or the write fails silently.
LEMMA SfpWrites == SfpInv /\ (Sfp!SetClear \/ Sfp!DropClear) => SfpInv'
<1> SUFFICES ASSUME SfpInv, Sfp!SetClear \/ Sfp!DropClear PROVE SfpInv'  OBVIOUS
<1>1. PICK v \in BOOLEAN :
        /\ Sfp!WriteOutputs(v)
        /\ \/ v = TRUE /\ sfp_pc = "set" /\ sfp_pc' = "set_back"
           \/ v = FALSE /\ sfp_pc = "drop" /\ sfp_pc' = "drop_back"
  BY DEF Sfp!SetClear, Sfp!DropClear
<1>2. /\ UNCHANGED <<opts, pcs, cleared, mac, idx, build, stat, since, untaken, raw, prev, window,
                     torn>>
      /\ \/ clear_on' = v /\ count' = IF v THEN [c \in Sfp!Counters |-> 0] ELSE count
         \/ clear_on' = clear_on /\ count' = count
  BY <1>1 DEF Sfp!WriteOutputs, Sfp!ghost, Sfp!Zero
<1>3. SfpTypes /\ Held /\ ~cleared
  BY <1>1 DEF SfpInv, Cleared
<1>4. clear_on' \in BOOLEAN  BY <1>1, <1>2, <1>3 DEF SfpTypes
<1>5. [c \in Sfp!Counters |-> 0] \in Counts  BY DEF Counts
<1>6. count' \in Counts  BY <1>2, <1>3, <1>5 DEF SfpTypes
<1>7. SfpTypes'  BY <1>1, <1>2, <1>3, <1>4, <1>6 DEF SfpTypes, Sfp!EioPcs
<1>8. Held'
  <2>1. CASE v = TRUE /\ count' = [c \in Sfp!Counters |-> 0]  BY <2>1 DEF Held
  <2>2. CASE v = FALSE /\ clear_on' = v  BY <2>2 DEF Held
  <2>3. CASE clear_on' = clear_on /\ count' = count  BY <2>3, <1>3 DEF Held
  <2> QED  BY <2>1, <2>2, <2>3, <1>2
<1>9. Reading' /\ Believed' /\ MacFresh'
  BY <1>1, <1>2 DEF SfpInv, Reading, Believed, Taken, MacFresh, Sfp!MacPcs
<1>10. OtherBuild'  BY <1>1, <1>2 DEF SfpInv, OtherBuild
<1>11. sfp_pc' = "drop_back" => CountsFresh'
  <2> SUFFICES ASSUME sfp_pc' = "drop_back" PROVE CountsFresh'  OBVIOUS
  <2>1. v = FALSE /\ CountsFresh  BY <1>1 DEF SfpInv, Cleared
  <2>2. count' = count  BY <2>1, <1>2
  <2> QED  BY <2>1, <2>2, <1>2 DEF CountsFresh
<1>12. Cleared'  BY <1>1, <1>2, <1>3, <1>11 DEF Cleared, Sfp!MacPcs
<1> QED  BY <1>7, <1>8, <1>9, <1>10, <1>12 DEF SfpInv

\* The clear bit is read back.
LEMMA SfpReadsBack ==
  SfpInv /\ (\/ Sfp!ReadBack("set_back", TRUE, "drop")
             \/ Sfp!ReadBack("drop_back", FALSE, "read")) => SfpInv'
<1> SUFFICES ASSUME SfpInv, \/ Sfp!ReadBack("set_back", TRUE, "drop")
                            \/ Sfp!ReadBack("drop_back", FALSE, "read")
             PROVE  SfpInv'
  OBVIOUS
<1>1. UNCHANGED <<build, count, clear_on, stat, since, untaken>>
  BY DEF Sfp!ReadBack, Sfp!board
<1>2. sfp_pc \in {"set_back", "drop_back"}  BY DEF Sfp!ReadBack
<1>3. CASE Sfp!Retry("connect") /\ UNCHANGED <<window, torn>>
  BY <1>1, <1>3, SfpAgain
<1>4. CASE /\ sfp_pc = "set_back" /\ clear_on = TRUE /\ sfp_pc' = "drop"
           /\ cleared' = FALSE
           /\ UNCHANGED <<opts, pcs, prev, raw, window, torn, mac, idx>>
  <2>1. CountsFresh
    <3>1. since.eio \in Counts  BY DEF SfpInv, SfpTypes
    <3>2. since.eio[1] \in Nat /\ since.eio[2] \in Nat  BY <3>1, CountsAre
    <3>3. count[1] = 0 /\ count[2] = 0  BY <1>4 DEF SfpInv, Held, Sfp!Counters
    <3> QED  BY <3>2, <3>3 DEF CountsFresh, AtMost
  <2>2. CountsFresh'  BY <2>1, <1>1 DEF CountsFresh
  <2>3. cleared' \in BOOLEAN  BY <1>4
  <2>4. SfpTypes'  BY <2>3, <1>1, <1>4 DEF SfpInv, SfpTypes, Sfp!EioPcs
  <2>5. Reading' /\ Believed' /\ Held' /\ OtherBuild' /\ MacFresh'
    BY <1>1, <1>4 DEF SfpInv, Reading, Believed, Taken, Held, OtherBuild, MacFresh, Sfp!MacPcs
  <2>6. Cleared'  BY <2>2, <1>1, <1>4 DEF Cleared, Sfp!MacPcs
  <2> QED  BY <2>4, <2>5, <2>6 DEF SfpInv
<1>5. CASE /\ sfp_pc = "drop_back" /\ clear_on = FALSE /\ sfp_pc' = "read"
           /\ cleared' = TRUE /\ Sfp!StartRead
           /\ UNCHANGED <<opts, pcs, mac, idx>>
  <2>1. CountsFresh /\ build = "throughput" /\ ~clear_on
    BY <1>5 DEF SfpInv, Cleared, OtherBuild
  <2>2. cleared' \in BOOLEAN  BY <1>5
  <2> QED  BY <2>1, <2>2, <1>1, <1>5, SfpReads
<1> QED
  BY <1>3, <1>4, <1>5 DEF Sfp!ReadBack, Sfp!Go, Sfp!ghost
\* A step among the MAC's registers leaves what was read of the counters.
LEMMA SfpMac ==
  ASSUME SfpInv, sfp_pc \in Sfp!MacPcs, sfp_pc' \in Sfp!MacPcs \cup {"done"},
         UNCHANGED <<opts, raw, prev, pcs, cleared, build, count, clear_on, since, window, torn>>,
         stat' \in MacStats, untaken' \in SUBSET Sfp!MacRegs, mac' \in Seq(Nat),
         Len(mac') <= 3, idx' \in 1 .. 3, MacFresh'
  PROVE  SfpInv'
<1>1. SfpTypes'  BY DEF SfpInv, SfpTypes
<1>2. Reading'  BY DEF Reading, Sfp!MacPcs
<1>3. CountsFresh' = CountsFresh /\ ReadFresh' = ReadFresh /\ Trusted' = Trusted
  BY DEF CountsFresh, ReadFresh, Trusted, Sfp!Moved
<1>4. Believed'  BY <1>3 DEF SfpInv, Believed, Taken, Sfp!MacPcs
<1>5. Held'  BY DEF SfpInv, Held
<1>6. Cleared'  BY <1>3 DEF SfpInv, Cleared, Sfp!MacPcs
<1>7. OtherBuild'
  <2>1. build = "throughput"  BY DEF SfpInv, OtherBuild, Sfp!MacPcs
  <2> QED  BY <2>1 DEF OtherBuild
<1> QED  BY <1>1, <1>2, <1>4, <1>5, <1>6, <1>7 DEF SfpInv

\* The session connects, and switches PAUSE on.
LEMMA SfpMacBegins == SfpInv /\ (Sfp!MacConnect \/ Sfp!MacPause) => SfpInv'
<1> SUFFICES ASSUME SfpInv, Sfp!MacConnect \/ Sfp!MacPause PROVE SfpInv'  OBVIOUS
<1>1. UNCHANGED <<opts, raw, prev, pcs, cleared, build, count, clear_on, since, window, torn,
                  stat>>
  BY DEF Sfp!MacConnect, Sfp!MacPause, Sfp!MacStep, Sfp!Go, Sfp!ghost
<1>2. /\ sfp_pc \in {"mac_connect", "mac_pause"} /\ sfp_pc' \in {"mac_pause", "mac_clear", "mac_read"}
      /\ sfp_pc' = "mac_read" => ~opts.clear
  BY DEF Sfp!MacConnect, Sfp!MacPause, Sfp!Go
<1>3. mac' = <<>> /\ idx' = 1
  BY DEF Sfp!MacConnect, Sfp!MacPause, SfpInv, MacFresh, Sfp!None
<1>4. /\ mac' \in Seq(Nat) /\ Len(mac') = 0 /\ Len(mac') <= 3 /\ idx' \in 1 .. 3
      /\ idx' = Len(mac') + 1
      /\ \A i \in 1 .. 3 : ~(i <= Len(mac'))
  BY <1>3
<1>5. untaken' \in SUBSET Sfp!MacRegs
  BY DEF Sfp!MacConnect, Sfp!MacPause, SfpInv, SfpTypes
<1>6. \A r \in 1 .. 3 : ~ClearedBefore(r, 1)'
  BY DEF ClearedBefore, Sfp!Group
<1>7. MacFresh'  BY <1>1, <1>2, <1>3, <1>4, <1>6 DEF MacFresh, ClearedBefore
<1>8. stat' \in MacStats  BY <1>1 DEF SfpInv, SfpTypes
<1> QED  BY <1>1, <1>2, <1>4, <1>5, <1>7, <1>8, SfpMac DEF Sfp!MacPcs

\* The registers of a group are cleared together.
LEMMA GroupsAre ==
  ASSUME NEW r \in 1 .. 3, NEW i \in 1 .. 3
  PROVE  /\ Sfp!Group(r) \subseteq 1 .. 3 /\ r \in Sfp!Group(r)
         /\ i \in Sfp!Group(r) => r \in Sfp!Group(i)
BY DEF Sfp!Group

\* A group of registers is cleared, or the write does not take.
LEMMA SfpMacClears == SfpInv /\ Sfp!MacClear => SfpInv'
<1> SUFFICES ASSUME SfpInv, Sfp!MacClear PROVE SfpInv'  OBVIOUS
<1>1. /\ UNCHANGED <<opts, raw, prev, pcs, cleared, build, count, clear_on, since, window,
                     torn, mac>>
      /\ sfp_pc = "mac_clear"
      /\ \/ idx = 3 /\ idx' = 1 /\ sfp_pc' = "mac_read"
         \/ idx # 3 /\ idx' = idx + 1 /\ sfp_pc' = "mac_clear"
  BY DEF Sfp!MacClear, Sfp!MacStep, Sfp!ghost
<1>2. \/ /\ stat' = [r \in Sfp!MacRegs |-> IF r \in Sfp!Group(idx) THEN 0 ELSE stat[r]]
         /\ untaken' = untaken
      \/ stat' = stat /\ untaken' = untaken \cup {idx}
  BY DEF Sfp!MacClear
<1>3. /\ idx \in 1 .. 3 /\ stat \in MacStats /\ since.mac \in MacStats /\ mac = <<>>
      /\ untaken \in SUBSET Sfp!MacRegs
  BY <1>1 DEF SfpInv, SfpTypes, MacFresh
<1>4. stat' \in MacStats /\ untaken' \in SUBSET Sfp!MacRegs
  <2>1. [r \in Sfp!MacRegs |-> IF r \in Sfp!Group(idx) THEN 0 ELSE stat[r]] \in MacStats
    BY <1>3 DEF MacStats
  <2>2. stat' \in MacStats  BY <2>1, <1>2, <1>3
  <2>3. idx \in Sfp!MacRegs  BY <1>3 DEF Sfp!MacRegs
  <2>4. untaken \cup {idx} \in SUBSET Sfp!MacRegs  BY <2>3, <1>3
  <2> QED  BY <2>2, <2>4, <1>2, <1>3
<1>5. \A r \in 1 .. 3 : since.mac[r] \in Nat /\ 0 <= since.mac[r]
  BY <1>3 DEF MacStats, Sfp!MacRegs
<1>6. ASSUME opts.clear, NEW r \in 1 .. 3, NEW g \in Sfp!Group(r), g <= idx, g \notin untaken'
      PROVE  stat'[r] <= since.mac[r]
  <2>1. g \in 1 .. 3 /\ (g = idx => r \in Sfp!Group(idx))  BY <1>3, GroupsAre
  <2>2. g \notin untaken /\ (g = idx => untaken' = untaken)  BY <1>2, <1>6
  <2>3. CASE g # idx
    <3>1. g < idx  BY <2>1, <2>3, <1>3, <1>6
    <3>2. ClearedBefore(r, idx)  BY <3>1, <2>2 DEF ClearedBefore
    <3>3. stat[r] <= since.mac[r]  BY <3>2, <1>1, <1>6 DEF SfpInv, MacFresh
    <3>4. stat'[r] = stat[r] \/ stat'[r] = 0  BY <1>2 DEF Sfp!MacRegs
    <3> QED  BY <3>3, <3>4, <1>5
  <2>4. CASE g = idx
    <3>1. stat'[r] = 0  BY <2>1, <2>4, <1>2, <1>6 DEF Sfp!MacRegs
    <3> QED  BY <3>1, <1>5
  <2> QED  BY <2>3, <2>4
<1>7. /\ idx' \in 1 .. 3
      /\ sfp_pc' = "mac_clear" => \A g \in 1 .. 3 : g < idx' => g <= idx
      /\ sfp_pc' = "mac_read" => \A g \in 1 .. 3 : g <= idx
  BY <1>1, <1>3
<1>8. /\ mac' = <<>> /\ mac' \in Seq(Nat) /\ Len(mac') = 0 /\ Len(mac') <= 3
      /\ \A i \in 1 .. 3 : ~(i <= Len(mac'))
  BY <1>1, <1>3
<1>9. sfp_pc' = "mac_read" => idx' = Len(mac') + 1
  <2>1. 0 + 1 = 1  OBVIOUS
  <2> QED  BY <2>1, <1>1, <1>8
<1>10. ASSUME opts.clear, sfp_pc' = "mac_clear", NEW r \in 1 .. 3, ClearedBefore(r, idx)'
       PROVE  stat'[r] <= since.mac[r]
  <2>1. PICK g \in Sfp!Group(r) : g < idx' /\ g \notin untaken'
    BY <1>10 DEF ClearedBefore
  <2>2. g \in 1 .. 3  BY GroupsAre
  <2>3. g <= idx  BY <2>1, <2>2, <1>7, <1>10
  <2> QED  BY <2>1, <2>3, <1>6, <1>10
<1>11. ASSUME opts.clear, sfp_pc' = "mac_read", NEW r \in 1 .. 3,
              ~(Sfp!Group(r) \subseteq untaken')
       PROVE  stat'[r] <= since.mac[r]
  <2>1. PICK g \in Sfp!Group(r) : g \notin untaken'  BY <1>11
  <2>2. g \in 1 .. 3  BY GroupsAre
  <2>3. g <= idx  BY <2>2, <1>7, <1>11
  <2> QED  BY <2>1, <2>3, <1>6, <1>11
<1>12. MacFresh'
  <2>1. sfp_pc' \in {"mac_clear", "mac_read"}  BY <1>1
  <2>2. opts'.clear = opts.clear /\ since'.mac = since.mac  BY <1>1
  <2> QED  BY <2>1, <2>2, <1>8, <1>9, <1>10, <1>11 DEF MacFresh
<1> QED  BY <1>1, <1>4, <1>7, <1>8, <1>12, SfpMac DEF Sfp!MacPcs

\* A register is read.
LEMMA SfpMacReads == SfpInv /\ Sfp!MacRead => SfpInv'
<1> SUFFICES ASSUME SfpInv, Sfp!MacRead PROVE SfpInv'  OBVIOUS
<1>1. /\ UNCHANGED <<opts, raw, prev, pcs, cleared, build, count, clear_on, since, untaken,
                     window, torn, stat>>
      /\ sfp_pc = "mac_read" /\ mac' = Append(mac, stat[idx])
      /\ \/ idx = 3 /\ idx' = 1 /\ sfp_pc' = "mac_verify"
         \/ idx # 3 /\ idx' = idx + 1 /\ sfp_pc' = "mac_read"
  BY DEF Sfp!MacRead, Sfp!MacStep, Sfp!Go, Sfp!ghost
<1>2. /\ idx \in 1 .. 3 /\ stat \in MacStats /\ since.mac \in MacStats /\ mac \in Seq(Nat)
      /\ idx = Len(mac) + 1 /\ untaken \in SUBSET Sfp!MacRegs
  BY <1>1 DEF SfpInv, SfpTypes, MacFresh
<1>3. PICK k \in 0 .. 2 : k = Len(mac) /\ idx = k + 1
  <2>1. PICK n \in Nat : n = Len(mac)  BY <1>2, LenProperties
  <2>2. n \in 0 .. 2  BY <2>1, <1>2
  <2> QED  BY <2>1, <2>2, <1>2
<1>4. stat[idx] \in Nat  BY <1>2 DEF MacStats, Sfp!MacRegs
<1>5. /\ mac' \in Seq(Nat) /\ Len(mac') = k + 1 /\ mac'[k + 1] = stat[idx]
      /\ \A i \in 1 .. k : mac'[i] = mac[i]
  BY <1>1, <1>2, <1>3, <1>4, AppendOf
<1>6. Len(mac') <= 3 /\ idx' \in 1 .. 3
  <2>1. k <= 2  OBVIOUS
  <2>2. k + 1 <= 3  BY <2>1
  <2> QED  BY <2>2, <1>1, <1>2, <1>5
<1>7. sfp_pc' = "mac_read" => idx' = Len(mac') + 1
  BY <1>1, <1>3, <1>5
<1>8. ASSUME opts.clear, NEW i \in 1 .. 3, i <= Len(mac')
      PROVE  mac'[i] <= since.mac[i] \/ Sfp!Group(i) \subseteq untaken
  <2>1. i = k + 1 \/ i \in 1 .. k  BY <1>3, <1>5, <1>8
  <2>2. CASE i = k + 1
    <3>1. stat[idx] <= since.mac[idx] \/ Sfp!Group(idx) \subseteq untaken
      BY <1>1, <1>2, <1>8 DEF SfpInv, MacFresh
    <3>2. idx = i  BY <2>2, <1>3
    <3> QED  BY <3>1, <3>2, <2>2, <1>5
  <2>3. CASE i \in 1 .. k
    <3>1. i <= Len(mac)  BY <2>3, <1>3
    <3> QED  BY <3>1, <2>3, <1>5, <1>8 DEF SfpInv, MacFresh
  <2> QED  BY <2>1, <2>2, <2>3
<1>9. opts.clear => \A r \in 1 .. 3 : stat[r] <= since.mac[r] \/ Sfp!Group(r) \subseteq untaken
  BY <1>1 DEF SfpInv, MacFresh
<1>10. MacFresh'  BY <1>1, <1>7, <1>8, <1>9 DEF MacFresh
<1>11. stat' \in MacStats /\ untaken' \in SUBSET Sfp!MacRegs  BY <1>1, <1>2
<1> QED  BY <1>1, <1>5, <1>6, <1>10, <1>11, SfpMac DEF Sfp!MacPcs

\* PAUSE_CTRL is what was asked for, or the session starts again.
LEMMA SfpVerifies == SfpInv /\ Sfp!MacVerify => SfpInv'
<1> SUFFICES ASSUME SfpInv, Sfp!MacVerify PROVE SfpInv'  OBVIOUS
<1>1. /\ UNCHANGED <<build, count, clear_on, since, untaken, window, torn, stat>>
      /\ sfp_pc = "mac_verify"
  BY DEF Sfp!MacVerify, Sfp!MacStep, Sfp!ghost
<1>2. CASE Sfp!Retry("mac_connect")  BY <1>1, <1>2, SfpAgain DEF Sfp!MacPcs
<1>3. CASE sfp_pc' = "done" /\ UNCHANGED <<opts, idx, mac, raw, prev, pcs, cleared>>
  <2>1. MacFresh'  BY <1>1, <1>3 DEF SfpInv, MacFresh
  <2>2. /\ stat' \in MacStats /\ mac' \in Seq(Nat) /\ Len(mac') <= 3 /\ idx' \in 1 .. 3
        /\ untaken' \in SUBSET Sfp!MacRegs
    BY <1>1, <1>3 DEF SfpInv, SfpTypes
  <2> QED  BY <2>1, <2>2, <1>1, <1>3, SfpMac DEF Sfp!MacPcs
<1> QED  BY <1>2, <1>3 DEF Sfp!MacVerify, Sfp!Go, Sfp!MacStep

LEMMA SfpRests == SfpInv /\ UNCHANGED Sfp!vars => SfpInv'
<1> SUFFICES ASSUME SfpInv, UNCHANGED Sfp!vars PROVE SfpInv'  OBVIOUS
<1>1. UNCHANGED <<sfp_pc, opts, raw, prev, pcs, cleared, mac, idx, build, count, clear_on,
                  stat, since, untaken, window, torn>>
  BY DEF Sfp!vars, Sfp!tool, Sfp!board, Sfp!ghost
<1>2. CountsFresh' = CountsFresh /\ ReadFresh' = ReadFresh /\ Trusted' = Trusted
  BY <1>1 DEF CountsFresh, ReadFresh, Trusted, Sfp!Moved
<1> QED
  BY <1>1, <1>2 DEF SfpInv, SfpTypes, Reading, Believed, Held, Cleared, OtherBuild, MacFresh,
     ClearedBefore

LEMMA SfpRuns == Spec => Sfp!Spec
<1>1. Init => Sfp!Init
  BY DEF Init
<1>2. [Next]_allVars => [Sfp!Next]_(Sfp!vars)
  BY DEF Next, allVars, RunSfp, RunPause, RunStats, RunLb, RunUart, RunThr, RunReg, sfpVars,
         Sfp!vars, Sfp!tool, Sfp!board, Sfp!ghost
<1> QED  BY <1>1, <1>2, PTL DEF Spec, Sfp!Spec

LEMMA SfpAlways == Spec => []SfpInv
<1>1. SfpInv /\ [Sfp!Next]_(Sfp!vars) => SfpInv'
  <2> SUFFICES ASSUME SfpInv, [Sfp!Next]_(Sfp!vars) PROVE SfpInv'  OBVIOUS
  <2>1. CASE Sfp!Next
    BY <2>1, SfpMains, SfpConnects, SfpCaptures, SfpCompares, SfpFails, SfpChecks, SfpTears,
       SfpEvents, SfpMacEvents, SfpWrites, SfpReadsBack, SfpMacBegins, SfpMacClears,
       SfpMacReads, SfpVerifies DEF Sfp!Next
  <2>2. CASE UNCHANGED Sfp!vars  BY <2>2, SfpRests
  <2> QED  BY <2>1, <2>2
<1> QED  BY <1>1, SfpStarts, SfpRuns, PTL DEF Sfp!Spec

\* What the tool prints was there (sfp_counters.py 91-100), for any width of the counters,
\* any number of events and failed scans and any number of tries: unless a word was captured
\* in the very cycle of an event, each counter, although it is read in two halves while it
\* counts, had the value that is reported, and all of them had theirs at one instant if no
\* low half went round in the two reads.
THEOREM ReadsAreTrusted == Spec => []ReadTrusted
<1>1. SfpInv => ReadTrusted
  BY DEF SfpInv, Believed, Taken, Sfp!MacPcs, Trusted, ReadTrusted, Sfp!ReadTrusted,
     Sfp!Accepted
<1> QED  BY <1>1, SfpAlways, PTL

\* A clear that is reported took place (sfp_counters.py 103-155), for the same constants:
\* the clear bit is low again, every EIO counter printed counts events of this run only (the
\* two halves of a counter as above), and so does every register of the MAC of whose group
\* one write of the last session took - the clears of the MAC are not read back, so a group
\* all of whose writes were answered with good and did not take is excluded; and a board
\* with another build was never written.
THEOREM ClearsAreFresh == Spec => []ClearIsFresh
<1>1. SfpInv => ClearIsFresh
  <2> SUFFICES ASSUME SfpInv PROVE ClearIsFresh  OBVIOUS
  <2>1. ASSUME sfp_pc = "done", opts.clear
        PROVE  /\ ~clear_on
               /\ torn = <<FALSE, FALSE>> =>
                    \A c \in Sfp!Counters : pcs.c[c] <= since.eio[c]
               /\ \A i \in 1 .. Len(mac) :
                    mac[i] <= since.mac[i] \/ Sfp!Group(i) \subseteq untaken
    <3>1. ~clear_on /\ ReadFresh  BY <2>1 DEF SfpInv, Cleared
    <3>2. PICK k \in Nat : k = Len(mac) /\ k <= 3
      BY LenProperties DEF SfpInv, SfpTypes
    <3>3. \A i \in 1 .. k : i \in 1 .. 3 /\ i <= k  BY <3>2
    <3>4. \A i \in 1 .. 3 : i <= Len(mac) =>
            mac[i] <= since.mac[i] \/ Sfp!Group(i) \subseteq untaken
      BY <2>1 DEF SfpInv, MacFresh
    <3> QED  BY <3>1, <3>2, <3>3, <3>4 DEF ReadFresh
  <2>2. build # "throughput" => ~clear_on /\ sfp_pc \notin Sfp!MacPcs \cup {"done"}
    BY DEF SfpInv, OtherBuild, Sfp!MacPcs
  <2> QED  BY <2>1, <2>2 DEF ClearIsFresh, Sfp!ClearIsFresh
<1> QED  BY <1>1, SfpAlways, PTL
-----------------------------------------------------------------------------
(* The PAUSE tests.                                                         *)

PauseRuns == {"honored", "wait_honored", "ignored", "wait_ignored", "xon", "held", "release",
              "wait_xon"}
Legs      == [hold : Nat, write : Nat]

\* What the script, its clock and the MAC hold.
PauseTypes ==
  /\ pause_pc \in {"main", "sweep", "runs", "swept", "done"} \cup PauseRuns
  /\ mac_kind \in Pause!Kinds
  /\ quanta \in Nat /\ pause_todo \in Seq(Legs)
  /\ failed \in BOOLEAN /\ counted \in BOOLEAN /\ void \in BOOLEAN /\ slack \in BOOLEAN
  /\ now \in Nat /\ on1 \in Nat /\ prev0 \in Nat /\ pause_x \in Nat \X Nat
  /\ stall \in [from : Nat, until : Nat, eff : Nat]

\* The tests run with a pause that can be told from none, and with a speed to run at.
PauseSetUp ==
  /\ pause_pc = "main" => failed = FALSE /\ counted = FALSE
  /\ pause_pc \in PauseRuns => pause_todo # <<>> /\ quanta >= 4 * Frame

\* No pause yet.
NoPause == stall = [from |-> 0, until |-> 0, eff |-> 0] /\ longest = 0

\* One pause of q ticks that began no later than Frame after the write, or none.
OnePause(q) == longest = 0 /\ stall.until = stall.from + q /\ stall.from <= now + Frame

\* While the margins hold, one pause goes on from the first frame to what the last ends.
Holding == /\ longest = 0 /\ stall.from <= on1 + Frame
           /\ stall.from <= stall.eff /\ prev0 <= stall.eff /\ stall.until = stall.eff + Full
Resumed == /\ longest = 0 /\ stall.from <= on1 + Frame
           /\ pause_x[1] <= stall.until /\ stall.until <= pause_x[2] + Frame

PauseClock ==
  /\ pause_pc \in {"main", "honored", "ignored", "xon"} => NoPause /\ prev0 = 0
  /\ pause_pc = "xon" => slack = TRUE
  /\ pause_pc = "wait_honored" => IF mac_kind = "deaf" THEN NoPause ELSE OnePause(quanta)
  /\ pause_pc = "wait_ignored" => IF mac_kind = "stubborn" THEN OnePause(quanta) ELSE NoPause
  /\ pause_pc \in {"held", "release"} /\ slack /\ mac_kind # "deaf" => Holding
  /\ pause_pc = "wait_xon" /\ slack /\ mac_kind = "good" => Resumed
  /\ pause_pc = "wait_xon" /\ slack /\ mac_kind = "no_xon" => Holding

\* What was judged already.
Blamed ==
  /\ mac_kind = "deaf" /\ pause_pc \in (PauseRuns \cup {"done"}) \ {"honored", "wait_honored"}
       => failed
  /\ mac_kind = "stubborn" /\ pause_pc \in {"xon", "held", "release", "wait_xon", "done"}
       => failed
  /\ mac_kind = "no_xon" /\ counted => failed
  /\ mac_kind = "good" /\ failed => void \/ pause_pc = "swept"

PauseInv == PauseTypes /\ PauseSetUp /\ PauseClock /\ Blamed
\* The constants.
LEMMA PauseNumbers ==
  /\ Full \in Nat /\ Full >= 8 /\ Frame \in Nat /\ Frame >= 1 /\ Margin \in Nat
  /\ Pause!Refresh \in Nat /\ \A s \in Stalls : s \in Nat
<1>1. Full \div 8 \in Nat  BY PauseAssumption
<1> QED  BY <1>1, PauseAssumption DEF Pause!Refresh

\* The speed under test.
LEMMA LegIs ==
  ASSUME PauseTypes, pause_todo # <<>>
  PROVE  /\ Pause!Write \in Nat
         /\ Tail(pause_todo) \in Seq(Legs)
         /\ Len(pause_todo) # 1 => Tail(pause_todo) # <<>>
<1>1. pause_todo \in Seq(Legs)  BY DEF PauseTypes
<1>2. /\ Head(pause_todo) \in Legs /\ Tail(pause_todo) \in Seq(Legs)
      /\ Len(Tail(pause_todo)) = Len(pause_todo) - 1 /\ Len(pause_todo) \in Nat \ {0}
  BY <1>1, TailOf
<1>3. Head(pause_todo).write \in Nat  BY <1>2 DEF Legs
<1>4. Len(pause_todo) # 1 => Tail(pause_todo) # <<>>
  <2>0. Len(pause_todo) \in Nat  BY <1>2
  <2>1. PICK n \in Nat : n = Len(pause_todo)  BY ONLY <2>0, Zenon
  <2>5. Len(Tail(pause_todo)) \in Nat  BY <1>2, LenProperties
  <2>2. PICK m \in Nat : m = Len(Tail(pause_todo))  BY ONLY <2>5, Zenon
  <2>3. m = n - 1  BY <1>2, <2>1, <2>2
  <2>4. ASSUME n # 1 PROVE Tail(pause_todo) # <<>>
    <3>1. m # 0  BY <2>3, <2>4
    <3> QED  BY <3>1, <2>2, <1>2, EmptySeq
  <2> QED  BY <2>1, <2>4
<1> QED  BY <1>2, <1>3, <1>4 DEF Pause!Write

\* Which of the four MACs pauses after a PAUSE frame.
LEMMA WhoHonors ==
  ASSUME NEW q
  PROVE  /\ mac_kind = "deaf" => ~Pause!Honors(q, TRUE) /\ ~Pause!Honors(q, FALSE)
         /\ mac_kind = "stubborn" => Pause!Honors(q, TRUE) /\ Pause!Honors(q, FALSE)
         /\ mac_kind = "no_xon" => (Pause!Honors(q, TRUE) <=> q # 0) /\ ~Pause!Honors(q, FALSE)
         /\ mac_kind = "good" => Pause!Honors(q, TRUE) /\ ~Pause!Honors(q, FALSE)
BY DEF Pause!Honors

\* When a request takes effect.
LEMMA EffectIs ==
  ASSUME NEW r \in Nat, NEW s \in [from : Nat, until : Nat, eff : Nat],
         NEW e \in Pause!Effects(r, s)
  PROVE  e \in Nat /\ (r <= e /\ e <= r + Frame) /\ s.eff <= e
<1>1. PICK u \in Nat, f \in Nat : u = s.until /\ f = s.eff  OBVIOUS
<1>2. CASE u > r /\ r >= f + Frame
  <2>1. e = r  BY <1>1, <1>2 DEF Pause!Effects
  <2> QED  BY <2>1, <1>1, <1>2, PauseNumbers
<1>3. CASE ~(u > r /\ r >= f + Frame)
  <2>1. e \in {d \in r .. r + Frame : d >= f}  BY <1>1, <1>3 DEF Pause!Effects
  <2>2. e \in r .. r + Frame /\ e >= f  BY <2>1
  <2> QED  BY <2>2, <1>1, PauseNumbers
<1> QED  BY <1>2, <1>3

\* What a PAUSE frame does that the MAC heeds.
LEMMA HeededEdge ==
  ASSUME PauseTypes, NEW q \in Nat, NEW rx_en, NEW t0 \in Nat, NEW t1 \in Nat,
         Pause!SendEdge(q, rx_en, t0, t1), Pause!Honors(q, rx_en)
  PROVE  \E e \in Nat : /\ t0 <= e /\ e <= t1 + Frame /\ stall.eff <= e
                        /\ stall' = Pause!Paused(stall, e, q)
                        /\ longest' = Pause!Larger(longest, Pause!Over(stall, e))
<1>1. PICK r \in t0 .. t1 :
        \E e \in Pause!Effects(r, stall) :
            /\ stall' = Pause!Paused(stall, e, q)
            /\ longest' = Pause!Larger(longest, Pause!Over(stall, e))
  BY DEF Pause!SendEdge
<1>2. PICK e \in Pause!Effects(r, stall) :
            /\ stall' = Pause!Paused(stall, e, q)
            /\ longest' = Pause!Larger(longest, Pause!Over(stall, e))
  BY <1>1
<1>3. r \in Nat /\ t0 <= r /\ r <= t1  BY <1>1
<1>4. stall \in [from : Nat, until : Nat, eff : Nat]  BY DEF PauseTypes
<1>5. e \in Nat /\ (r <= e /\ e <= r + Frame) /\ stall.eff <= e  BY <1>3, <1>4, EffectIs
<1>6. t0 <= e /\ e <= t1 + Frame  BY <1>3, <1>5, PauseNumbers
<1> QED  BY <1>2, <1>5, <1>6

\* What is typed stays typed.
LEMMA EdgeTypes ==
  ASSUME PauseTypes, NEW q \in Nat, NEW rx_en, NEW t0 \in Nat, NEW t1 \in Nat,
         Pause!SendEdge(q, rx_en, t0, t1)
  PROVE  /\ now' = t1 /\ stall' \in [from : Nat, until : Nat, eff : Nat]
         /\ ~Pause!Honors(q, rx_en) => UNCHANGED <<stall, longest>>
<1>1. now' = t1 /\ (~Pause!Honors(q, rx_en) => UNCHANGED <<stall, longest>>)
  BY DEF Pause!SendEdge
<1>2. stall \in [from : Nat, until : Nat, eff : Nat]  BY DEF PauseTypes
<1>3. CASE Pause!Honors(q, rx_en)
  <2>1. PICK e \in Nat : stall' = Pause!Paused(stall, e, q)  BY <1>3, HeededEdge
  <2>2. e + q \in Nat  OBVIOUS
  <2> QED  BY <2>1, <2>2, <1>1, <1>2, <1>3 DEF Pause!Paused
<1> QED  BY <1>1, <1>2, <1>3

\* The first pause.
LEMMA FirstPause ==
  ASSUME PauseTypes, NoPause, NEW q \in Nat, NEW rx_en, NEW t1 \in Nat,
         Pause!SendEdge(q, rx_en, 0, t1), Pause!Honors(q, rx_en)
  PROVE  \E e \in Nat : /\ e <= t1 + Frame /\ longest' = 0
                        /\ stall' = [from |-> e, until |-> e + q, eff |-> e]
<1>1. PICK e \in Nat : /\ e <= t1 + Frame
                       /\ stall' = Pause!Paused(stall, e, q)
                       /\ longest' = Pause!Larger(longest, Pause!Over(stall, e))
  BY HeededEdge
<1>2. stall.from = 0 /\ stall.until = 0 /\ longest = 0  BY DEF NoPause
<1>3. Pause!Over(stall, e) = 0
  <2>1. CASE e <= 0  BY <2>1, <1>2 DEF Pause!Over
  <2>2. CASE ~(e <= 0)  BY <2>2, <1>2 DEF Pause!Over
  <2> QED  BY <2>1, <2>2
<1>4. longest' = 0  BY <1>1, <1>2, <1>3 DEF Pause!Larger
<1>5. stall' = [from |-> e, until |-> e + q, eff |-> e]
  BY <1>1, <1>2 DEF Pause!Paused
<1> QED  BY <1>1, <1>4, <1>5

\* A pause that is replaced before it can run out goes on.
LEMMA PauseGoesOn ==
  ASSUME PauseTypes, Holding, NEW q \in Nat, NEW rx_en, NEW t0 \in Nat, NEW t1 \in Nat,
         Pause!SendEdge(q, rx_en, t0, t1), Pause!Honors(q, rx_en),
         prev0 + Full - (t1 + 2 * Frame) > 0
  PROVE  \E e \in Nat : /\ t0 <= e /\ e <= t1 + Frame /\ stall.from <= e /\ longest' = 0
                        /\ stall' = [from |-> stall.from, until |-> e + q, eff |-> e]
<1>1. PICK e \in Nat : /\ t0 <= e /\ e <= t1 + Frame /\ stall.eff <= e
                       /\ stall' = Pause!Paused(stall, e, q)
                       /\ longest' = Pause!Larger(longest, Pause!Over(stall, e))
  BY HeededEdge
<1>2. PICK f \in Nat, u \in Nat, g \in Nat : f = stall.from /\ u = stall.until /\ g = stall.eff
  BY DEF PauseTypes
<1>3. PICK p \in Nat : p = prev0  BY DEF PauseTypes
<1>4. f <= g /\ p <= g /\ u = g + Full /\ longest = 0  BY <1>2, <1>3 DEF Holding
<1>5. e < u /\ f < u /\ f <= e  BY <1>1, <1>2, <1>3, <1>4, PauseNumbers
<1>6. Pause!Over(stall, e) = 0  BY <1>2, <1>5 DEF Pause!Over
<1>7. longest' = 0  BY <1>1, <1>4, <1>6 DEF Pause!Larger
<1>8. stall' = [stall EXCEPT !.until = e + q, !.eff = e]
  BY <1>1, <1>2, <1>5 DEF Pause!Paused
<1>9. stall' = [from |-> stall.from, until |-> e + q, eff |-> e]
  BY <1>8 DEF PauseTypes
<1> QED  BY <1>1, <1>2, <1>5, <1>7, <1>9
LEMMA PauseStarts == Pause!Init => PauseInv
<1> SUFFICES ASSUME Pause!Init PROVE PauseInv  OBVIOUS
<1>1. PauseTypes
  BY EmptySeq DEF Pause!Init, Pause!NoStall, Pause!Kinds, PauseTypes
<1>2. PauseSetUp /\ PauseClock /\ Blamed
  BY DEF Pause!Init, Pause!NoStall, PauseSetUp, PauseRuns, PauseClock, NoPause, Blamed
<1> QED  BY <1>1, <1>2 DEF PauseInv

\* The options of a run of the tests,
LEMMA PauseMains ==
  ASSUME PauseInv, NEW kind \in Pause!Kinds, NEW q \in Quanta, NEW sp \in Speeds,
         Pause!Main(kind, q, sp)
  PROVE  PauseInv'
<1>1. /\ pause_pc = "main" /\ pause_pc' = "honored"
      /\ mac_kind' = kind /\ quanta' = q /\ pause_todo' = sp
      /\ UNCHANGED <<failed, counted, void, now, on1, prev0, slack, pause_x, stall, longest>>
  BY DEF Pause!Main, Pause!verdict, Pause!timing
<1>2. q \in Nat /\ sp \in Seq(Legs) /\ sp # <<>>
  BY PauseAssumption DEF Legs
<1>3. q >= 4 * Frame
  <2>1. q >= Pause!MIN_QUANTA  BY DEF Pause!Main, Pause!QuantaAccepted
  <2> QED  BY <2>1 DEF Pause!MIN_QUANTA
<1>4. PauseTypes'
  BY <1>1, <1>2 DEF PauseInv, PauseTypes, PauseRuns
<1>5. PauseSetUp'
  BY <1>1, <1>2, <1>3, PauseNumbers DEF PauseSetUp
<1>6. PauseClock'
  BY <1>1 DEF PauseInv, PauseClock, NoPause
<1>7. Blamed'
  BY <1>1 DEF PauseInv, PauseSetUp, Blamed
<1> QED  BY <1>4, <1>5, <1>6, <1>7 DEF PauseInv
\* the tap sweep,
LEMMA PauseSweeps ==
  ASSUME PauseInv,
         \/ Pause!MainSweep \/ Pause!SweepTap \/ Pause!SweepEnds
         \/ Pause!LongestRun \/ Pause!TakeTap
  PROVE  PauseInv'
<1>1. /\ pause_pc \in {"main", "sweep", "runs"} /\ pause_pc' \in {"sweep", "runs", "swept"}
      /\ UNCHANGED <<mac_kind, quanta, pause_todo, counted, void, now, on1, prev0,
                     slack, pause_x, stall, longest>>
  BY DEF Pause!MainSweep, Pause!SweepTap, Pause!SweepEnds, Pause!LongestRun, Pause!TakeTap,
         Pause!options, Pause!verdict, Pause!timing
<1>2. failed' = failed \/ (failed' = TRUE /\ pause_pc' = "swept")
  BY DEF Pause!MainSweep, Pause!SweepTap, Pause!SweepEnds, Pause!LongestRun, Pause!TakeTap,
         Pause!verdict
<1>3. failed' \in BOOLEAN  BY <1>2 DEF PauseInv, PauseTypes
<1>4. /\ mac_kind = "no_xon" /\ counted => failed'
      /\ mac_kind = "good" /\ failed' => void \/ pause_pc' = "swept"
  BY <1>1, <1>2 DEF PauseInv, Blamed
<1>5. PauseTypes' /\ PauseSetUp' /\ PauseClock'
  BY <1>1, <1>3 DEF PauseInv, PauseTypes, PauseSetUp, PauseRuns, PauseClock
<1>6. Blamed'
  BY <1>1, <1>4 DEF PauseRuns, Blamed
<1> QED  BY <1>5, <1>6 DEF PauseInv

\* a pause that is sent and waited for,
LEMMA PauseSends ==
  /\ PauseInv /\ Pause!Sent("honored", "wait_honored", TRUE) => PauseInv'
  /\ PauseInv /\ Pause!Sent("ignored", "wait_ignored", FALSE) => PauseInv'
<1>1. ASSUME PauseInv, NEW c, NEW w, NEW rx_en, Pause!Sent(c, w, rx_en),
             \/ c = "honored" /\ w = "wait_honored" /\ rx_en = TRUE
             \/ c = "ignored" /\ w = "wait_ignored" /\ rx_en = FALSE
      PROVE  PauseInv'
  <2>1. /\ pause_pc = c /\ pause_pc' = w
        /\ UNCHANGED <<mac_kind, quanta, pause_todo, failed, counted, void, on1, prev0,
                       slack, pause_x>>
    BY <1>1 DEF Pause!Sent, Pause!options, Pause!verdict
  <2>2. PauseTypes /\ quanta \in Nat /\ pause_todo # <<>> /\ quanta >= 4 * Frame /\ NoPause
    BY <1>1, <2>1 DEF PauseInv, PauseTypes, PauseSetUp, PauseRuns, PauseClock
  <2>3. PICK d \in 0 .. Pause!Write : Pause!SendEdge(quanta, rx_en, 0, d)
    BY <1>1 DEF Pause!Sent
  <2>4. d \in Nat  BY <2>2, <2>3, LegIs
  <2>5. /\ now' = d /\ stall' \in [from : Nat, until : Nat, eff : Nat]
        /\ ~Pause!Honors(quanta, rx_en) => UNCHANGED <<stall, longest>>
    BY <2>2, <2>3, <2>4, EdgeTypes
  <2>6. Pause!Honors(quanta, rx_en) => OnePause(quanta)'
    <3> SUFFICES ASSUME Pause!Honors(quanta, rx_en) PROVE OnePause(quanta)'  OBVIOUS
    <3>1. PICK e \in Nat : /\ e <= d + Frame /\ longest' = 0
                           /\ stall' = [from |-> e, until |-> e + quanta, eff |-> e]
      BY <2>2, <2>3, <2>4, FirstPause
    <3> QED  BY <3>1, <2>1, <2>5 DEF OnePause
  <2>7. ~Pause!Honors(quanta, rx_en) => NoPause'
    BY <2>2, <2>5 DEF NoPause
  <2>8. quanta # 0  BY <2>2, PauseNumbers
  <2>9. mac_kind \in Pause!Kinds  BY <2>2 DEF PauseTypes
  <2>10. PauseClock'
    <3>1. c = "honored" => (Pause!Honors(quanta, rx_en) <=> mac_kind # "deaf")
      BY <1>1, <2>8, <2>9, WhoHonors DEF Pause!Kinds
    <3>2. c = "ignored" => (Pause!Honors(quanta, rx_en) <=> mac_kind = "stubborn")
      BY <1>1, <2>8, <2>9, WhoHonors DEF Pause!Kinds
    <3> QED  BY <3>1, <3>2, <1>1, <2>1, <2>6, <2>7 DEF PauseClock
  <2>11. PauseTypes'
    BY <1>1, <2>1, <2>2, <2>4, <2>5 DEF PauseTypes, PauseRuns
  <2>12. PauseSetUp' /\ Blamed'
    BY <1>1, <2>1, <2>2 DEF PauseInv, PauseSetUp, PauseRuns, Blamed
  <2> QED  BY <2>10, <2>11, <2>12 DEF PauseInv
<1> QED  BY <1>1
\* max_gap, for a longest pause of p ticks.
LEMMA GapIs ==
  ASSUME NEW t \in Nat, NEW p \in Nat, NEW gap \in Pause!MaxGap(t),
         p = Pause!Larger(longest, Pause!Smaller(stall.until, t) - stall.from)
  PROVE  gap \in Nat /\ p - Frame <= gap /\ gap <= p + Frame
<1>1. gap \in Pause!Larger(p - Frame, 0) .. p + Frame  BY DEF Pause!MaxGap
<1>2. CASE p - Frame > 0
  <2>1. gap \in p - Frame .. p + Frame  BY <1>1, <1>2 DEF Pause!Larger
  <2> QED  BY <2>1, <1>2, PauseNumbers
<1>3. CASE ~(p - Frame > 0)
  <2>1. gap \in 0 .. p + Frame  BY <1>1, <1>3 DEF Pause!Larger
  <2> QED  BY <2>1, <1>3, PauseNumbers
<1> QED  BY <1>2, <1>3, PauseNumbers

\* One pause that ran to its end, or none.
LEMMA GapOfOne ==
  ASSUME PauseTypes, NEW q \in Nat, OnePause(q), NEW t \in Nat, t >= now + q + Frame,
         NEW gap \in Pause!MaxGap(t)
  PROVE  gap \in Nat /\ q - Frame <= gap /\ gap <= q + Frame
<1>1. PICK f \in Nat, u \in Nat, n \in Nat : f = stall.from /\ u = stall.until /\ n = now
  BY DEF PauseTypes
<1>2. u = f + q /\ f <= n + Frame /\ longest = 0  BY <1>1 DEF OnePause
<1>3. u <= t  BY <1>1, <1>2, PauseNumbers
<1>4. Pause!Smaller(stall.until, t) - stall.from = q
  <2>1. Pause!Smaller(u, t) = u  BY <1>3 DEF Pause!Smaller
  <2>2. u - f = q  BY <1>1, <1>2
  <2> QED  BY <2>1, <2>2, <1>1
<1>5. Pause!Larger(0, q) = q
  BY DEF Pause!Larger
<1> QED  BY <1>2, <1>4, <1>5, GapIs

LEMMA GapOfNone ==
  ASSUME PauseTypes, NoPause, NEW t \in Nat, NEW gap \in Pause!MaxGap(t)
  PROVE  gap \in Nat /\ gap <= Frame
<1>1. stall.from = 0 /\ stall.until = 0 /\ longest = 0  BY DEF NoPause
<1>2. Pause!Smaller(0, t) = 0  BY DEF Pause!Smaller
<1>3. Pause!Larger(0, 0) = 0  BY DEF Pause!Larger
<1>4. Pause!Larger(longest, Pause!Smaller(stall.until, t) - stall.from) = 0
  BY <1>1, <1>2, <1>3
<1> QED  BY <1>4, GapIs, PauseNumbers

\* The two checks can tell a pause from none.
LEMMA ChecksTell ==
  ASSUME NEW gap \in Nat, quanta \in Nat, quanta >= 4 * Frame
  PROVE  /\ quanta - Frame <= gap /\ gap <= quanta + Frame =>
              Pause!Ok("honored", gap) /\ ~Pause!Ok("ignored", gap)
         /\ gap <= Frame => ~Pause!Ok("honored", gap) /\ Pause!Ok("ignored", gap)
<1>1. PICK q \in Nat : q = quanta  OBVIOUS
<1>2. gap - q \in Int /\ Pause!Abs(gap - q) = IF gap - q < 0 THEN -(gap - q) ELSE gap - q
  BY DEF Pause!Abs
<1>3. Pause!HonoredOk(gap) <=> Pause!Abs(gap - q) <= 2 * Frame  BY <1>1 DEF Pause!HonoredOk
<1>4. Pause!Ok("honored", gap) <=> Pause!HonoredOk(gap)  BY DEF Pause!Ok
<1>5. Pause!Ok("ignored", gap) <=> gap <= 2 * Frame  BY DEF Pause!Ok, Pause!IgnoredOk
<1>6. ASSUME q - Frame <= gap /\ gap <= q + Frame
      PROVE  Pause!Abs(gap - q) <= 2 * Frame /\ ~(gap <= 2 * Frame)
  BY <1>1, <1>2, <1>6, PauseNumbers
<1>7. ASSUME gap <= Frame
      PROVE  ~(Pause!Abs(gap - q) <= 2 * Frame) /\ gap <= 2 * Frame
  BY <1>1, <1>2, <1>7, PauseNumbers
<1> QED  BY <1>1, <1>3, <1>4, <1>5, <1>6, <1>7

\* Between two tests.
LEMMA ResetIs ==
  ASSUME Pause!Reset
  PROVE  /\ NoPause' /\ prev0' = 0 /\ slack' = TRUE
         /\ now' \in Nat /\ on1' \in Nat /\ prev0' \in Nat /\ slack' \in BOOLEAN
         /\ pause_x' \in Nat \X Nat /\ stall' \in [from : Nat, until : Nat, eff : Nat]
BY DEF Pause!Reset, Pause!NoStall, NoPause

\* and judged.
LEMMA PauseJudges ==
  /\ PauseInv /\ Pause!Judge("wait_honored", "honored", "ignored") => PauseInv'
  /\ PauseInv /\ Pause!Judge("wait_ignored", "ignored", "xon") => PauseInv'
<1>1. ASSUME PauseInv, NEW w, NEW c, NEW n, Pause!Judge(w, c, n),
             \/ w = "wait_honored" /\ c = "honored" /\ n = "ignored"
             \/ w = "wait_ignored" /\ c = "ignored" /\ n = "xon"
      PROVE  PauseInv'
  <2>1. /\ pause_pc = w /\ pause_pc' = n /\ Pause!Reset
        /\ UNCHANGED <<mac_kind, quanta, pause_todo, counted, void>>
    BY <1>1 DEF Pause!Judge, Pause!options
  <2>2. PauseTypes /\ quanta \in Nat /\ pause_todo # <<>> /\ quanta >= 4 * Frame /\ now \in Nat
    BY <1>1, <2>1 DEF PauseInv, PauseTypes, PauseSetUp, PauseRuns
  <2>3. PICK s \in Stalls : \E gap \in Pause!MaxGap(now + quanta + 3 * Frame + s) :
                              failed' = (failed \/ ~Pause!Ok(c, gap))
    BY <1>1 DEF Pause!Judge
  <2>4. PICK t \in Nat : t = now + quanta + 3 * Frame + s /\ t >= now + quanta + Frame
    <3>1. s \in Nat  BY PauseNumbers
    <3> QED  BY <3>1, <2>2, PauseNumbers
  <2>5. PICK gap \in Pause!MaxGap(t) : failed' = (failed \/ ~Pause!Ok(c, gap))
    BY <2>3, <2>4
  <2>6. NoPause => /\ gap \in Nat /\ gap <= Frame
    BY <2>2, <2>4, <2>5, GapOfNone
  <2>7. OnePause(quanta) =>
          gap \in Nat /\ quanta - Frame <= gap /\ gap <= quanta + Frame
    BY <2>2, <2>4, <2>5, GapOfOne
  <2>8. NoPause => ~Pause!Ok("honored", gap) /\ Pause!Ok("ignored", gap)
    BY <2>2, <2>6, ChecksTell
  <2>9. OnePause(quanta) => Pause!Ok("honored", gap) /\ ~Pause!Ok("ignored", gap)
    BY <2>2, <2>7, ChecksTell
  <2>10. c = "honored" => IF mac_kind = "deaf" THEN NoPause ELSE OnePause(quanta)
    BY <1>1, <2>1 DEF PauseInv, PauseClock
  <2>11. c = "ignored" => IF mac_kind = "stubborn" THEN OnePause(quanta) ELSE NoPause
    BY <1>1, <2>1 DEF PauseInv, PauseClock
  <2>12. /\ c = "honored" /\ mac_kind = "deaf" => ~Pause!Ok(c, gap)
         /\ c = "ignored" /\ mac_kind = "stubborn" => ~Pause!Ok(c, gap)
         /\ mac_kind = "good" => Pause!Ok(c, gap)
    BY <1>1, <2>8, <2>9, <2>10, <2>11
  <2>13. failed' \in BOOLEAN /\ (failed => failed') /\ (~Pause!Ok(c, gap) => failed')
         /\ (Pause!Ok(c, gap) => failed' = failed)
    BY <2>2, <2>5 DEF PauseTypes
  <2>14. PauseTypes'
    BY <1>1, <2>1, <2>2, <2>13, ResetIs DEF PauseTypes, PauseRuns
  <2>15. PauseSetUp' /\ PauseClock'
    BY <1>1, <2>1, <2>2, ResetIs DEF PauseSetUp, PauseRuns, PauseClock
  <2>16. Blamed'
    BY <1>1, <2>1, <2>12, <2>13 DEF PauseInv, Blamed, PauseRuns
  <2> QED  BY <2>14, <2>15, <2>16 DEF PauseInv
<1> QED  BY <1>1
\* The long pause: its first frame,
LEMMA XonBegins == PauseInv /\ Pause!XonFirst => PauseInv'
<1> SUFFICES ASSUME PauseInv, Pause!XonFirst PROVE PauseInv'  OBVIOUS
<1>1. /\ pause_pc = "xon" /\ pause_pc' = "held" /\ prev0' = 0
      /\ UNCHANGED <<mac_kind, quanta, pause_todo, failed, counted, void, slack, pause_x>>
  BY DEF Pause!XonFirst, Pause!options, Pause!verdict
<1>2. PauseTypes /\ pause_todo # <<>> /\ NoPause
  BY <1>1 DEF PauseInv, PauseSetUp, PauseRuns, PauseClock
<1>3. PICK d \in 0 .. Pause!Write : Pause!SendEdge(Full, TRUE, 0, d) /\ on1' = d
  BY DEF Pause!XonFirst
<1>4. d \in Nat  BY <1>2, <1>3, LegIs
<1>5. now' = d /\ stall' \in [from : Nat, until : Nat, eff : Nat]
  BY <1>2, <1>3, <1>4, EdgeTypes, PauseNumbers
<1>6. mac_kind # "deaf" => Holding'
  <2> SUFFICES ASSUME mac_kind # "deaf" PROVE Holding'  OBVIOUS
  <2>1. Pause!Honors(Full, TRUE)
    <3>1. Full # 0  BY PauseNumbers
    <3>2. mac_kind \in Pause!Kinds  BY <1>2 DEF PauseTypes
    <3> QED  BY <3>1, <3>2, WhoHonors DEF Pause!Kinds
  <2>2. PICK e \in Nat : /\ e <= d + Frame /\ longest' = 0
                         /\ stall' = [from |-> e, until |-> e + Full, eff |-> e]
    BY <1>2, <1>3, <1>4, <2>1, FirstPause, PauseNumbers
  <2> QED  BY <2>2, <1>1, <1>3, PauseNumbers DEF Holding
<1>7. PauseTypes'
  BY <1>1, <1>2, <1>3, <1>4, <1>5 DEF PauseTypes, PauseRuns
<1>8. PauseSetUp' /\ PauseClock'
  BY <1>1, <1>6 DEF PauseInv, PauseSetUp, PauseRuns, PauseClock
<1>9. Blamed'  BY <1>1 DEF PauseInv, Blamed, PauseRuns
<1> QED  BY <1>7, <1>8, <1>9 DEF PauseInv

\* the frames that refresh it,
LEMMA Refreshed ==
  ASSUME PauseInv, pause_pc = "held", NEW t0 \in Nat, NEW t1 \in Nat, t0 <= t1,
         Pause!SendEdge(Full, TRUE, t0, t1), prev0' = t0, slack' = Pause!Margins(t1),
         UNCHANGED <<mac_kind, quanta, pause_todo, failed, counted, void, on1, pause_x>>,
         pause_pc' \in {"held", "release"}
  PROVE  PauseInv'
<1>1. PauseTypes  BY DEF PauseInv
<1>2. now' = t1 /\ stall' \in [from : Nat, until : Nat, eff : Nat]
  BY <1>1, EdgeTypes, PauseNumbers
<1>3. slack' \in BOOLEAN /\ (slack' => slack /\ prev0 + Full - (t1 + 2 * Frame) > 0)
  BY <1>1 DEF PauseTypes, Pause!Margins
<1>4. slack' /\ mac_kind # "deaf" => Holding'
  <2> SUFFICES ASSUME slack', mac_kind # "deaf" PROVE Holding'  OBVIOUS
  <2>1. Holding  BY <1>3 DEF PauseInv, PauseClock
  <2>2. Pause!Honors(Full, TRUE)
    <3>1. Full # 0  BY PauseNumbers
    <3>2. mac_kind \in Pause!Kinds  BY <1>1 DEF PauseTypes
    <3> QED  BY <3>1, <3>2, WhoHonors DEF Pause!Kinds
  <2>3. PICK e \in Nat : /\ t0 <= e /\ e <= t1 + Frame /\ stall.from <= e /\ longest' = 0
                         /\ stall' = [from |-> stall.from, until |-> e + Full, eff |-> e]
    BY <1>1, <1>3, <2>1, <2>2, PauseGoesOn, PauseNumbers
  <2>4. stall'.from = stall.from /\ stall'.until = e + Full /\ stall'.eff = e  BY <2>3
  <2> QED  BY <2>1, <2>3, <2>4 DEF Holding
<1>5. PauseTypes'
  BY <1>1, <1>2, <1>3 DEF PauseTypes, PauseRuns
<1>6. PauseSetUp' /\ PauseClock'
  BY <1>4 DEF PauseInv, PauseSetUp, PauseRuns, PauseClock
<1>7. Blamed'  BY DEF PauseInv, Blamed, PauseRuns
<1> QED  BY <1>5, <1>6, <1>7 DEF PauseInv

\* The times of a step of the long pause.
LEMMA XonTimes ==
  ASSUME PauseInv, pause_pc \in PauseRuns,
         NEW w \in 0 .. Pause!Write, NEW s \in Stalls, NEW d \in 0 .. Pause!Write
  PROVE  /\ now + w + s \in Nat /\ now + w + s + d \in Nat
         /\ now + w + s <= now + w + s + d
         /\ Pause!Larger(now + w, prev0 + Pause!Refresh) + s \in Nat
         /\ Pause!Larger(now + w, prev0 + Pause!Refresh) + s + d \in Nat
         /\ Pause!Larger(now + w, prev0 + Pause!Refresh) + s
              <= Pause!Larger(now + w, prev0 + Pause!Refresh) + s + d
<1>1. PauseTypes /\ pause_todo # <<>>  BY DEF PauseInv, PauseSetUp
<1>2. Pause!Write \in Nat  BY <1>1, LegIs
<1>3. w \in Nat /\ d \in Nat /\ s \in Nat  BY <1>2, PauseNumbers
<1>4. now \in Nat /\ prev0 \in Nat  BY <1>1 DEF PauseTypes
<1>5. PICK a \in Nat, b \in Nat : a = now + w /\ b = prev0 + Pause!Refresh
  BY <1>3, <1>4, PauseNumbers
<1>6. PICK m \in Nat : m = Pause!Larger(a, b)
  BY DEF Pause!Larger
<1> QED  BY <1>3, <1>4, <1>5, <1>6

LEMMA XonRefreshes == PauseInv /\ (Pause!XonRefresh \/ Pause!XonLast) => PauseInv'
<1> SUFFICES ASSUME PauseInv, Pause!XonRefresh \/ Pause!XonLast PROVE PauseInv'  OBVIOUS
<1>1. /\ pause_pc = "held" /\ pause_pc' \in {"held", "release"}
      /\ UNCHANGED <<mac_kind, quanta, pause_todo, failed, counted, void, on1, pause_x>>
  BY DEF Pause!XonRefresh, Pause!XonLast, Pause!options, Pause!verdict
<1>2. pause_pc \in PauseRuns  BY <1>1 DEF PauseRuns
<1>3. \E t0 \in Nat, t1 \in Nat : /\ t0 <= t1 /\ Pause!SendEdge(Full, TRUE, t0, t1)
                                  /\ prev0' = t0 /\ slack' = Pause!Margins(t1)
  <2>1. CASE Pause!XonRefresh
    <3>1. PICK w \in 0 .. Pause!Write, s \in Stalls, d \in 0 .. Pause!Write :
            LET t0 == Pause!Larger(now + w, prev0 + Pause!Refresh) + s
            IN /\ Pause!SendEdge(Full, TRUE, t0, t0 + d) /\ prev0' = t0
               /\ slack' = Pause!Margins(t0 + d)
      BY <2>1 DEF Pause!XonRefresh
    <3> QED  BY <3>1, <1>2, XonTimes
  <2>2. CASE Pause!XonLast
    <3>1. PICK w \in 0 .. Pause!Write, s \in Stalls, d \in 0 .. Pause!Write :
            LET t0 == now + w + s
            IN /\ Pause!SendEdge(Full, TRUE, t0, t0 + d) /\ prev0' = t0
               /\ slack' = Pause!Margins(t0 + d)
      BY <2>2 DEF Pause!XonLast
    <3> QED  BY <3>1, <1>2, XonTimes
  <2> QED  BY <2>1, <2>2
<1> QED  BY <1>1, <1>3, Refreshed

\* and the frame that ends it.
LEMMA XonEnds == PauseInv /\ Pause!XonZero => PauseInv'
<1> SUFFICES ASSUME PauseInv, Pause!XonZero PROVE PauseInv'  OBVIOUS
<1>1. /\ pause_pc = "release" /\ pause_pc' = "wait_xon"
      /\ UNCHANGED <<mac_kind, quanta, pause_todo, failed, counted, void, on1, prev0>>
  BY DEF Pause!XonZero, Pause!options, Pause!verdict
<1>2. pause_pc \in PauseRuns /\ PauseTypes  BY <1>1 DEF PauseRuns, PauseInv
<1>3. PICK t0 \in Nat, t1 \in Nat :
        /\ t0 <= t1 /\ Pause!SendEdge(0, TRUE, t0, t1)
        /\ pause_x' = <<t0, t1>> /\ slack' = Pause!Margins(t1)
  <2>1. PICK w \in 0 .. Pause!Write, s \in Stalls, d \in 0 .. Pause!Write :
          LET t0 == now + w + s
          IN /\ Pause!SendEdge(0, TRUE, t0, t0 + d) /\ pause_x' = <<t0, t0 + d>>
             /\ slack' = Pause!Margins(t0 + d)
    BY DEF Pause!XonZero
  <2> QED  BY <2>1, <1>2, XonTimes
<1>4. /\ now' = t1 /\ stall' \in [from : Nat, until : Nat, eff : Nat]
      /\ ~Pause!Honors(0, TRUE) => UNCHANGED <<stall, longest>>
  BY <1>2, <1>3, EdgeTypes
<1>5. slack' \in BOOLEAN /\ (slack' => slack /\ prev0 + Full - (t1 + 2 * Frame) > 0)
  BY <1>2, <1>3 DEF PauseTypes, Pause!Margins
<1>6. slack' /\ mac_kind # "deaf" => Holding
  BY <1>1, <1>5 DEF PauseInv, PauseClock
<1>7. slack' /\ mac_kind = "no_xon" => Holding'
  BY <1>1, <1>4, <1>6, WhoHonors DEF Holding
<1>8. slack' /\ mac_kind = "good" => Resumed'
  <2> SUFFICES ASSUME slack', mac_kind = "good" PROVE Resumed'  OBVIOUS
  <2>1. PICK e \in Nat : /\ t0 <= e /\ e <= t1 + Frame /\ longest' = 0
                         /\ stall' = [from |-> stall.from, until |-> e + 0, eff |-> e]
    BY <1>2, <1>3, <1>5, <1>6, PauseGoesOn, WhoHonors
  <2>2. stall'.from = stall.from /\ stall'.until = e  BY <2>1
  <2>3. pause_x'[1] = t0 /\ pause_x'[2] = t1  BY <1>3
  <2>4. stall.from <= on1 + Frame  BY <1>6 DEF Holding
  <2> QED  BY <2>1, <2>2, <2>3, <2>4, <1>1 DEF Resumed
<1>9. PauseTypes'
  BY <1>1, <1>2, <1>3, <1>4, <1>5 DEF PauseTypes, PauseRuns
<1>10. PauseSetUp' /\ PauseClock'
  BY <1>1, <1>7, <1>8 DEF PauseInv, PauseSetUp, PauseRuns, PauseClock
<1>11. Blamed'  BY <1>1 DEF PauseInv, Blamed, PauseRuns
<1> QED  BY <1>9, <1>10, <1>11 DEF PauseInv
\* An attempt that says nothing is made again.
LEMMA XonAgain == PauseInv /\ Pause!XonVoid => PauseInv'
<1> SUFFICES ASSUME PauseInv, Pause!XonVoid PROVE PauseInv'  OBVIOUS
<1>1. /\ pause_pc = "wait_xon" /\ pause_pc' = "xon" /\ Pause!Reset
      /\ UNCHANGED <<mac_kind, quanta, pause_todo, failed, counted, void>>
  BY DEF Pause!XonVoid, Pause!options, Pause!verdict
<1>2. PauseTypes'
  BY <1>1, ResetIs DEF PauseInv, PauseTypes, PauseRuns
<1>3. PauseSetUp' /\ PauseClock'
  BY <1>1, ResetIs DEF PauseInv, PauseSetUp, PauseRuns, PauseClock
<1>4. Blamed'  BY <1>1 DEF PauseInv, Blamed, PauseRuns
<1> QED  BY <1>2, <1>3, <1>4 DEF PauseInv

\* The traffic stops when every pause is over.
LEMMA StopIs ==
  ASSUME PauseTypes
  PROVE  /\ Pause!StopTime \in Nat /\ prev0 + Full <= Pause!StopTime
         /\ pause_x[2] + Frame <= Pause!StopTime
<1>1. PICK a \in Nat, b \in Nat : a = prev0 + Full /\ b = pause_x[2]
  <2>1. prev0 + Full \in Nat  BY PauseNumbers DEF PauseTypes
  <2>2. pause_x[2] \in Nat  BY DEF PauseTypes
  <2> QED  BY <2>1, <2>2
<1>2. PICK m \in Nat : m = Pause!Larger(a, b) /\ a <= m /\ b <= m
  BY DEF Pause!Larger
<1>3. Pause!StopTime = m + 3 * Frame  BY <1>1, <1>2 DEF Pause!StopTime
<1> QED  BY <1>1, <1>2, <1>3, PauseNumbers

\* Where the margins held, a MAC that resumed at the Q = 0 frame shows it,
LEMMA GapOfGood ==
  ASSUME PauseTypes, Resumed, NEW gap \in Pause!MaxGap(Pause!StopTime)
  PROVE  Pause!lo <= gap /\ gap <= Pause!hi
<1>1. PICK f \in Nat, u \in Nat, n \in Nat, x1 \in Nat, x2 \in Nat :
        f = stall.from /\ u = stall.until /\ n = on1 /\ x1 = pause_x[1] /\ x2 = pause_x[2]
  BY DEF PauseTypes
<1>2. longest = 0 /\ f <= n + Frame /\ x1 <= u /\ u <= x2 + Frame  BY <1>1 DEF Resumed
<1>3. PICK t \in Nat : t = Pause!StopTime /\ u <= t  BY <1>1, <1>2, StopIs, PauseNumbers
<1>4. Pause!Smaller(u, t) = u  BY <1>3 DEF Pause!Smaller
<1>5. PICK p \in Nat : p = Pause!Larger(0, u - f) /\ u - f <= p /\ p <= u
  BY DEF Pause!Larger
<1>6. gap \in Nat /\ p - Frame <= gap /\ gap <= p + Frame
  <2>1. p = Pause!Larger(longest, Pause!Smaller(stall.until, t) - stall.from)
    BY <1>1, <1>2, <1>4, <1>5
  <2> QED  BY <2>1, <1>3, GapIs
<1>7. Pause!lo = x1 - n - 2 * Frame /\ Pause!hi = x2 + 2 * Frame + Margin
  BY <1>1 DEF Pause!lo, Pause!hi
<1> QED  BY <1>2, <1>5, <1>6, <1>7, PauseNumbers

\* and one that ignored it shows the end of the last long pause.
LEMMA GapOfLast ==
  ASSUME PauseTypes, Holding, NEW gap \in Pause!MaxGap(Pause!StopTime)
  PROVE  gap \in Nat /\ Pause!ignored <= gap
<1>1. PICK f \in Nat, u \in Nat, g \in Nat, n \in Nat, l \in Nat :
        f = stall.from /\ u = stall.until /\ g = stall.eff /\ n = on1 /\ l = prev0
  BY DEF PauseTypes
<1>2. longest = 0 /\ f <= n + Frame /\ f <= g /\ l <= g /\ u = g + Full  BY <1>1 DEF Holding
<1>3. PICK t \in Nat : t = Pause!StopTime /\ l + Full <= t  BY <1>1, StopIs
<1>4. PICK m \in Nat : m = Pause!Smaller(u, t) /\ l + Full <= m
  BY <1>2, <1>3, PauseNumbers DEF Pause!Smaller
<1>5. PICK p \in Nat : p = Pause!Larger(0, m - f) /\ m - f <= p
  BY DEF Pause!Larger
<1>6. gap \in Nat /\ p - Frame <= gap
  <2>1. p = Pause!Larger(longest, Pause!Smaller(stall.until, t) - stall.from)
    BY <1>1, <1>2, <1>4, <1>5
  <2> QED  BY <2>1, <1>3, GapIs
<1>7. Pause!ignored = l + Full - n - 2 * Frame  BY <1>1 DEF Pause!ignored
<1> QED  BY <1>2, <1>4, <1>5, <1>6, <1>7, PauseNumbers

\* The verdict of the long pause.
LEMMA XonJudged ==
  ASSUME PauseInv, Pause!XonJudge
  PROVE  /\ failed' \in BOOLEAN /\ (failed => failed')
         /\ mac_kind = "good" /\ failed' => void'
         /\ mac_kind = "no_xon" /\ counted' => failed'
<1>1. /\ pause_pc = "wait_xon" /\ counted' = (counted \/ Pause!Tells)
      /\ PauseTypes
  BY DEF Pause!XonJudge, PauseInv
<1>2. PICK gap \in Pause!MaxGap(Pause!StopTime) :
        failed' = \/ failed \/ ~Pause!Valid
                  \/ ~(Pause!Valid /\ gap >= Pause!lo) \/ gap > Pause!hi
                  \/ Pause!Tells /\ ~(Pause!Valid /\ Pause!lo <= gap /\ gap <= Pause!hi)
  BY DEF Pause!XonJudge
<1>3. failed' \in BOOLEAN /\ (failed => failed')
  BY <1>1, <1>2 DEF PauseTypes
<1>4. mac_kind = "good" /\ failed' => void'
  <2> SUFFICES ASSUME mac_kind = "good", failed' PROVE void'  OBVIOUS
  <2>1. void => void'  BY <1>1 DEF Pause!XonJudge, PauseTypes
  <2>2. failed => void  BY <1>1 DEF PauseInv, Blamed
  <2>3. CASE slack
    <3>1. Resumed  BY <2>3, <1>1 DEF PauseInv, PauseClock
    <3>2. Pause!lo <= gap /\ gap <= Pause!hi  BY <3>1, <1>1, GapOfGood
    <3>3. gap \in Int /\ Pause!lo \in Int /\ Pause!hi \in Int
      <4>1. on1 \in Nat /\ pause_x[1] \in Nat /\ pause_x[2] \in Nat  BY <1>1 DEF PauseTypes
      <4>2. Pause!lo \in Int /\ Pause!hi \in Int
        BY <4>1, PauseNumbers DEF Pause!lo, Pause!hi
      <4>3. gap \in Int  BY DEF Pause!MaxGap, Pause!Larger, Pause!Smaller
      <4> QED  BY <4>2, <4>3
    <3>4. gap >= Pause!lo /\ ~(gap > Pause!hi)  BY <3>2, <3>3
    <3> QED  BY <3>2, <3>4, <2>1, <2>2, <2>3, <1>2 DEF Pause!Valid
  <2>4. CASE ~slack
    BY <2>4 DEF Pause!XonJudge, Pause!Valid
  <2> QED  BY <2>3, <2>4
<1>5. mac_kind = "no_xon" /\ counted' => failed'
  <2> SUFFICES ASSUME mac_kind = "no_xon", counted' PROVE failed'  OBVIOUS
  <2>1. CASE counted  BY <2>1, <1>3 DEF PauseInv, Blamed
  <2>2. CASE ~slack  BY <2>2, <1>2 DEF Pause!Valid
  <2>3. CASE ~counted /\ slack
    <3>1. Holding /\ Pause!Tells  BY <2>3, <1>1 DEF PauseInv, PauseClock
    <3>2. gap \in Nat /\ Pause!ignored <= gap  BY <3>1, <1>1, GapOfLast
    <3>3. Pause!ignored > Pause!hi  BY <3>1 DEF Pause!Tells
    <3>4. Pause!ignored \in Int /\ Pause!hi \in Int
      <4>1. on1 \in Nat /\ prev0 \in Nat /\ pause_x[2] \in Nat  BY <1>1 DEF PauseTypes
      <4> QED  BY <4>1, PauseNumbers DEF Pause!ignored, Pause!hi
    <3>5. gap > Pause!hi  BY <3>2, <3>3, <3>4
    <3> QED  BY <3>5, <1>2
  <2> QED  BY <2>1, <2>2, <2>3 DEF PauseTypes
<1> QED  BY <1>3, <1>4, <1>5

LEMMA XonJudges == PauseInv /\ Pause!XonJudge => PauseInv'
<1> SUFFICES ASSUME PauseInv, Pause!XonJudge PROVE PauseInv'  OBVIOUS
<1>1. /\ pause_pc = "wait_xon" /\ Pause!Reset /\ pause_todo' = Tail(pause_todo)
      /\ pause_pc' = IF Len(pause_todo) = 1 THEN "done" ELSE "honored"
      /\ UNCHANGED <<mac_kind, quanta>>
  BY DEF Pause!XonJudge
<1>2. PauseTypes /\ pause_todo # <<>>  BY <1>1 DEF PauseInv, PauseSetUp, PauseRuns
<1>3. counted' \in BOOLEAN /\ void' \in BOOLEAN
  BY <1>2 DEF Pause!XonJudge, PauseTypes
<1>4. PauseTypes'
  BY <1>1, <1>2, <1>3, LegIs, XonJudged, ResetIs DEF PauseTypes, PauseRuns
<1>5. PauseSetUp' /\ PauseClock'
  BY <1>1, <1>2, LegIs, ResetIs DEF PauseInv, PauseSetUp, PauseRuns, PauseClock
<1>6. Blamed'
  BY <1>1, XonJudged DEF PauseInv, Blamed, PauseRuns
<1> QED  BY <1>4, <1>5, <1>6 DEF PauseInv

LEMMA PauseRests == PauseInv /\ UNCHANGED Pause!vars => PauseInv'
<1> SUFFICES ASSUME PauseInv, UNCHANGED Pause!vars PROVE PauseInv'  OBVIOUS
<1>1. UNCHANGED <<pause_pc, mac_kind, quanta, pause_todo, failed, counted, void, now, on1,
                  prev0, slack, pause_x, stall, longest>>
  BY DEF Pause!vars, Pause!options, Pause!verdict, Pause!timing
<1> QED
  BY <1>1 DEF PauseInv, PauseTypes, PauseSetUp, PauseClock, NoPause, OnePause, Holding,
              Resumed, Blamed

LEMMA PauseSteps == PauseInv /\ [Pause!Next]_(Pause!vars) => PauseInv'
<1> SUFFICES ASSUME PauseInv, [Pause!Next]_(Pause!vars) PROVE PauseInv'  OBVIOUS
<1>1. CASE Pause!Next
  BY <1>1, PauseMains, PauseSweeps, PauseSends, PauseJudges, XonBegins,
     XonRefreshes, XonEnds, XonAgain, XonJudges DEF Pause!Next
<1>2. CASE UNCHANGED Pause!vars  BY <1>2, PauseRests
<1> QED  BY <1>1, <1>2

LEMMA PauseTestsRun == Spec => Pause!Spec
<1>1. Init => Pause!Init
  BY DEF Init
<1>2. [Next]_allVars => [Pause!Next]_(Pause!vars)
  BY DEF Next, allVars, RunSfp, RunPause, RunStats, RunLb, RunUart, RunThr, RunReg, pauseVars,
         Pause!vars, Pause!options, Pause!search, Pause!verdict, Pause!timing
<1> QED  BY <1>1, <1>2, PTL DEF Spec, Pause!Spec

\* The PAUSE tests blame the MAC and only the MAC (rgmii_lb_selftest.py 239-329), for every
\* length of the pauses and of a frame, any speeds and number of attempts, and however long
\* the writes and the sleeps of the host take.
THEOREM VerdictIsTheMacs == Spec => []PauseVerdict
<1>1. PauseInv => PauseVerdict
  <2> SUFFICES ASSUME PauseInv PROVE PauseVerdict  OBVIOUS
  <2>1. ASSUME pause_pc = "done", ~failed
        PROVE  mac_kind \notin {"deaf", "stubborn"} /\ (counted => mac_kind = "good")
    BY <2>1 DEF PauseInv, PauseTypes, Blamed, Pause!Kinds
  <2>2. mac_kind = "good" /\ pause_pc # "swept" /\ failed => void
    BY DEF PauseInv, Blamed
  <2> QED  BY <2>1, <2>2 DEF PauseVerdict, Pause!PauseVerdict
<1> QED  BY <1>1, PauseStarts, PauseSteps, PauseTestsRun, PTL DEF Pause!Spec
-----------------------------------------------------------------------------
(* The tap sweep.                                                           *)

\* The first k taps that passed.
SeenTaps(k) == {passing[i] : i \in 1 .. k}

\* A run is the n taps from a on.
IsRun(run, a, n) ==
  /\ run \in Seq(Int) /\ Len(run) = n
  /\ \A i \in 1 .. n : run[i] = a + i - 1

\* The run that ends at the last tap of S and cannot begin earlier,
CurIs(S) == \E a, n \in Nat : /\ n >= 1 /\ IsRun(cur, a, n) /\ a .. a + n - 1 \subseteq S
                              /\ \A t \in S : t <= a + n - 1
                              /\ a - 1 \notin S

\* and one that no eye in S is longer than.
BestIs(S) == \E a, n \in Nat : /\ n >= 1 /\ IsRun(best, a, n) /\ a .. a + n - 1 \subseteq S
                               /\ \A c, d \in S : c <= d /\ c .. d \subseteq S => d - c + 1 <= n

\* What longest_run knows after the taps in S.
Tracked(S) == IF S = {} THEN cur = <<>> /\ best = <<>> ELSE CurIs(S) /\ BestIs(S)

SweepInv ==
  /\ passing \in Seq(Nat) /\ step \in Nat
  /\ \A i, j \in 1 .. Len(passing) : i < j => passing[i] < passing[j]
  /\ pause_pc \in {"main", "sweep"} => /\ cur = <<>> /\ best = <<>> /\ tap = -1
                                       /\ \A i \in 1 .. Len(passing) : passing[i] < step
  /\ pause_pc = "runs" => /\ step \in 1 .. Len(passing) + 1 /\ tap = -1
                          /\ Tracked(SeenTaps(step - 1))
  /\ TapIsCentred

\* What a tap more makes of a run.
LEMMA RunOnIs ==
  ASSUME NEW run, NEW a \in Nat, NEW n \in Nat, NEW t \in Nat
  PROVE  /\ run = <<>> => IsRun(Pause!RunOn(run, t), t, 1)
         /\ IsRun(run, a, n) /\ n >= 1 /\ t = a + n => IsRun(Pause!RunOn(run, t), a, n + 1)
         /\ IsRun(run, a, n) /\ n >= 1 /\ t # a + n => IsRun(Pause!RunOn(run, t), t, 1)
<1>1. IsRun(<<t>>, t, 1)
  <2>1. <<t>> \in Seq(Int) /\ Len(<<t>>) = 1 /\ <<t>>[1] = t  OBVIOUS
  <2>2. \A i \in 1 .. 1 : i = 1 /\ t + i - 1 = t  OBVIOUS
  <2> QED  BY <2>1, <2>2 DEF IsRun
<1>2. run = <<>> => Pause!RunOn(run, t) = <<t>>  BY DEF Pause!RunOn
<1>3. ASSUME IsRun(run, a, n), n >= 1
      PROVE  Pause!RunOn(run, t) = IF t = a + n THEN Append(run, t) ELSE <<t>>
  <2>1. run[n] = a + n - 1 /\ Len(run) = n /\ run # <<>>  BY <1>3 DEF IsRun
  <2>2. a + n - 1 + 1 = a + n  OBVIOUS
  <2> QED  BY <2>1, <2>2 DEF Pause!RunOn
<1>4. ASSUME IsRun(run, a, n), n >= 1, t = a + n PROVE IsRun(Append(run, t), a, n + 1)
  <2>1. run \in Seq(Int) /\ Len(run) = n /\ t \in Int  BY <1>4 DEF IsRun
  <2>2. /\ Append(run, t) \in Seq(Int) /\ Len(Append(run, t)) = n + 1
        /\ \A i \in 1 .. n : Append(run, t)[i] = run[i]
        /\ Append(run, t)[n + 1] = t
    BY <2>1, AppendProperties
  <2>3. \A i \in 1 .. n + 1 : Append(run, t)[i] = a + i - 1
    <3> TAKE i \in 1 .. n + 1
    <3>1. CASE i \in 1 .. n  BY <3>1, <2>2, <1>4 DEF IsRun
    <3>2. CASE i = n + 1
      <4>1. a + (n + 1) - 1 = t  BY <1>4
      <4> QED  BY <4>1, <3>2, <2>2
    <3>3. i \in 1 .. n \/ i = n + 1  OBVIOUS
    <3> QED  BY <3>1, <3>2, <3>3
  <2> QED  BY <2>2, <2>3 DEF IsRun
<1> QED  BY <1>1, <1>2, <1>3, <1>4

\* A tap above all that were looked at before.
LEMMA OneTapMore ==
  ASSUME NEW S \in SUBSET Nat, Tracked(S), NEW t \in Nat, \A u \in S : u < t,
         cur' = Pause!RunOn(cur, t),
         best' = IF Len(cur') > Len(best) THEN cur' ELSE best
  PROVE  Tracked(S \cup {t})'
<1> DEFINE T == S \cup {t}
<1>0. T # {} /\ T \subseteq Nat /\ t \in T /\ \A u \in T : u <= t  OBVIOUS
<1>1. CASE S = {}
  <2>1. cur = <<>> /\ best = <<>>  BY <1>1 DEF Tracked
  <2>2. IsRun(cur', t, 1)  BY <2>1, RunOnIs
  <2>3. Len(cur') = 1 /\ Len(best) = 0  BY <2>1, <2>2 DEF IsRun
  <2>4. best' = cur'  BY <2>3
  <2>5. T = {t} /\ t .. t + 1 - 1 = {t} /\ t - 1 \notin T  BY <1>1
  <2>6. CurIs(T)'  BY <2>2, <2>5 DEF CurIs
  <2>7. \A c, d \in T : c <= d /\ c .. d \subseteq T => d - c + 1 <= 1  BY <2>5
  <2>8. BestIs(T)'  BY <2>2, <2>4, <2>5, <2>7 DEF BestIs
  <2> QED  BY <1>0, <2>6, <2>8 DEF Tracked
<1>2. CASE S # {}
  <2>1. PICK a \in Nat, n \in Nat : /\ n >= 1 /\ IsRun(cur, a, n) /\ a .. a + n - 1 \subseteq S
                                    /\ \A u \in S : u <= a + n - 1
                                    /\ a - 1 \notin S
    BY <1>2 DEF Tracked, CurIs
  <2>2. PICK b \in Nat, w \in Nat :
               /\ w >= 1 /\ IsRun(best, b, w) /\ b .. b + w - 1 \subseteq S
               /\ \A c, d \in S : c <= d /\ c .. d \subseteq S => d - c + 1 <= w
    BY <1>2 DEF Tracked, BestIs
  <2>3. a + n - 1 \in S /\ a + n - 1 < t
    <3>1. a + n - 1 \in a .. a + n - 1  BY <2>1
    <3> QED  BY <3>1, <2>1
  <2>4. \A c, d \in T : c <= d /\ c .. d \subseteq T /\ d # t => d - c + 1 <= w
    <3> SUFFICES ASSUME NEW c \in T, NEW d \in T, c <= d, c .. d \subseteq T, d # t
                 PROVE  d - c + 1 <= w  OBVIOUS
    <3>1. d \in S /\ d < t /\ c \in Nat /\ d \in Nat  OBVIOUS
    <3>2. t \notin c .. d  BY <3>1
    <3>3. c .. d \subseteq S  BY <3>2
    <3>4. c \in S  BY <3>1, <3>3
    <3> QED  BY <3>1, <3>3, <3>4, <2>2
  <2>5. PICK x \in Nat, m \in Nat :
               /\ m >= 1 /\ IsRun(cur', x, m) /\ x + m - 1 = t /\ x .. t \subseteq T
               /\ x - 1 \notin T
    <3>1. CASE t = a + n
      <4>1. IsRun(cur', a, n + 1)  BY <3>1, <2>1, RunOnIs
      <4>2. a + (n + 1) - 1 = t /\ n + 1 >= 1 /\ n + 1 \in Nat  BY <3>1
      <4>3. \A u \in a .. t : u \in a .. a + n - 1 \/ u = t  BY <3>1
      <4>4. a .. t \subseteq T  BY <4>3, <2>1
      <4>5. a - 1 \notin T  BY <3>1, <2>1
      <4> QED  BY <4>1, <4>2, <4>4, <4>5
    <3>2. CASE t # a + n
      <4>1. IsRun(cur', t, 1)  BY <3>2, <2>1, RunOnIs
      <4>2. t + 1 - 1 = t /\ t .. t = {t}  OBVIOUS
      <4>3. a + n - 1 < t - 1  BY <2>3, <3>2
      <4>4. t - 1 \notin S  BY <4>3, <2>1
      <4>5. t - 1 \notin T  BY <4>4
      <4> QED  BY <4>1, <4>2, <4>5
    <3> QED  BY <3>1, <3>2
  <2>6. CurIs(T)'  BY <2>5, <1>0 DEF CurIs
  <2>7. \A c \in T : c <= t /\ c .. t \subseteq T => t - c + 1 <= m
    <3> SUFFICES ASSUME NEW c \in T, c <= t, c .. t \subseteq T PROVE t - c + 1 <= m  OBVIOUS
    <3>1. c \in Nat /\ x - 1 \notin c .. t  BY <2>5, <1>0
    <3>2. c <= x - 1 => x - 1 \in c .. t  BY <3>1, <2>5
    <3>3. c >= x  BY <3>1, <3>2
    <3> QED  BY <3>1, <3>3, <2>5
  <2>8. Len(cur') = m /\ Len(best) = w  BY <2>2, <2>5 DEF IsRun
  <2>9. CASE m > w
    <3>1. best' = cur'  BY <2>8, <2>9
    <3>2. \A c, d \in T : c <= d /\ c .. d \subseteq T => d - c + 1 <= m
      <4> SUFFICES ASSUME NEW c \in T, NEW d \in T, c <= d, c .. d \subseteq T
                   PROVE  d - c + 1 <= m  OBVIOUS
      <4>1. c \in Nat /\ d \in Nat  BY <1>0
      <4>2. CASE d = t  BY <4>2, <2>7
      <4>3. CASE d # t
        <5>1. d - c + 1 <= w  BY <4>3, <2>4
        <5> QED  BY ONLY <5>1, <4>1, <2>9, m \in Nat, w \in Nat
      <4> QED  BY <4>2, <4>3
    <3>3. BestIs(T)'  BY <2>5, <3>1, <3>2 DEF BestIs
    <3> QED  BY <1>0, <2>6, <3>3 DEF Tracked
  <2>10. CASE ~(m > w)
    <3>1. best' = best  BY <2>8, <2>10
    <3>2. \A c, d \in T : c <= d /\ c .. d \subseteq T => d - c + 1 <= w
      <4> SUFFICES ASSUME NEW c \in T, NEW d \in T, c <= d, c .. d \subseteq T
                   PROVE  d - c + 1 <= w  OBVIOUS
      <4>1. c \in Nat /\ d \in Nat  BY <1>0
      <4>2. CASE d = t
        <5>1. t - c + 1 <= m  BY <4>2, <2>7
        <5> QED  BY ONLY <5>1, <4>1, <4>2, <2>10, m \in Nat, w \in Nat
      <4>3. CASE d # t  BY <4>3, <2>4
      <4> QED  BY <4>2, <4>3
    <3>3. IsRun(best', b, w) /\ b .. b + w - 1 \subseteq T  BY <2>2, <3>1
    <3>4. BestIs(T)'  BY <2>2, <3>2, <3>3 DEF BestIs
    <3> QED  BY <1>0, <2>6, <3>4 DEF Tracked
  <2> QED  BY <2>9, <2>10
<1> QED  BY <1>1, <1>2

\* Before the sweep nothing has passed.
LEMMA SweepStarts == Pause!Init => SweepInv
<1> SUFFICES ASSUME Pause!Init PROVE SweepInv  OBVIOUS
<1>1. /\ pause_pc = "main" /\ step = 0 /\ passing = <<>> /\ best = <<>> /\ cur = <<>>
      /\ tap = -1
  BY DEF Pause!Init
<1>2. passing \in Seq(Nat) /\ Len(passing) = 0  BY <1>1
<1>3. TapIsCentred  BY <1>1 DEF TapIsCentred, Pause!TapIsCentred
<1> QED  BY <1>1, <1>2, <1>3 DEF SweepInv

\* A step of the PAUSE tests is none of the sweep.
LEMMA TestsLeaveSweep ==
  ASSUME SweepInv, UNCHANGED Pause!search,
         \/ pause_pc' \notin {"main", "sweep", "runs", "swept"}
         \/ pause_pc' = pause_pc /\ failed' = failed
         \/ pause_pc = "main" /\ pause_pc' = "sweep"
  PROVE  SweepInv'
<1>1. UNCHANGED <<step, passing, best, cur, tap>>  BY DEF Pause!search
<1>2. TapIsCentred'
  <2>1. CASE pause_pc' # "swept"  BY <2>1 DEF TapIsCentred, Pause!TapIsCentred
  <2>2. CASE pause_pc' = pause_pc /\ failed' = failed
    <3>1. TapIsCentred  BY DEF SweepInv
    <3> QED  BY <3>1, <1>1, <2>2 DEF TapIsCentred, Pause!TapIsCentred
  <2> QED  BY <2>1, <2>2
<1>3. /\ pause_pc' \in {"main", "sweep"} => pause_pc \in {"main", "sweep"}
      /\ pause_pc' = "runs" => pause_pc = "runs"
  OBVIOUS
<1>4. (pause_pc = "runs" => Tracked(SeenTaps(step - 1)))
        => (pause_pc' = "runs" => Tracked(SeenTaps(step - 1))')
  <2>1. SeenTaps(step - 1)' = SeenTaps(step - 1)  BY <1>1 DEF SeenTaps
  <2>2. PICK S : S = SeenTaps(step - 1)  OBVIOUS
  <2>3. SeenTaps(step - 1)' = S  BY <2>1, <2>2
  <2>4. ASSUME Tracked(S) PROVE Tracked(S)'
    BY <2>4, <1>1 DEF Tracked, CurIs, BestIs
  <2>5. Tracked(S)' => Tracked(SeenTaps(step - 1))'
    BY <2>3 DEF Tracked, CurIs, BestIs
  <2> QED  BY <1>3, <2>2, <2>4, <2>5
<1>5. /\ pause_pc = "runs" => step \in 1 .. Len(passing) + 1 /\ tap = -1
      /\ pause_pc = "runs" => Tracked(SeenTaps(step - 1))
  BY DEF SweepInv
<1>6. pause_pc' = "runs" => /\ step' \in 1 .. Len(passing') + 1 /\ tap' = -1
                            /\ Tracked(SeenTaps(step - 1))'
  BY <1>1, <1>3, <1>4, <1>5
<1>7. /\ passing' \in Seq(Nat) /\ step' \in Nat
      /\ \A i, j \in 1 .. Len(passing') : i < j => passing'[i] < passing'[j]
      /\ pause_pc' \in {"main", "sweep"} => /\ cur' = <<>> /\ best' = <<>> /\ tap' = -1
                                            /\ \A i \in 1 .. Len(passing') : passing'[i] < step'
  BY <1>1, <1>3 DEF SweepInv
<1> QED  BY <1>2, <1>6, <1>7 DEF SweepInv

\* One tap is tried.
LEMMA TapIsTried == SweepInv /\ Pause!SweepTap => SweepInv'
<1> SUFFICES ASSUME SweepInv, Pause!SweepTap PROVE SweepInv'  OBVIOUS
<1>1. /\ pause_pc = "sweep" /\ pause_pc' = "sweep" /\ step' = step + 1
      /\ passing' = passing \/ passing' = Append(passing, step)
      /\ best' = best /\ cur' = cur /\ tap' = tap
  BY DEF Pause!SweepTap
<1>2. /\ passing \in Seq(Nat) /\ step \in Nat
      /\ \A i, j \in 1 .. Len(passing) : i < j => passing[i] < passing[j]
      /\ \A i \in 1 .. Len(passing) : passing[i] < step
      /\ cur = <<>> /\ best = <<>> /\ tap = -1
  BY <1>1 DEF SweepInv
<1>3. PICK n \in Nat : n = Len(passing)
  <2>1. Len(passing) \in Nat  BY <1>2
  <2> QED  BY ONLY <2>1, Zenon
<1>4. \A i \in 1 .. n : passing[i] \in Nat  BY <1>2, <1>3
<1>5. /\ passing' \in Seq(Nat)
      /\ \A i, j \in 1 .. Len(passing') : i < j => passing'[i] < passing'[j]
      /\ \A i \in 1 .. Len(passing') : passing'[i] < step + 1
  <2>1. CASE passing' = passing
    <3>1. \A i \in 1 .. n : passing[i] < step + 1  BY <1>2, <1>3, <1>4
    <3> QED  BY <2>1, <3>1, <1>2, <1>3
  <2>2. CASE passing' = Append(passing, step)
    <3>1. /\ passing' \in Seq(Nat) /\ Len(passing') = n + 1
          /\ \A i \in 1 .. n : passing'[i] = passing[i]
          /\ passing'[n + 1] = step
      BY <2>2, <1>2, <1>3, AppendProperties
    <3>2. \A i \in 1 .. n + 1 : i \in 1 .. n \/ i = n + 1  OBVIOUS
    <3>3. \A i \in 1 .. n + 1 : passing'[i] < step + 1
      <4> TAKE i \in 1 .. n + 1
      <4>1. CASE i \in 1 .. n
        <5>1. passing'[i] = passing[i] /\ passing[i] < step /\ passing[i] \in Nat
          BY <4>1, <3>1, <1>2, <1>3, <1>4
        <5>2. PICK v \in Nat : v = passing[i]  BY ONLY <5>1, Zenon
        <5>3. v < step  BY <5>1, <5>2
        <5>4. v < step + 1  BY ONLY <5>3, <1>2, v \in Nat
        <5> QED  BY <5>1, <5>2, <5>4
      <4>2. CASE i = n + 1  BY <4>2, <3>1, <1>2
      <4> QED  BY <4>1, <4>2, <3>2
    <3>4. \A i, j \in 1 .. n + 1 : i < j => passing'[i] < passing'[j]
      <4> SUFFICES ASSUME NEW i \in 1 .. n + 1, NEW j \in 1 .. n + 1, i < j
                   PROVE  passing'[i] < passing'[j]  OBVIOUS
      <4>1. i \in 1 .. n  OBVIOUS
      <4>2. passing'[i] = passing[i]  BY <4>1, <3>1
      <4>3. CASE j \in 1 .. n
        <5>1. passing'[j] = passing[j]  BY <4>3, <3>1
        <5> QED  BY <4>1, <4>2, <4>3, <5>1, <1>2, <1>3
      <4>4. CASE j = n + 1  BY <4>1, <4>2, <4>4, <3>1, <1>2, <1>3
      <4> QED  BY <4>3, <4>4, <3>2
    <3> QED  BY <3>1, <3>3, <3>4
  <2> QED  BY <1>1, <2>1, <2>2
<1>6. TapIsCentred'  BY <1>1 DEF TapIsCentred, Pause!TapIsCentred
<1>7. step' \in Nat /\ cur' = <<>> /\ best' = <<>> /\ tap' = -1  BY <1>1, <1>2
<1>8. \A i \in 1 .. Len(passing') : passing'[i] < step'  BY <1>1, <1>5
<1> QED  BY <1>1, <1>5, <1>6, <1>7, <1>8 DEF SweepInv

\* All taps are tried.
LEMMA SweepIsOver == SweepInv /\ Pause!SweepEnds => SweepInv'
<1> SUFFICES ASSUME SweepInv, Pause!SweepEnds PROVE SweepInv'  OBVIOUS
<1>1. /\ pause_pc = "sweep" /\ pause_pc' = "runs" /\ step' = 1
      /\ passing' = passing /\ best' = best /\ cur' = cur /\ tap' = tap
  BY DEF Pause!SweepEnds
<1>2. /\ passing \in Seq(Nat) /\ cur = <<>> /\ best = <<>> /\ tap = -1
      /\ \A i, j \in 1 .. Len(passing) : i < j => passing[i] < passing[j]
  BY <1>1 DEF SweepInv
<1>3. 1 .. step' - 1 = {}  BY <1>1
<1>4. SeenTaps(step - 1)' = {}  BY <1>3 DEF SeenTaps
<1>5. Tracked(SeenTaps(step - 1))'  BY <1>1, <1>2, <1>4 DEF Tracked
<1>6. TapIsCentred'  BY <1>1 DEF TapIsCentred, Pause!TapIsCentred
<1>7. Len(passing) \in Nat  BY <1>2
<1>8. 1 \in 1 .. Len(passing) + 1  BY ONLY <1>7
<1> QED  BY <1>1, <1>2, <1>5, <1>6, <1>8 DEF SweepInv

\* longest_run looks at one of them.
LEMMA RunIsTracked == SweepInv /\ Pause!LongestRun => SweepInv'
<1> SUFFICES ASSUME SweepInv, Pause!LongestRun PROVE SweepInv'  OBVIOUS
<1>1. /\ pause_pc = "runs" /\ pause_pc' = "runs" /\ step' = step + 1 /\ step <= Len(passing)
      /\ cur' = Pause!RunOn(cur, passing[step])
      /\ best' = IF Len(cur') > Len(best) THEN cur' ELSE best
      /\ passing' = passing /\ tap' = tap
  BY DEF Pause!LongestRun
<1>2. /\ passing \in Seq(Nat) /\ step \in Nat /\ step >= 1 /\ tap = -1
      /\ \A i, j \in 1 .. Len(passing) : i < j => passing[i] < passing[j]
      /\ Tracked(SeenTaps(step - 1))
  BY <1>1 DEF SweepInv
<1>3. PICK n \in Nat : n = Len(passing)
  <2>1. Len(passing) \in Nat  BY <1>2
  <2> QED  BY ONLY <2>1, Zenon
<1>4. PICK k \in 1 .. n : k = step  BY <1>1, <1>2, <1>3
<1>5. \A i \in 1 .. n : passing[i] \in Nat  BY <1>2, <1>3
<1>6. \A i \in 1 .. k - 1 : i \in 1 .. n /\ i < k  OBVIOUS
<1>7. PICK S : S = SeenTaps(k - 1)  OBVIOUS
<1>8. S \in SUBSET Nat /\ \A u \in S : u < passing[k]
  BY <1>2, <1>3, <1>5, <1>6, <1>7 DEF SeenTaps
<1>9. Tracked(S \cup {passing[k]})'
  <2>1. PICK t \in Nat : t = passing[k]  BY <1>5
  <2>2. Tracked(S) /\ \A u \in S : u < t  BY <1>2, <1>4, <1>7, <1>8, <2>1
  <2>3. cur' = Pause!RunOn(cur, t)  BY <1>1, <1>4, <2>1
  <2>4. Tracked(S \cup {t})'  BY ONLY <1>1, <1>8, <2>2, <2>3, t \in Nat, OneTapMore
  <2>5. S \cup {passing[k]} = S \cup {t}  BY <2>1
  <2> QED  BY <2>1, <2>4, <1>1
<1>10. SeenTaps(step - 1)' = S \cup {passing[k]}
  <2>1. step' - 1 = k  BY <1>1, <1>4
  <2>2. \A i \in 1 .. k : i \in 1 .. k - 1 \/ i = k  OBVIOUS
  <2>3. k \in 1 .. k /\ \A i \in 1 .. k - 1 : i \in 1 .. k  OBVIOUS
  <2> QED  BY <2>1, <2>2, <2>3, <1>1, <1>7 DEF SeenTaps
<1>11. Tracked(SeenTaps(step - 1))'
  <2>1. PICK U : U = S \cup {passing[k]}  OBVIOUS
  <2>2. SeenTaps(step - 1)' = U  BY <1>10, <2>1
  <2>3. (S \cup {passing[k]})' = U  BY <1>1, <2>1
  <2>4. Tracked(U)'  BY <1>9, <2>3 DEF Tracked, CurIs, BestIs
  <2> QED  BY <2>2, <2>4 DEF Tracked, CurIs, BestIs
<1>12. TapIsCentred'  BY <1>1 DEF TapIsCentred, Pause!TapIsCentred
<1>13. step' \in 1 .. n + 1  BY <1>1, <1>4
<1> QED  BY <1>1, <1>2, <1>3, <1>11, <1>12, <1>13 DEF SweepInv

\* The middle of the run is taken.
LEMMA TapIsTaken == SweepInv /\ Pause!TakeTap => SweepInv'
<1> SUFFICES ASSUME SweepInv, Pause!TakeTap PROVE SweepInv'  OBVIOUS
<1>1. /\ pause_pc = "runs" /\ pause_pc' = "swept" /\ step > Len(passing)
      /\ IF best # <<>> THEN tap' = best[Len(best) \div 2 + 1]
                        ELSE failed' = TRUE /\ tap' = tap
      /\ step' = step /\ passing' = passing
  BY DEF Pause!TakeTap
<1>2. /\ passing \in Seq(Nat) /\ step \in 1 .. Len(passing) + 1 /\ tap = -1
      /\ step \in Nat
      /\ \A i, j \in 1 .. Len(passing) : i < j => passing[i] < passing[j]
      /\ Tracked(SeenTaps(step - 1))
  BY <1>1 DEF SweepInv
<1>3. PICK n \in Nat : n = Len(passing)
  <2>1. Len(passing) \in Nat  BY <1>2
  <2> QED  BY ONLY <2>1, Zenon
<1>4. step - 1 = n  BY <1>1, <1>2, <1>3
<1>5. PICK P : P = {passing[i] : i \in DOMAIN passing}  OBVIOUS
<1>6. DOMAIN passing = 1 .. n  BY <1>2, <1>3
<1>7. P = SeenTaps(n)  BY <1>5, <1>6 DEF SeenTaps
<1>8. Tracked(P)  BY <1>2, <1>4, <1>7
<1>9. \A u \in P : u \in Nat  BY <1>2, <1>5, <1>6, <1>3
<1>10. IF P = {} THEN failed' /\ tap' = -1
       ELSE \E a, b \in P :
              /\ a <= b /\ a .. b \subseteq P
              /\ tap' = a + (b - a + 1) \div 2
              /\ \A c, d \in P : c <= d /\ c .. d \subseteq P => d - c <= b - a
  <2>1. CASE P = {}  BY <2>1, <1>1, <1>2, <1>8 DEF Tracked
  <2>2. CASE P # {}
    <3>1. PICK a \in Nat, w \in Nat :
                 /\ w >= 1 /\ IsRun(best, a, w) /\ a .. a + w - 1 \subseteq P
                 /\ \A c, d \in P : c <= d /\ c .. d \subseteq P => d - c + 1 <= w
      BY <2>2, <1>8 DEF Tracked, BestIs
    <3>2. Len(best) = w /\ best # <<>>  BY <3>1 DEF IsRun
    <3>3. w \div 2 + 1 \in 1 .. w  BY <3>1
    <3>4. best[w \div 2 + 1] = a + (w \div 2 + 1) - 1  BY <3>1, <3>3 DEF IsRun
    <3>5. PICK b \in Nat : b = a + w - 1  BY <3>1
    <3>6. PICK h \in Nat : h = w \div 2  BY <3>1
    <3>7. tap' = a + h
      <4>1. tap' = a + (h + 1) - 1  BY <3>2, <3>4, <3>6, <1>1
      <4> QED  BY <4>1
    <3>8. b - a + 1 = w /\ a <= b  BY <3>1, <3>5
    <3>9. a \in P /\ b \in P
      <4>1. a \in a .. a + w - 1 /\ b \in a .. a + w - 1  BY <3>1, <3>5
      <4> QED  BY <4>1, <3>1
    <3>10. \A c, d \in P : c <= d /\ c .. d \subseteq P => d - c <= b - a
      <4> SUFFICES ASSUME NEW c \in P, NEW d \in P, c <= d, c .. d \subseteq P
                   PROVE  d - c <= b - a  OBVIOUS
      <4>1. d - c + 1 <= w /\ c \in Nat /\ d \in Nat  BY <3>1, <1>9
      <4> QED  BY ONLY <4>1, <3>8, a \in Nat, b \in Nat, w \in Nat
    <3> QED  BY <2>2, <3>1, <3>5, <3>6, <3>7, <3>8, <3>9, <3>10
  <2> QED  BY <2>1, <2>2
<1>11. TapIsCentred'
  <2>1. {passing'[i] : i \in DOMAIN passing'} = P  BY <1>1, <1>5
  <2> QED  BY <2>1, <1>10 DEF TapIsCentred, Pause!TapIsCentred
<1> QED  BY <1>1, <1>2, <1>11 DEF SweepInv

\* Every step of the script.
LEMMA SweepSteps == SweepInv /\ [Pause!Next]_(Pause!vars) => SweepInv'
<1> SUFFICES ASSUME SweepInv, [Pause!Next]_(Pause!vars) PROVE SweepInv'  OBVIOUS
<1>1. CASE \/ Pause!SweepTap \/ Pause!SweepEnds \/ Pause!LongestRun \/ Pause!TakeTap
  BY <1>1, TapIsTried, SweepIsOver, RunIsTracked, TapIsTaken
<1>2. CASE Pause!MainSweep
  BY <1>2, TestsLeaveSweep DEF Pause!MainSweep, Pause!options
<1>3. ASSUME NEW kind, NEW q, NEW sp, Pause!Main(kind, q, sp) PROVE SweepInv'
  BY <1>3, TestsLeaveSweep DEF Pause!Main
<1>4. CASE \/ Pause!Sent("honored", "wait_honored", TRUE)
           \/ Pause!Sent("ignored", "wait_ignored", FALSE)
  BY <1>4, TestsLeaveSweep DEF Pause!Sent, Pause!options
<1>5. CASE \/ Pause!Judge("wait_honored", "honored", "ignored")
           \/ Pause!Judge("wait_ignored", "ignored", "xon")
  BY <1>5, TestsLeaveSweep DEF Pause!Judge, Pause!options
<1>6. CASE Pause!XonFirst \/ Pause!XonLast \/ Pause!XonZero \/ Pause!XonVoid
  BY <1>6, TestsLeaveSweep
     DEF Pause!XonFirst, Pause!XonLast, Pause!XonZero, Pause!XonVoid, Pause!options
<1>7. CASE Pause!XonRefresh
  BY <1>7, TestsLeaveSweep DEF Pause!XonRefresh, Pause!options
<1>8. CASE Pause!XonJudge
  BY <1>8, TestsLeaveSweep DEF Pause!XonJudge
<1>9. CASE UNCHANGED Pause!vars
  BY <1>9, TestsLeaveSweep DEF Pause!vars, Pause!options, Pause!verdict
<1> QED
  BY <1>1, <1>2, <1>3, <1>4, <1>5, <1>6, <1>7, <1>8, <1>9 DEF Pause!Next

\* The sweep takes the middle of the widest eye (rgmii_lb_selftest.py 194-207, 332-338),
\* for any number of taps and whichever of them pass.
THEOREM SweepTakesTheMiddle == Spec => []TapIsCentred
<1>1. SweepInv => TapIsCentred  BY DEF SweepInv
<1> QED  BY <1>1, SweepStarts, SweepSteps, PauseTestsRun, PTL DEF Pause!Spec
=============================================================================
