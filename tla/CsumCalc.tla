------------------------------- MODULE CsumCalc -------------------------------
(***************************************************************************)
(* csum_calc.v, the checksum engine, in both of its places - tx_csum_off.v *)
(* inserts what it computes, eth_mac_rx.v judges by it - against the       *)
(* packet builder and the reference of the cocotb suite, lib/csum.py.      *)
(*                                                                         *)
(* The engine sees one byte per clock and decides as it goes: lengths,     *)
(* option list, UDP Length and protocol are read in passing, and the sums  *)
(* run through a pipeline that is still moving after the last byte.  The   *)
(* reference has the whole frame at hand.  Offsets, widths and values are  *)
(* those of the code; only the random bytes are reduced to a few patterns. *)
(***************************************************************************)
EXTENDS Integers, Sequences, FiniteSetsExt

CONSTANTS Packets,     \* records with the fields of lib/csum.py's Packet
          First,       \* the packets that may come first
          MAX_FRAME    \* tx_csum_off cuts a frame here

VARIABLES place,       \* "tx" or "rx": who drives the engine
          sent,        \* frames begun so far, at most two
          packet,      \* the Packet being sent
          frame,       \* its frame() as the builder made it
          bytes,       \* what the engine is fed
          cut,         \* tx_csum_off cut the frame
          idx,         \* in_idx: the next byte
          idle,        \* clocks still to run after the last byte
          e            \* the engine's registers

cvars == <<place, sent, packet, frame, bytes, cut, idx, idle, e>>

ICMP == 1
TCP == 6
UDP == 17
ICMPV6 == 58
L4_CSUM_OFF(proto) == CASE proto = TCP -> 16 [] proto = UDP -> 6
                        [] proto \in {ICMP, ICMPV6} -> 2 [] OTHER -> -1
IPv4 == 2048
IPv6 == 34525
Tags == {33024, 34984}
SourceRoutes == {131, 137}      \* LSRR, SSRR

-----------------------------------------------------------------------------
(* The reference: lib/csum.py. *)
Hi(w) == w \div 256
Lo(w) == w % 256
Word(b, i) == IF i % 2 = 0 THEN 256 * b ELSE b
Fold(s) == [x \in Nat |-> (x % 65536) + (x \div 65536)][s]
Not(w) == 65535 - w

(* The sum of a sequence of bytes; a missing last byte counts as zero. *)
Total(s) == MapThenSumSet(LAMBDA i : Word(s[i], i - 1), DOMAIN s)
ones_sum(s) == Fold(Fold(Total(s)))

(* Two bytes of a frame, at a 0-based offset, and a frame with them changed. *)
Word16(s, at) == 256 * s[at + 1] + s[at + 2]
Patch(s, at, w) == [s EXCEPT ![at + 1] = Hi(w), ![at + 2] = Lo(w)]

(* The walk of an option list as RFC 791 lays it out. *)
ip4_opts_skip(opts) ==
  LET n == Len(opts)
      walk[i \in 1..(n + 256)] ==
        IF i > n \/ opts[i] = 0 THEN FALSE
        ELSE IF opts[i] = 1 THEN walk[i + 1]
        ELSE IF opts[i] \in SourceRoutes THEN TRUE
        ELSE IF i + 1 > n THEN FALSE
        ELSE IF opts[i + 1] < 2 THEN TRUE
        ELSE walk[i + opts[i + 1]]
  IN walk[1]

(* A Packet of the builder: the options fill the header, and what is cut    *)
(* from the end leaves a datagram.                                          *)
IsPacket(p) ==
  /\ p.vlan \in {0} \cup Tags /\ p.family \in {0, 4, 6} /\ p.proto \in 0..255
  /\ p.ihl \in 5..15 /\ Len(p.opts) = 4 * p.ihl - 20
  /\ {p.l4_len, p.udp_len, p.truncate} \subseteq 0..65535 /\ p.frag_off \in 0..8191
  /\ {p.mf, p.bad_ip, p.bad_l4, p.udp_zero} \subseteq BOOLEAN
  /\ p.truncate <= p.l4_len + 4 * p.ihl

(* random_opts: what a list of options may hold: no-operation, the end with *)
(* anything behind it, an option, a source route and a broken length.       *)
OptionKinds(S) ==
  /\ \E p \in S : p.opts # <<>> /\ Head(p.opts) = 0 /\ p.opts # [i \in DOMAIN p.opts |-> 0]
  /\ \A kind \in {{1}, {7, 68, 130, 148}, SourceRoutes} : \E p \in S : p.opts # <<>> /\ Head(p.opts) \in kind
  /\ \E p \in S : p.opts # <<>> /\ Head(p.opts) > 1 /\ p.opts[2] < 2

MinL4(proto) == CASE proto = TCP -> 20 [] proto = UDP -> 8
                  [] proto \in {ICMP, ICMPV6} -> 4 [] OTHER -> 0

(* random_packet: a set of packets that takes each of its alternatives.     *)
CoversRandomPacket(S) ==
  /\ \A ip \in ({4} \X {UDP, TCP, ICMP, 47}) \cup ({6} \X {UDP, TCP, ICMPV6, 0}) \cup {<<0, 0>>} :
       LET drawn == {p \in S : <<p.family, p.proto>> = ip} IN
       /\ \E p \in drawn : p.l4_len >= MinL4(p.proto)
       /\ MinL4(ip[2]) > 0 => \E p \in drawn : p.l4_len < MinL4(p.proto)
  /\ \A tag \in {0} \cup Tags : \E p \in S : p.vlan = tag
  /\ \A first, more \in BOOLEAN : \E p \in S : p.family = 4 /\ p.mf = more /\ (p.frag_off = 0) = first
  /\ \E p \in S : p.bad_ip
  /\ \A bad, zero \in BOOLEAN : \E p \in S : p.bad_l4 = bad /\ p.udp_zero = zero
  /\ \A len \in {"shorter", "past", "below"} : \E p \in S :
       p.proto = UDP /\ p.l4_len >= 8 /\ CASE len = "shorter" -> p.udp_len \in 8..(p.l4_len - 1)
                                           [] len = "past" -> p.udp_len > p.l4_len
                                           [] len = "below" -> p.udp_len < 8
  /\ \A odd \in BOOLEAN : \E p \in S : p.trailer # <<>> /\ (Len(p.trailer) % 2 = 1) = odd
  /\ \E p \in S : p.truncate \in 1..p.l4_len

(* What the random generator of a packet draws. *)
Filler(p, i) == IF p.ones THEN 255 ELSE (37 * i + 11) % 256

L3Off(p) == IF p.vlan = 0 THEN 14 ELSE 18
HdrLen(p) == IF p.family = 4 THEN 4 * p.ihl ELSE 40
Addrs(p) == [i \in 1..(IF p.family = 4 THEN 8 ELSE 32) |-> Filler(p, i)]

(* The L4 bytes, with the checksum field still zero. *)
L4Drawn(p) ==
  LET off == L4_CSUM_OFF(p.proto) IN
  [i \in 1..p.l4_len |->
     IF p.proto = UDP /\ p.l4_len >= 6 /\ i = 5 THEN Hi(p.udp_len)
     ELSE IF p.proto = UDP /\ p.l4_len >= 6 /\ i = 6 THEN Lo(p.udp_len)
     ELSE IF off >= 0 /\ p.l4_len >= off + 2 /\ i \in {off + 1, off + 2} THEN 0
     ELSE Filler(p, i)]

UdpCov(p) == IF p.proto = UDP THEN p.udp_len ELSE p.l4_len

L4Csum(p, l4, cover) ==
  LET data == SubSeq(l4, 1, IF cover < Len(l4) THEN cover ELSE Len(l4))
      pseudo == IF p.proto = ICMP /\ p.family = 4 THEN 0
                ELSE Total(Addrs(p)) + p.proto + Len(data)
  IN Not(Fold(Fold(Total(data) + pseudo)))

L4Applies(p, ul) ==
  /\ L4_CSUM_OFF(p.proto) >= 0 /\ p.l4_len >= L4_CSUM_OFF(p.proto) + 2
  /\ p.proto = UDP => ul \in 8..p.l4_len
  /\ \/ /\ p.family = 4 /\ p.proto \in {TCP, UDP, ICMP}
        /\ ~p.mf /\ p.frag_off = 0 /\ ~ip4_opts_skip(p.opts)
     \/ p.family = 6 /\ p.proto \in {TCP, UDP, ICMPV6}

(* force_zero_l4_csum moves one word so that the checksum comes out as zero. *)
L4Bytes(p) ==
  LET l4 == L4Drawn(p) IN
  IF p.force_zero THEN Patch(l4, 8, Fold(Word16(l4, 8) + L4Csum(p, l4, UdpCov(p)))) ELSE l4

(* The L4 checksum as built, with what the packet asks to go wrong. *)
Flip(b) == IF b % 2 = 0 THEN b + 1 ELSE b - 1

BuiltCsum(p) ==
  LET c == L4Csum(p, L4Bytes(p), UdpCov(p))
      d == IF p.proto = UDP /\ p.udp_zero THEN 0
           ELSE IF p.proto = UDP /\ c = 0 THEN 65535 ELSE c
  IN IF p.bad_l4 THEN 256 * Flip(Hi(d)) + Flip(Lo(d)) ELSE d

L4Built(p) ==
  IF L4Applies(p, UdpCov(p)) THEN Patch(L4Bytes(p), L4_CSUM_OFF(p.proto), BuiltCsum(p)) ELSE L4Bytes(p)

IpHeader(p) ==
  IF p.family = 6
  THEN <<96, 0, 0, 0, Hi(p.l4_len), Lo(p.l4_len), p.proto, 64>> \o Addrs(p)
  ELSE LET total == HdrLen(p) + p.l4_len
           hdr == <<64 + p.ihl, 0, Hi(total), Lo(total), 18, 52,
                    (IF p.mf THEN 32 ELSE 0) + Hi(p.frag_off), Lo(p.frag_off),
                    64, p.proto, 0, 0>> \o Addrs(p) \o p.opts
           c == Not(ones_sum(hdr))
       IN Patch(hdr, 10, IF p.bad_ip THEN 256 * ((Hi(c) + 128) % 256) + Flip(Lo(c)) ELSE c)

Frame(p) ==
  LET eth == [i \in 1..12 |-> 2] \o (IF p.vlan = 0 THEN <<>> ELSE <<Hi(p.vlan), Lo(p.vlan), 0, 7>>)
      dgram == IpHeader(p) \o L4Built(p)
  IN IF p.family = 0 THEN eth \o <<136, 181>> \o L4Bytes(p) \o p.trailer
     ELSE LET etype == IF p.family = 4 THEN IPv4 ELSE IPv6 IN
          eth \o <<Hi(etype), Lo(etype)>> \o SubSeq(dgram, 1, Len(dgram) - p.truncate) \o p.trailer

pad60(f) == IF Len(f) >= 60 THEN f ELSE f \o [i \in 1..(60 - Len(f)) |-> 0]

(* Packet.expect: what the engine should make of packet p sent as frame f. *)
Expect(p, f) ==
  LET l4s == L3Off(p) + HdrLen(p)
      l3_end == l4s + p.l4_len
      ip4 == p.family = 4 /\ l4s <= Len(f)
      hdr == SubSeq(f, L3Off(p) + 1, l4s)
      done == p.family # 0 /\ l3_end <= Len(f)
      cover == IF p.proto = UDP /\ done /\ p.l4_len >= 6 THEN Word16(f, l4s + 4) ELSE p.l4_len
      off == L4_CSUM_OFF(p.proto)
      applies == done /\ L4Applies(p, cover)
      l4 == SubSeq(f, l4s + 1, l3_end)
      l4_csum == IF applies THEN L4Csum(p, Patch(l4, off, 0), cover) ELSE 0
      found == IF applies THEN Word16(l4, off) ELSE 0
  IN [done |-> done, ip4 |-> ip4, l4_ok |-> applies,
      ip_csum_pos |-> L3Off(p) + 10, l4_csum_pos |-> l4s + off,
      ip_good |-> ip4 => ones_sum(hdr) = 65535,
      ip_csum |-> IF ip4 THEN Not(ones_sum(Patch(hdr, 10, 0))) ELSE 0,
      l4_csum |-> l4_csum,
      l4_good |-> \/ p.proto = UDP /\ found = 0
                  \/ found = (IF p.proto = UDP /\ l4_csum = 0 THEN 65535 ELSE l4_csum)]

-----------------------------------------------------------------------------
(* The engine: csum_calc.v. *)
Idle0 ==
  [vlan |-> FALSE, l3 |-> 0, fam |-> 0, etype_hi |-> 0, hdr_len |-> 20, ip_len |-> 0,
   frag |-> FALSE, proto |-> 0, len_ok |-> FALSE, l3_end |-> 0, l4_start |-> 0, l4_len |-> 0,
   l4_end |-> 0, udp_hi |-> 0, udp_len |-> 0, opt_pos |-> 20, opt_nx |-> FALSE,
   opt_end |-> FALSE, opt_skip |-> FALSE, ip_pos |-> 0, l4_pos |-> 16383, l4_field |-> 0,
   ip_acc |-> 0, ph_acc |-> 0, l4_acc |-> 0, h1 |-> FALSE, h2 |-> FALSE,
   p1 |-> FALSE, p2 |-> FALSE, p3 |-> FALSE, ip_f1 |-> 0, l4_tot |-> 0, l4_f1 |-> 0,
   struct_r |-> FALSE, able_r |-> FALSE,
   done |-> FALSE, ip4 |-> FALSE, ip_sum |-> 0, l4_ok |-> FALSE, l4_udp |-> FALSE, l4_sum |-> 0]

(* Byte 0 of a frame clears what the last frame left, except these. *)
NewFrame(n) ==
  [Idle0 EXCEPT !.etype_hi = n.etype_hi, !.udp_hi = n.udp_hi, !.ip_pos = n.ip_pos,
     !.ip_f1 = n.ip_f1, !.l4_tot = n.l4_tot, !.l4_f1 = n.l4_f1, !.struct_r = n.struct_r,
     !.able_r = n.able_r, !.ip_sum = n.ip_sum, !.l4_sum = n.l4_sum]

(* EtherType, after at most one tag. *)
EtherType(n, i, b) ==
  LET etype == 256 * n.etype_hi + b
      at == IF n.vlan THEN 16 ELSE 12
  IN IF n.l3 # 0 THEN n
     ELSE IF i = at \/ i = 12 THEN [n EXCEPT !.etype_hi = b]
     ELSE IF i # at + 1 THEN n
     ELSE IF ~n.vlan /\ etype \in Tags THEN [n EXCEPT !.vlan = TRUE]
     ELSE [n EXCEPT !.l3 = at + 2,
                    !.fam = IF etype = IPv4 THEN 4 ELSE IF etype = IPv6 THEN 6 ELSE 0]

Fits14(end) == end <= 16383

(* The fields of the IP header, at offset r of it. *)
Header(n, r, b) ==
  LET v4 == n.fam = 4
      len_at == IF v4 THEN 2 ELSE 4
      end == n.l3 + n.ip_len + (IF v4 THEN 0 ELSE 40)
      start == n.l3 + (IF v4 THEN n.hdr_len ELSE 40)
      off == L4_CSUM_OFF(n.proto)
      ends_now == r = len_at + 2
  IN [n EXCEPT
        !.fam = IF r = 0 /\ b \div 16 # @ THEN 0 ELSE @,
        !.hdr_len = IF v4 /\ r = 0 THEN 4 * (b % 16) ELSE @,
        !.ip_len = IF r = len_at THEN 256 * b + Lo(@) ELSE IF r = len_at + 1 THEN 256 * Hi(@) + b ELSE @,
        !.frag = IF v4 /\ r = 6 THEN b % 64 # 0 ELSE @ \/ (v4 /\ r = 7 /\ b # 0),
        !.proto = IF r = (IF v4 THEN 9 ELSE 6) THEN b ELSE @,
        !.len_ok = IF ends_now THEN Fits14(end) ELSE @,
        !.l3_end = IF ends_now THEN end % 16384 ELSE @,
        !.l4_end = IF ends_now THEN end % 16384 ELSE @,
        !.l4_start = IF ends_now THEN start ELSE @,
        !.l4_len = IF ends_now THEN (IF v4 THEN n.ip_len - n.hdr_len ELSE n.ip_len) % 65536 ELSE @,
        !.ip_pos = IF ends_now THEN n.l3 + 10 ELSE @,
        !.l4_pos = IF r = (IF v4 THEN 10 ELSE 7) THEN n.l4_start + (IF off < 0 THEN 0 ELSE off) ELSE @]

(* The option walk, one byte at a time. *)
Option(n, r, b) ==
  IF n.opt_end THEN n
  ELSE IF n.opt_nx
  THEN [n EXCEPT !.opt_nx = FALSE,
                 !.opt_end = b < 2, !.opt_skip = @ \/ b < 2,
                 !.opt_pos = IF b < 2 THEN @ ELSE (@ + b) % 512]
  ELSE IF r # n.opt_pos THEN n
  ELSE [n EXCEPT !.opt_end = (b = 0),
                 !.opt_pos = IF b = 1 THEN @ + 1 ELSE @,
                 !.opt_nx = b > 1,
                 !.opt_skip = @ \/ b \in SourceRoutes]

(* The UDP Length, which moves the end of the bytes summed. *)
UdpLength(n, o, i, b) ==
  LET now == 256 * o.udp_hi + b IN
  IF o.proto # UDP \/ ~o.len_ok THEN n
  ELSE IF i = o.l4_start + 4 THEN [n EXCEPT !.udp_hi = b]
  ELSE IF i = o.l4_start + 5
  THEN [n EXCEPT !.udp_len = now,
                 !.l4_end = IF now \in 8..o.l4_len THEN (o.l4_start + now) % 16384 ELSE @]
  ELSE n

(* The three sums, of the registers as they were before this byte. *)
Sums(n, o, i, b, zero_fields) ==
  LET r == i - o.l3
      w == Word(b, i)
      in_ip4h == o.fam = 4 /\ r < o.hdr_len
      in_ph == IF o.fam = 4 THEN r \in 12..19 ELSE r \in 8..39
      in_l4 == o.len_ok /\ i >= o.l4_start /\ i < o.l4_end /\ i < o.l3_end
      is_l4f == i \in {o.l4_pos, o.l4_pos + 1}
  IN [n EXCEPT
        !.ip_acc = IF in_ip4h /\ ~(zero_fields /\ r \in {10, 11}) THEN @ + w ELSE @,
        !.ph_acc = IF in_ph THEN @ + w ELSE @,
        !.l4_acc = IF in_l4 /\ ~(zero_fields /\ is_l4f) THEN @ + w ELSE @,
        !.l4_field = IF in_l4 /\ is_l4f
                     THEN (IF i = o.l4_pos THEN 256 * b + Lo(@) ELSE 256 * Hi(@) + b) ELSE @,
        !.h1 = in_ip4h /\ r = o.hdr_len - 1,
        !.p1 = o.len_ok /\ i = o.l3_end - 1]

(* One byte: every rule reads the registers as they were. *)
Byte(o, i, b, zero_fields) ==
  LET n0 == [o EXCEPT !.h1 = FALSE, !.h2 = FALSE, !.p1 = FALSE, !.p2 = FALSE]
      r == i - o.l3
  IN IF i = 0 THEN NewFrame(o)
     ELSE IF o.l3 = 0 THEN EtherType(n0, i, b)
     ELSE IF o.fam = 0 THEN n0
     ELSE LET n1 == Header(n0, r, b)
              n2 == IF o.fam = 4 /\ r \in 20..(o.hdr_len - 1) THEN Option(n1, r, b) ELSE n1
              n3 == UdpLength(n2, o, i, b)
          IN Sums(n3, o, i, b, zero_fields)

struct4(o) == o.fam = 4 /\ o.hdr_len >= 20 /\ o.ip_len >= o.hdr_len
struct_ok(o) == o.len_ok /\ (struct4(o) \/ o.fam = 6)

l4_able(o) ==
  /\ struct_ok(o) /\ L4_CSUM_OFF(o.proto) >= 0
  /\ o.proto = ICMP => o.fam = 4
  /\ o.proto = ICMPV6 => o.fam = 6
  /\ ~(o.fam = 4 /\ (o.frag \/ o.opt_skip))
  /\ o.l4_len >= L4_CSUM_OFF(o.proto) + 2
  /\ o.proto = UDP => o.udp_len \in 8..o.l4_len

(* The pipeline behind the sums; n is what this clock's byte made of o. *)
Pipe(o, n) ==
  LET pseudo == IF o.fam = 6 \/ o.proto # ICMP
                THEN o.ph_acc + o.proto + (IF o.proto = UDP THEN o.udp_len ELSE o.l4_len)
                ELSE 0
  IN [n EXCEPT
        !.h2 = o.h1, !.p2 = o.p1, !.p3 = o.p2,
        !.ip_f1 = IF o.h1 THEN Fold(o.ip_acc) ELSE @,
        !.ip_sum = IF o.h2 THEN Fold(o.ip_f1) % 65536 ELSE @,
        !.ip4 = IF o.h2 THEN struct4(o) ELSE @,
        !.struct_r = IF o.p1 THEN struct_ok(o) ELSE @,
        !.able_r = IF o.p1 THEN l4_able(o) ELSE @,
        !.l4_udp = IF o.p1 THEN o.proto = UDP ELSE @,
        !.l4_tot = IF o.p1 THEN o.l4_acc + pseudo ELSE @,
        !.l4_f1 = IF o.p2 THEN Fold(o.l4_tot) ELSE @,
        !.l4_sum = IF o.p3 THEN Fold(o.l4_f1) % 65536 ELSE @,
        !.done = IF o.p3 THEN o.struct_r ELSE @,
        !.l4_ok = IF o.p3 THEN o.struct_r /\ o.able_r ELSE @]

NoByte(o) == Pipe(o, [o EXCEPT !.h1 = FALSE, !.p1 = FALSE])
InByte(o, i, b, zero_fields) == Pipe(o, Byte(o, i, b, zero_fields))

-----------------------------------------------------------------------------
(* Its two drivers. *)

(* Mutant: tx_csum_off commits a clock early. *)
ShortFlush(where) == IF where = "tx" THEN 2 ELSE 1

(* Clocks between a frame's last byte and the use of the results: the flush *)
(* of tx_csum_off, the falling edge of rx_dv before S_CRC_CHECK.            *)
Flush(where) == IF where = "tx" THEN 3 ELSE 1

(* What the engine is fed: tx_csum_off the bytes up to MAX_FRAME, eth_mac_rx *)
(* the padded frame with the FCS behind it.                                 *)
Fed(p, f, where) ==
  IF where = "rx" THEN pad60(f) \o [i \in 1..4 |-> Filler(p, i)]
  ELSE IF Len(f) > MAX_FRAME THEN SubSeq(f, 1, MAX_FRAME) ELSE f

Init == /\ place = "tx" /\ sent = 0 /\ packet = <<>> /\ frame = <<>> /\ bytes = <<>> /\ cut = FALSE
        /\ idx = 0 /\ idle = 0 /\ e = Idle0

(* A byte is taken; the AXIS source of the transmit side may also pause, *)
(* which matters while the pipeline moves.                               *)
Take ==
  /\ idx < Len(bytes)
  /\ e' = InByte(e, idx, bytes[idx + 1], place = "tx")
  /\ idx' = idx + 1
  /\ UNCHANGED <<place, sent, packet, frame, bytes, cut, idle>>

Bubble ==
  /\ place = "tx" /\ idx \in 1..(Len(bytes) - 1)
  /\ e.h1 \/ e.h2 \/ e.p1 \/ e.p2 \/ e.p3
  /\ e' = NoByte(e)
  /\ UNCHANGED <<place, sent, packet, frame, bytes, cut, idx, idle>>

Settle ==
  /\ idx = Len(bytes) /\ idle > 0
  /\ e' = NoByte(e) /\ idle' = idle - 1
  /\ UNCHANGED <<place, sent, packet, frame, bytes, cut, idx>>

Judged == idx = Len(bytes) /\ idle = 0

(* A frame begins, the second with the engine as the first left it. *)
NextFrame ==
  /\ Judged /\ sent < 2
  /\ \E p \in (IF sent = 0 THEN First ELSE Packets),
        where \in (IF sent = 0 THEN {"tx", "rx"} ELSE {place}) :
       /\ packet' = p /\ place' = where /\ frame' = Frame(p)
       /\ bytes' = Fed(p, frame', where)
       /\ cut' = (where = "tx" /\ Len(frame') > MAX_FRAME)
       /\ idle' = Flush(where)
  /\ sent' = sent + 1 /\ idx' = 0
  /\ e' = NoByte(e)

Next == Take \/ Bubble \/ Settle \/ NextFrame

Spec == Init /\ [][Next]_cvars

(* eth_mac_rx.v: csum_bad_now in S_CRC_CHECK. *)
csum_bad_now ==
  \/ e.ip4 /\ e.l4_start + 4 <= Len(bytes) /\ e.ip_sum # 65535
  \/ /\ e.done /\ e.l3_end + 4 <= Len(bytes) /\ e.l4_ok
     /\ ~(e.l4_udp /\ e.l4_field = 0) /\ e.l4_sum # 65535

(* tx_csum_off.v: the frame as it leaves, with the committed patches. *)
Egress ==
  LET patch_ok == ~cut /\ e.done
      c == Not(e.l4_sum)
      l4_csum == IF e.l4_udp /\ c = 0 THEN 65535 ELSE c
      with_l4 == IF patch_ok /\ e.l4_ok THEN Patch(bytes, e.l4_pos, l4_csum) ELSE bytes
  IN IF patch_ok /\ e.ip4 THEN Patch(with_l4, e.ip_pos, Not(e.ip_sum)) ELSE with_l4

(* What the tests expect of the two: the reference's verdict, and the frame *)
(* with the reference's checksums in place (a cut frame as it is).          *)
ExpectedBad ==
  LET x == Expect(packet, pad60(frame))
  IN (x.ip4 /\ ~x.ip_good) \/ (x.l4_ok /\ ~x.l4_good)

ExpectedFrame ==
  LET x == Expect(packet, frame)
      c == IF packet.proto = UDP /\ x.l4_csum = 0 THEN 65535 ELSE x.l4_csum
      with_ip == IF x.done /\ x.ip4 THEN Patch(frame, x.ip_csum_pos, x.ip_csum) ELSE frame
  IN IF cut THEN bytes
     ELSE IF x.l4_ok THEN Patch(with_ip, x.l4_csum_pos, c) ELSE with_ip

(* What the streaming engine makes of a frame is what the reference        *)
(* computes from the whole of it: the receiver flags exactly the frames    *)
(* whose header or L4 checksum is wrong, and the transmitter sends exactly *)
(* the frame with both checksums right - whatever the frame before left in *)
(* the registers, wherever the source paused, for options, fragments,      *)
(* tags, odd and short lengths, UDP lengths that disagree and datagrams    *)
(* that end after the frame does.                                          *)
ChecksumAsReference ==
  (Judged /\ sent > 0) => IF place = "rx" THEN csum_bad_now = ExpectedBad ELSE Egress = ExpectedFrame
=============================================================================
