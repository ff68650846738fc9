---------------------------- MODULE MCSimModels -----------------------------
(***************************************************************************)
(* Instances of SimModels for TLC.                                         *)
(***************************************************************************)
EXTENDS SimModels

\* Protocol numbers.
UDP    == 17
TCP    == 6
ICMP   == 1
ICMPV6 == 58

\* Packets that differ from a plain one in what the engine has to notice.
Plain == [vlan |-> 0, family |-> 4, proto |-> UDP, l4_len |-> 12, ihl |-> 5, opts |-> <<>>,
          mf |-> FALSE, frag_off |-> 0, trailer |-> <<>>, bad_ip |-> FALSE, bad_l4 |-> FALSE,
          udp_zero |-> FALSE, udp_len |-> 12, truncate |-> 0, force_zero |-> FALSE, ones |-> FALSE]

OptLists == {<<1, 1, 1, 1>>, <<0, 131, 4, 0>>, <<1, 131, 3, 0>>, <<7, 2, 137, 2>>,
             <<7, 4, 131, 137>>, <<7, 9, 131, 0>>, <<1, 1, 1, 7>>, <<1, 1, 1, 131>>,
             <<68, 1, 1, 1>>, <<7, 0, 1, 1>>, <<7, 3, 131, 0>>}

MCPackets ==
  {[Plain EXCEPT !.proto = pr, !.l4_len = n, !.udp_len = n, !.bad_ip = (bad = "ip"),
                 !.bad_l4 = (bad = "l4"), !.ones = (bad \in {"l4", "ones"})] :
      pr \in {UDP, TCP, ICMP, 47}, n \in {3, 7, 8, 18, 21}, bad \in {"no", "ip", "l4", "ones"}}
  \cup {[Plain EXCEPT !.family = 6, !.vlan = IF bad THEN 34984 ELSE 0, !.proto = pr, !.l4_len = n,
                      !.udp_len = n, !.bad_l4 = bad] :
      pr \in {UDP, TCP, ICMPV6, ICMP, 0}, n \in {3, 7, 18, 21}, bad \in BOOLEAN}
  \cup {[Plain EXCEPT !.vlan = 33024, !.ihl = 6, !.opts = opts, !.bad_l4 = TRUE] : opts \in OptLists}
  \cup {[Plain EXCEPT !.mf = m, !.frag_off = off, !.bad_l4 = TRUE] :
      m \in BOOLEAN, off \in {0, 1, 256}}
  \cup {[Plain EXCEPT !.udp_len = n, !.trailer = t, !.bad_l4 = (t = <<>>)] :
      n \in {0, 7, 8, 9, 12, 13, 300}, t \in {<<>>, <<255, 7, 255>>}}
  \cup {[Plain EXCEPT !.udp_zero = z, !.force_zero = f, !.family = fam] :
      z \in BOOLEAN, f \in BOOLEAN, fam \in {4, 6}}
  \cup {[Plain EXCEPT !.proto = pr, !.l4_len = 20, !.udp_len = 20, !.truncate = gone, !.trailer = t] :
      pr \in {UDP, TCP}, gone \in {1, 12, 15, 25}, t \in {<<>>, <<0, 20, 9, 9, 255>>}}
  \cup {[Plain EXCEPT !.proto = 47, !.l4_len = 16394, !.truncate = 16384, !.bad_ip = bad] : bad \in BOOLEAN}
  \cup {[Plain EXCEPT !.l4_len = 45, !.udp_len = 45, !.bad_l4 = TRUE],
        [Plain EXCEPT !.udp_zero = TRUE, !.bad_l4 = TRUE, !.trailer = <<7, 255>>],
        [Plain EXCEPT !.family = 0, !.proto = 0]}

MCFirst == {[Plain EXCEPT !.vlan = 33024, !.ihl = 6, !.opts = <<131, 9, 0, 0>>, !.mf = TRUE],
            [Plain EXCEPT !.family = 6, !.proto = ICMPV6]}

\* Two suites in one file, in two files, and a file that cannot be read.
File(S) == [suites |-> S, readable |-> TRUE]
MCFileSets == {<<File({1, 2}), File({3})>>, <<File({1, 2}), File({2, 3})>>,
               <<File({1, 2}), [suites |-> {3}, readable |-> FALSE]>>}

\* All, one without a VHDL run, two in an order of their own, one twice, two that
\* can share a directory, and one that may be missing.  Suite 3 is named vhdl_ of suite 1.
MCNameLists == {<<>>, <<2>>, <<2, 1>>, <<1, 1>>, <<1, 3>>}
MCVhdlOf    == {<<3, 1>>}
=============================================================================
