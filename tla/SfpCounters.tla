----------------------------- MODULE SfpCounters ------------------------------
(***************************************************************************)
(* sfp_counters.py: the host tool that reads and clears the counters of    *)
(* the ZCU106 demo over JTAG, with the counter block of zcu106_top.v it    *)
(* talks to.  A step of the host is one scan or one comparison; the events *)
(* the board counts happen between any two steps.                          *)
(*                                                                         *)
(* EIO_FIELDS starts with the 16-bit status vector, so every 32-bit        *)
(* counter straddles two of the words the core is read in: the low half of *)
(* one counter shares a word with the high half of the one before.  Two    *)
(* counters and the marker keep that shape; the status vector, which       *)
(* counts nothing, is left out.  MAC_REGS is kept as two registers of one  *)
(* clear group and one of another.                                         *)
(***************************************************************************)
EXTENDS Integers, Sequences

CONSTANTS Base,         \* values of half a counter (2^16 on the board)
          MaxEvents,    \* bound on the events the board counts
          MaxFaults,    \* bound on the scans that fail
          ReadTries,    \* range(10) in read_eio
          SessionTries  \* tries=3 in retry

VARIABLES pc,      \* where the tool is
          build,   \* the bitstream on the board
          opts,    \* --clear, --pause
          attempt, \* attempt of retry
          reads,   \* whole reads this read_eio has made
          prev,    \* prev of read_eio
          raw,     \* the words of the read under way
          pcs,     \* what eio_session returned, or None
          mac,     \* what mac_session has read so far
          cleared, \* eio_session is past its clear
          idx,     \* register of MAC_REGS the session is at
          count,   \* the EIO counters of the board
          clear_on,\* EIO output bit 0 as the board holds it
          stat,    \* the MAC's statistics counters
          pause_on,\* PAUSE_CTRL[1]
          events, faults,  \* spent bounds
          since,   \* events of each counter since this run of the tool began
          untaken, \* registers whose clear in this MAC session did not take
          window,  \* values count had since the read under way / the one before began
          torn     \* a word of the two reads was captured while it changed

tool  == <<pc, opts, attempt, reads, prev, raw, pcs, cleared, mac, idx, faults>>
board == <<build, count, clear_on, stat, pause_on, events, since, untaken>>
ghost == <<window, torn>>
vars  == <<tool, board, ghost>>

Counters == {1, 2}
MacRegs  == 1 .. 3       \* tx_frames, rx_frames, rx_bad_frames
Group(r) == IF r = 1 THEN {1} ELSE {2, 3}
Marker   == "throughput"
None     == <<>>

lo(v) == v % Base
hi(v) == v \div Base

(* probe_in of zcu106_top.v as the host reads it, a word at a time. *)
Word(k, c) == CASE k = 1 -> <<lo(c[1])>>
                [] k = 2 -> <<hi(c[1]), lo(c[2])>>
                [] k = 3 -> <<hi(c[2]), build>>

(* The fields of a whole read: (raw >> lsb) & ((1 << w) - 1). *)
Fields(r) == [c |-> <<r[2][1] * Base + r[1][1], r[3][1] * Base + r[2][2]>>,
              marker |-> r[3][2]]

Zero == [c \in Counters |-> 0]

Init == /\ pc = "main" /\ opts = [clear |-> FALSE, pause |-> "none"]
        /\ attempt = 1 /\ reads = 0 /\ prev = None /\ raw = None
        /\ pcs = None /\ cleared = FALSE /\ mac = None /\ idx = 1
        /\ build = "throughput"
        /\ count = Zero /\ clear_on = FALSE
        /\ stat = [r \in MacRegs |-> 0] /\ pause_on = FALSE
        /\ events = 0 /\ faults = 0
        /\ since = [eio |-> Zero, mac |-> [r \in MacRegs |-> 0]]
        /\ window = <<{}, {}>> /\ torn = <<FALSE, FALSE>> /\ untaken = {}

-----------------------------------------------------------------------------
(* The board. *)

(* An event is counted unless the clear bit holds its counter at zero. *)
Counted(c) == IF clear_on THEN count ELSE [count EXCEPT ![c] = @ + 1]

Note(c) == window' = IF pc = "read" THEN <<window[1] \cup {c}, window[2] \cup {c}>>
                                    ELSE window

Event(c) == /\ pc # "main" /\ events < MaxEvents
            /\ events' = events + 1
            /\ count' = Counted(c)
            /\ since' = [since EXCEPT !.eio[c] = @ + 1]
            /\ Note(Counted(c))
            /\ UNCHANGED <<tool, build, clear_on, stat, pause_on, torn, untaken>>

MacEvent(r) == /\ pc # "main" /\ events < MaxEvents
               /\ events' = events + 1
               /\ stat' = [stat EXCEPT ![r] = @ + 1]
               /\ since' = [since EXCEPT !.mac[r] = @ + 1]
               /\ UNCHANGED <<tool, build, count, clear_on, pause_on, untaken, ghost>>

-----------------------------------------------------------------------------
(* retry: a failed session starts again, the last failure ends the tool. *)
Retry(first) == IF attempt = SessionTries
                THEN /\ pc' = "failed"
                     /\ UNCHANGED <<opts, attempt, reads, prev, raw, pcs, cleared, mac, idx>>
                ELSE /\ pc' = first
                     /\ attempt' = attempt + 1
                     /\ reads' = 0 /\ prev' = None /\ raw' = None
                     /\ pcs' = IF first = "connect" THEN None ELSE pcs
                     /\ cleared' = FALSE /\ mac' = None /\ idx' = 1
                     /\ UNCHANGED opts

EioPcs == {"connect", "read", "check", "set", "set_back", "drop", "drop_back"}
MacPcs == {"mac_connect", "mac_pause", "mac_clear", "mac_read", "mac_verify"}
Session == IF pc \in EioPcs THEN "connect" ELSE "mac_connect"

(* A scan that reports its failure: OSError or RuntimeError in the session. *)
ScanFails == /\ pc \in (EioPcs \cup MacPcs) \ {"check", "mac_verify"}
             /\ faults < MaxFaults
             /\ faults' = faults + 1
             /\ Retry(Session)
             /\ UNCHANGED <<board, ghost>>

Go(next) == /\ pc' = next
            /\ UNCHANGED <<opts, attempt, faults>>

(* main: the options, and eio_session first.  The board has some build, and *)
(* counters that have run; an earlier run of the tool that failed may have  *)
(* left the clear bit up.                                                   *)
Main(o, b, left) ==
  /\ pc = "main"
  /\ pc' = "connect"
  /\ opts' = o
  /\ build' = b
  /\ clear_on' = left
  /\ count' = IF left THEN Zero ELSE [c \in Counters |-> Base - 1]
  /\ stat' = [r \in MacRegs |-> 1]
  /\ UNCHANGED <<attempt, reads, prev, raw, pcs, cleared, mac, idx, faults, pause_on,
                 events, since, untaken, ghost>>

(* read_eio begins: no previous read. *)
StartRead == /\ reads' = 0 /\ prev' = None /\ raw' = None
             /\ window' = <<{count}, {count}>> /\ torn' = <<FALSE, FALSE>>

(* connect, and the width of the core: the loopback build's is another. *)
Connect == /\ pc = "connect"
           /\ IF build = "loopback" THEN Go("wrong") ELSE Go("read")
           /\ StartRead
           /\ UNCHANGED <<pcs, cleared, mac, idx, board>>

(* One word of read_inputs. *)
Capture == /\ pc = "read" /\ Len(raw) < 3
           /\ raw' = Append(raw, Word(Len(raw) + 1, count))
           /\ Go("read")
           /\ UNCHANGED <<reads, prev, pcs, cleared, mac, idx, board, ghost>>

(* The counters cross into TCK unsynchronized: a word captured while an    *)
(* event changes it holds any mix of the old and the new bits.             *)
CaptureOnEvent(c) ==
  /\ pc = "read" /\ Len(raw) < 3
  /\ events < MaxEvents
  /\ LET k == Len(raw) + 1
         old == Word(k, count)
         new == Word(k, Counted(c))
     IN /\ old # new
        /\ \E w \in {[old EXCEPT ![j] = v] : j \in {i \in DOMAIN old : old[i] # new[i]},
                                             v \in 0 .. Base - 1} :
             raw' = Append(raw, w)
  /\ events' = events + 1
  /\ count' = Counted(c)
  /\ since' = [since EXCEPT !.eio[c] = @ + 1]
  /\ Note(Counted(c))
  /\ torn' = <<TRUE, TRUE>>
  /\ Go("read")
  /\ UNCHANGED <<reads, prev, pcs, cleared, mac, idx, build, clear_on, stat, pause_on, untaken>>

(* Mutant: one whole read is enough. *)
CompareOnce == /\ pc = "read" /\ Len(raw) = 3
               /\ pcs' = Fields(raw) /\ Go("check")
               /\ UNCHANGED <<reads, prev, raw, window, torn, cleared, mac, idx, board>>

(* Two whole reads that agree are taken; ten that do not are an error. *)
Compare ==
  /\ pc = "read" /\ Len(raw) = 3
  /\ \/ /\ raw = prev
        /\ pcs' = Fields(raw) /\ Go("check")
        /\ UNCHANGED <<reads, prev, raw, window, torn>>
     \/ /\ raw # prev /\ reads + 1 < ReadTries
        /\ reads' = reads + 1 /\ prev' = raw /\ raw' = None
        /\ window' = <<{count}, window[1]>> /\ torn' = <<FALSE, torn[1]>>
        /\ Go("read")
        /\ UNCHANGED pcs
  /\ UNCHANGED <<cleared, mac, idx, board>>

GiveUp == /\ pc = "read" /\ Len(raw) = 3 /\ raw # prev /\ reads + 1 >= ReadTries
          /\ Retry("connect")
          /\ UNCHANGED <<faults, board, ghost>>

(* eio_session after read_eio: the build is checked before anything is      *)
(* written; the read after a clear is the one that is returned, and main    *)
(* calls retry again, for mac_session, with attempts of its own.            *)
Check == /\ pc = "check"
         /\ IF ~cleared /\ pcs.marker # Marker THEN Go("wrong")
            ELSE IF opts.clear /\ ~cleared THEN Go("set")
            ELSE pc' = "mac_connect" /\ attempt' = 1 /\ UNCHANGED <<opts, faults>>
         /\ UNCHANGED <<reads, prev, raw, pcs, cleared, mac, idx, board, ghost>>

(* write_outputs: it does not report a failed scan. *)
WriteOutputs(v) ==
  /\ \/ clear_on' = v /\ count' = (IF v THEN Zero ELSE count) /\ UNCHANGED faults
     \/ faults < MaxFaults /\ faults' = faults + 1 /\ UNCHANGED <<clear_on, count>>
  /\ UNCHANGED <<opts, attempt, reads, prev, raw, pcs, cleared, mac, idx, build, stat,
                 pause_on, events, since, untaken, ghost>>

SetClear  == pc = "set" /\ pc' = "set_back" /\ WriteOutputs(TRUE)
DropClear == pc = "drop" /\ pc' = "drop_back" /\ WriteOutputs(FALSE)

(* Mutant: the value is not read back. *)
NoReadBack(at, v, next) ==
  /\ pc = at /\ Go(next)
  /\ cleared' = (next = "read")
  /\ IF next = "read" THEN StartRead ELSE UNCHANGED <<reads, prev, raw, ghost>>
  /\ UNCHANGED <<pcs, mac, idx, board>>

(* eio_write reads the value back, and a difference fails the session. *)
ReadBack(at, v, next) ==
  /\ pc = at
  /\ \/ /\ clear_on = v /\ Go(next)
        /\ cleared' = (next = "read")
        /\ IF next = "read" THEN StartRead ELSE UNCHANGED <<reads, prev, raw, ghost>>
        /\ UNCHANGED <<pcs, mac, idx>>
     \/ clear_on # v /\ Retry("connect") /\ UNCHANGED <<faults, ghost>>
  /\ UNCHANGED board

-----------------------------------------------------------------------------
(* mac_session: the PAUSE switch, the clears, then the registers one by one. *)
MacStep == UNCHANGED <<reads, prev, raw, pcs, cleared, build, count, clear_on, events, since, ghost>>

MacConnect == /\ pc = "mac_connect"
              /\ IF opts.pause # "none" THEN Go("mac_pause")
                 ELSE IF opts.clear THEN Go("mac_clear") ELSE Go("mac_read")
              /\ idx' = 1 /\ mac' = None /\ untaken' = {}
              /\ MacStep /\ UNCHANGED <<stat, pause_on>>

(* A write that did not take, although its response was good, is what the *)
(* read of PAUSE_CTRL at the end is for.                                  *)
MacPause == /\ pc = "mac_pause"
            /\ pc' = IF opts.clear THEN "mac_clear" ELSE "mac_read"
            /\ \/ pause_on' = (opts.pause = "on") /\ UNCHANGED faults
               \/ faults < MaxFaults /\ faults' = faults + 1 /\ UNCHANGED pause_on
            /\ MacStep /\ UNCHANGED <<opts, attempt, idx, mac, stat, untaken>>

(* Any write to a counter clears its group.  Only the response of the write *)
(* is looked at: one that did not take although it was answered with good   *)
(* is not noticed, for the clears are not read back.                        *)
MacClear == /\ pc = "mac_clear"
            /\ \/ /\ stat' = [r \in MacRegs |-> IF r \in Group(idx) THEN 0 ELSE stat[r]]
                  /\ UNCHANGED <<faults, untaken>>
               \/ /\ faults < MaxFaults /\ faults' = faults + 1
                  /\ untaken' = untaken \cup {idx}
                  /\ UNCHANGED stat
            /\ IF idx = 3 THEN idx' = 1 /\ pc' = "mac_read"
                          ELSE idx' = idx + 1 /\ pc' = "mac_clear"
            /\ MacStep /\ UNCHANGED <<opts, attempt, mac, pause_on>>

MacRead == /\ pc = "mac_read"
           /\ mac' = Append(mac, stat[idx])
           /\ IF idx = 3 THEN idx' = 1 /\ Go("mac_verify")
                                    ELSE idx' = idx + 1 /\ Go("mac_read")
           /\ MacStep /\ UNCHANGED <<stat, pause_on, untaken>>

MacVerify == /\ pc = "mac_verify"
             /\ \/ /\ opts.pause # "none" => pause_on = (opts.pause = "on")
                   /\ Go("done") /\ UNCHANGED <<idx, mac>>
                   /\ MacStep
                \/ /\ opts.pause # "none" /\ pause_on # (opts.pause = "on")
                   /\ Retry("mac_connect")
                   /\ UNCHANGED <<faults, build, count, clear_on, events, since, ghost>>
             /\ UNCHANGED <<stat, pause_on, untaken>>

Options == [clear : BOOLEAN, pause : {"none", "on"}]

Builds == {"throughput", "loopback", "older"}

Next == \/ \E o \in Options, b \in Builds, left \in BOOLEAN :
             (b # "throughput" => ~left) /\ Main(o, b, left)
        \/ Connect \/ Capture \/ Compare \/ GiveUp \/ Check \/ ScanFails
        \/ \E c \in Counters : CaptureOnEvent(c) \/ Event(c)
        \/ \E r \in MacRegs : MacEvent(r)
        \/ SetClear \/ DropClear
        \/ ReadBack("set_back", TRUE, "drop")
        \/ ReadBack("drop_back", FALSE, "read")
        \/ MacConnect \/ MacPause \/ MacClear \/ MacRead \/ MacVerify

Spec == Init /\ [][Next]_vars

-----------------------------------------------------------------------------
Accepted == pc \in {"check", "mac_connect", "done"} /\ pcs # None

Moved(c) == LET V == {w[c] : w \in window[2]} IN
            \E a, b \in V : b - a >= Base

(* What read_eio returns was there.  Each counter, although it is read in   *)
(* two halves while it counts, had the value that is reported at an instant *)
(* of the two reads; and if no counter went round a half meanwhile, all of  *)
(* them had theirs at one instant.  Only a word captured in the very cycle  *)
(* of an event escapes this (sfp_counters.py 91-100).                       *)
ReadTrusted == (Accepted /\ torn = <<FALSE, FALSE>>) =>
                 /\ \A c \in Counters : \E w \in window[2] : w[c] = pcs.c[c]
                 /\ (\A c \in Counters : ~Moved(c)) => pcs.c \in window[2]

(* When --clear reports success, the numbers it prints count only events of *)
(* this run.  What is read back or read twice is so whatever scans failed   *)
(* silently: the EIO counters (unless a word of the read was captured in    *)
(* the very cycle of an event), and the clear bit, which is low again so    *)
(* that they run.  The clears of the MAC are not read back: a register is   *)
(* fresh unless every write of the session to its group was answered with   *)
(* good and yet did not take; one write of the group that took is enough,   *)
(* whatever other writes and sessions failed.  And a board with another     *)
(* build was never written (sfp_counters.py 103-155).                       *)
ClearIsFresh == /\ (pc = "done" /\ opts.clear) =>
                     /\ ~clear_on
                     /\ torn = <<FALSE, FALSE>> =>
                          \A c \in Counters : pcs.c[c] <= since.eio[c]
                     /\ \A i \in 1 .. Len(mac) :
                          mac[i] <= since.mac[i] \/ Group(i) \subseteq untaken
                /\ build # "throughput" => ~clear_on /\ pc \notin MacPcs \cup {"done"}
=============================================================================
