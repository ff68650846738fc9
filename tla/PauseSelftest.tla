---------------------------- MODULE PauseSelftest -----------------------------
(***************************************************************************)
(* rgmii_lb_selftest.py: the tap sweep and the PAUSE tests of the RGMII    *)
(* loopback self-test.  The script cannot see the MAC pause: it has its    *)
(* own clock around the JTAG writes and, at the end, max_gap, the longest  *)
(* time between two frames the MAC accepted (rgmii_lb_selftest.v 540-556). *)
(*                                                                         *)
(* Time is discrete and in units of the longest frame time's fraction      *)
(* 1/Frame.  A send write takes 0 .. Write ticks and the request leaves    *)
(* the host somewhere inside it.  The PAUSE frame then waits for at most   *)
(* the data frame on the wire, so it takes effect at once when TX is       *)
(* paused and within Frame ticks otherwise.  Writes are far longer than a  *)
(* PAUSE frame, so the fabric has done its CSR writes and the frame has    *)
(* come back before the next write (rgmii_lb_selftest.v 358-366).          *)
(*                                                                         *)
(* The MAC under test is one of:                                           *)
(*   good      the one the repository describes                            *)
(*   deaf      never pauses                                                *)
(*   stubborn  pauses although PAUSE_CTRL.rx_en is clear                   *)
(*   no_xon    a PAUSE frame with quanta 0 does not end the pause          *)
(***************************************************************************)
EXTENDS Integers, Sequences

CONSTANTS Full,      \* ticks of a 0xFFFF pause
          Frame,     \* ticks of the longest frame
          Margin,    \* ticks of the 1 ms the upper bound allows
          Quanta,    \* ticks of the --pause-quanta pauses that are tried
          Speeds,    \* values of --speeds: sequences of [hold, write], which are
                     \* XON_HOLD_S and the longest write in ticks of that speed
          Stalls,    \* how much longer than asked a sleep of the host may take
          Attempts,  \* range(1, 4) of pause_tests
          LastTap    \* 31

VARIABLES pc, mac_kind, quanta, todo,
          step,      \* position in the loop of the sweep, or of longest_run
          passing, best, cur, tap,
          failed,    \* fails is not zero
          counted,   \* the last XON report was made, at some speed
          void,      \* every attempt at some speed was void
          attempt,
          now,       \* the host's clock, from the first send write on
          on1,       \* end of that write
          prev0,     \* edges[-1][0]
          slack,     \* every margin so far is positive
          x,         \* <<x0, x1>>, the write of the Q = 0 frame
          stall,     \* the MAC's latest pause: [from, until, eff]
          longest    \* its longest pause that is over

search  == <<step, passing, best, cur, tap>>
options == <<mac_kind, quanta, todo, search>>
verdict == <<failed, counted, void>>
timing  == <<attempt, now, on1, prev0, slack, x, stall, longest>>
vars    == <<pc, options, verdict, timing>>

NoStall == [from |-> 0, until |-> 0, eff |-> 0]

Refresh == Full \div 8                       \* refresh_s
Hold    == Head(todo).hold
Write   == Head(todo).write
MIN_QUANTA == 4 * Frame

Larger(a, b)  == IF a > b THEN a ELSE b
Smaller(a, b) == IF a < b THEN a ELSE b

Init == /\ pc = "main" /\ mac_kind = "good" /\ quanta = 0 /\ todo = <<>>
        /\ step = 0 /\ passing = <<>> /\ best = <<>> /\ cur = <<>> /\ tap = -1
        /\ failed = FALSE /\ counted = FALSE /\ void = FALSE
        /\ attempt = 1 /\ now = 0 /\ on1 = 0 /\ prev0 = 0 /\ slack = TRUE /\ x = <<0, 0>>
        /\ stall = NoStall /\ longest = 0

-----------------------------------------------------------------------------
(* main refuses a pause too short for the checks to tell. *)
QuantaAccepted(q) == q >= MIN_QUANTA /\ q <= Full

(* main: the options of one run.  Without the sweep the PAUSE tests follow  *)
(* at each speed.                                                           *)
Main(kind, q, speeds) ==
  /\ pc = "main"
  /\ QuantaAccepted(q)
  /\ mac_kind' = kind /\ quanta' = q /\ todo' = speeds
  /\ pc' = "honored"
  /\ UNCHANGED <<search, verdict, timing>>

MainSweep == /\ pc = "main" /\ pc' = "sweep"
             /\ UNCHANGED <<options, verdict, timing>>

(* sweep: tap by tap, and the frames of its run come back clean or not. *)
SweepTap == /\ pc = "sweep" /\ step <= LastTap
            /\ \E ok \in BOOLEAN : passing' = IF ok THEN Append(passing, step) ELSE passing
            /\ step' = step + 1
            /\ UNCHANGED <<pc, mac_kind, quanta, todo, best, cur, tap, verdict, timing>>

SweepEnds == /\ pc = "sweep" /\ step > LastTap
             /\ step' = 1 /\ pc' = "runs"
             /\ UNCHANGED <<mac_kind, quanta, todo, passing, best, cur, tap, verdict, timing>>

(* Mutant: a gap does not end the run. *)
RunOnNoGap(run, t) == Append(run, t)

RunOn(run, t) == IF run # <<>> /\ t = run[Len(run)] + 1 THEN Append(run, t) ELSE <<t>>

(* longest_run: one passing tap. *)
LongestRun == /\ pc = "runs" /\ step <= Len(passing)
              /\ cur' = RunOn(cur, passing[step])
              /\ best' = IF Len(cur') > Len(best) THEN cur' ELSE best
              /\ step' = step + 1
              /\ UNCHANGED <<pc, mac_kind, quanta, todo, passing, tap, verdict, timing>>

(* The tap main takes: the middle of that run. *)
TakeTap == /\ pc = "runs" /\ step > Len(passing)
           /\ IF best # <<>>
              THEN tap' = best[Len(best) \div 2 + 1] /\ UNCHANGED failed
              ELSE failed' = TRUE /\ UNCHANGED tap
           /\ pc' = "swept"
           /\ UNCHANGED <<mac_kind, quanta, todo, step, passing, best, cur, counted, void, timing>>

-----------------------------------------------------------------------------
(* The MAC. *)

(* When a request raised at time r takes effect. *)
Effects(r, s) == IF s.until > r /\ r >= s.eff + Frame THEN {r}
                 ELSE {e \in r .. r + Frame : e >= s.eff}

(* The pause after a PAUSE frame of q ticks that takes effect at e: it      *)
(* replaces the one under way, or starts anew when that one has run out.    *)
Paused(s, e, q) == IF e <= s.until /\ s.until > s.from
                   THEN [s EXCEPT !.until = e + q, !.eff = e]
                   ELSE [from |-> e, until |-> e + q, eff |-> e]

Over(s, e) == IF e <= s.until THEN 0 ELSE s.until - s.from

Honors(q, rx_en) == CASE mac_kind = "deaf"     -> FALSE
                      [] mac_kind = "stubborn" -> TRUE
                      [] mac_kind = "no_xon"   -> rx_en /\ q # 0
                      [] OTHER                 -> rx_en

(* send_edge: the clock before and after the write, and its frame's effect. *)
SendEdge(q, rx_en, t0, t1) ==
  /\ now' = t1
  /\ IF Honors(q, rx_en)
     THEN \E r \in t0 .. t1 : \E e \in Effects(r, stall) :
            /\ stall' = Paused(stall, e, q)
            /\ longest' = Larger(longest, Over(stall, e))
     ELSE UNCHANGED <<stall, longest>>

(* max_gap once traffic stops at time t: the longest pause, cut short by    *)
(* the stop, give or take the frames at its two ends.                       *)
MaxGap(t) == LET p == Larger(longest, Smaller(stall.until, t) - stall.from)
             IN Larger(p - Frame, 0) .. p + Frame

Reset == /\ now' = 0 /\ on1' = 0 /\ prev0' = 0 /\ slack' = TRUE /\ x' = <<0, 0>>
         /\ stall' = NoStall /\ longest' = 0

-----------------------------------------------------------------------------
Abs(n) == IF n < 0 THEN -n ELSE n

HonoredOk(gap) == Abs(gap - quanta) <= 2 * Frame
IgnoredOk(gap) == gap <= 2 * Frame
Ok(check, gap) == IF check = "honored" THEN HonoredOk(gap) ELSE IgnoredOk(gap)

(* pause_tests, one(): send the pause, wait for it to end, stop, judge. *)
Sent(check, wait, rx_en) ==
  /\ pc = check
  /\ \E d \in 0 .. Write : SendEdge(quanta, rx_en, 0, d)
  /\ pc' = wait
  /\ UNCHANGED <<options, verdict, attempt, on1, prev0, slack, x>>

Judge(wait, check, next) ==
  /\ pc = wait
  /\ \E s \in Stalls : \E gap \in MaxGap(now + quanta + 3 * Frame + s) :
        failed' = (failed \/ ~Ok(check, gap))
  /\ pc' = next
  /\ Reset
  /\ UNCHANGED <<options, counted, void, attempt>>

(* xon_once.  The first send write starts the clock. *)
XonFirst == /\ pc = "xon"
            /\ \E d \in 0 .. Write :
                 /\ SendEdge(Full, TRUE, 0, d)
                 /\ on1' = d
            /\ prev0' = 0
            /\ pc' = "held"
            /\ UNCHANGED <<options, verdict, attempt, slack, x>>

(* The margin of this refresh: it takes effect before the pause of the one *)
(* before can run out.                                                      *)
Margins(n1) == slack /\ prev0 + Full - (n1 + 2 * Frame) > 0

(* t.write() lowers send, then the loop sleeps and refreshes. *)
XonRefresh == /\ pc = "held"
              /\ \E w \in 0 .. Write, s \in Stalls, d \in 0 .. Write :
                   LET t0 == Larger(now + w, prev0 + Refresh) + s
                   IN /\ now + w + Refresh < Hold
                      /\ SendEdge(Full, TRUE, t0, t0 + d)
                      /\ prev0' = t0
                      /\ slack' = Margins(t0 + d)
              /\ UNCHANGED <<pc, options, verdict, attempt, on1, x>>

XonLast == /\ pc = "held"
           /\ \E w \in 0 .. Write, s \in Stalls, d \in 0 .. Write :
                LET t0 == now + w + s
                IN /\ now + w + Refresh >= Hold
                   /\ SendEdge(Full, TRUE, t0, t0 + d)
                   /\ prev0' = t0
                   /\ slack' = Margins(t0 + d)
           /\ pc' = "release"
           /\ UNCHANGED <<options, verdict, attempt, on1, x>>

XonZero == /\ pc = "release"
           /\ \E w \in 0 .. Write, s \in Stalls, d \in 0 .. Write :
                LET t0 == now + w + s
                IN /\ SendEdge(0, TRUE, t0, t0 + d)
                   /\ x' = <<t0, t0 + d>>
                   /\ slack' = Margins(t0 + d)
           /\ pc' = "wait_xon"
           /\ UNCHANGED <<options, verdict, attempt, on1, prev0>>

(* The run goes on past the end of the last 0xFFFF pause. *)
StopTime == Larger(prev0 + Full, x[2]) + 3 * Frame

lo      == x[1] - on1 - 2 * Frame
hi      == x[2] + 2 * Frame + Margin         \* on0 = 0
ignored == prev0 + Full - on1 - 2 * Frame

(* Mutant: the last report is always made. *)
AlwaysTells == TRUE

Tells == ignored > hi

Valid == slack

XonVoid == /\ pc = "wait_xon"
           /\ ~Valid /\ attempt < Attempts
           /\ attempt' = attempt + 1
           /\ pc' = "xon" /\ Reset
           /\ UNCHANGED <<options, verdict>>

XonJudge == /\ pc = "wait_xon"
            /\ Valid \/ attempt = Attempts
            /\ \E gap \in MaxGap(StopTime) :
                 failed' = \/ failed \/ ~Valid
                           \/ ~(Valid /\ gap >= lo) \/ gap > hi
                           \/ Tells /\ ~(Valid /\ lo <= gap /\ gap <= hi)
            /\ counted' = (counted \/ Tells)
            /\ void' = (void \/ (~slack /\ attempt = Attempts))
            /\ attempt' = 1
            /\ todo' = Tail(todo)
            /\ pc' = IF Len(todo) = 1 THEN "done" ELSE "honored"
            /\ Reset
            /\ UNCHANGED <<mac_kind, quanta, search>>

Kinds == {"good", "deaf", "stubborn", "no_xon"}

Next == \/ \E kind \in Kinds, q \in Quanta, sp \in Speeds : Main(kind, q, sp)
        \/ MainSweep \/ SweepTap \/ SweepEnds \/ LongestRun \/ TakeTap
        \/ Sent("honored", "wait_honored", TRUE)
        \/ Judge("wait_honored", "honored", "ignored")
        \/ Sent("ignored", "wait_ignored", FALSE)
        \/ Judge("wait_ignored", "ignored", "xon")
        \/ XonFirst \/ XonRefresh \/ XonLast \/ XonZero \/ XonVoid \/ XonJudge

Spec == Init /\ [][Next]_vars

-----------------------------------------------------------------------------
(* The verdict is about the MAC, never about the host.  Without a failed    *)
(* check the MAC pauses and heeds rx_en, and with the Q = 0 report counted  *)
(* at some speed it also resumed because of the Q = 0 frame, never because  *)
(* the last 0xFFFF pause had run out.  And a good MAC is never blamed for a *)
(* slow host: it passes every check unless all attempts at some speed were  *)
(* void, however long the writes and sleeps took (rgmii_lb_selftest.py      *)
(* 239-329).                                                                *)
PauseVerdict ==
  /\ (pc = "done" /\ ~failed) => /\ mac_kind \notin {"deaf", "stubborn"}
                                 /\ counted => mac_kind = "good"
  /\ (mac_kind = "good" /\ pc # "swept" /\ failed) => void

(* The sweep settles on the middle of an eye, a run of taps that all pass,  *)
(* and no eye is wider; only if no tap passes it fails and leaves the tap   *)
(* alone.  So a tap next to the one it takes passes as well wherever the    *)
(* link has an eye of three taps at all (rgmii_lb_selftest.py 194-207,      *)
(* 332-338, 373-388).                                                       *)
TapIsCentred ==
  LET Passes    == {passing[i] : i \in DOMAIN passing}
      Eye(a, b) == a <= b /\ a .. b \subseteq Passes
  IN  pc = "swept" =>
        IF Passes = {} THEN failed /\ tap = -1
        ELSE \E a, b \in Passes :
               /\ Eye(a, b) /\ tap = a + (b - a + 1) \div 2
               /\ \A c, d \in Passes : Eye(c, d) => d - c <= b - a
=============================================================================
