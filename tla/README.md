# emacZero: specifications, model checks and proofs

emacZero is a 10/100/1000 Ethernet MAC in Verilog (with a VHDL twin), a register
block, a Linux driver and a bare-metal driver, with the Python tools that judge it:
board self-tests, monitors and benchmarks on the host, and the reference models and
runners of the simulation. This directory models the parts whose correctness depends
on an order of events nobody can enumerate by hand: clock-domain crossings, streams
under back-pressure, a bus with two masters, the five activities that share the Linux
driver's transmit ring, and the host scripts, whose verdict on the hardware depends on
what the board, the cable and the operating system did between two of their reads. TLC
checks the models on small instances; TLAPS proves the theorems for every value of the
constants.

Contents: 1 the system, 2 the modules, 3 the runs, 4 bounds, 5 fairness,
6 the proofs, 7 what the checks found, 8 what is not modelled, 9 the plan.

## 1. The system

| Part | State it keeps | Operations | What is hard | What makes it correct |
|---|---|---|---|---|
| `sync_fifo` | memory, two wrapping pointers, output register | push, pop, both | push into a full memory while a slot is freed | it is a queue with a first-word-fall-through output |
| `async_fifo` | memory, two pointers, two pairs of synchronisers, output stage | write edge, read edge, both at once | each side sees the other late, and torn when edges coincide | it is a bounded queue; views lag but never lead; nothing is stuck |
| `eth_mac_rx` | FSM, byte counter, 6-byte delay pipe, verdict flags, output FIFO | one clock edge per line byte | the line cannot wait, the sink may | framing survives back-pressure; a clean frame is whole; counts match deliveries |
| `gmii_cdc` (RX) | write registers, FIFO, frame toggle, pending count, one-byte hold | media edge, system edge | toggle and data cross on different paths; the media clock stops | frames are not merged, split or silently damaged; all drain |
| `gmii_cdc` (TX) | FIFO, committed-frame counters | same | counters compared across clocks | not modelled yet |
| `eth_mac_tx` | FSM, counters, held first byte, CRC, registered `tready` | one clock edge | `tx_start_ok` falls as the first byte is taken; underrun; limits | what leaves without `tx_er` is one source frame, padded, with FCS; the gap holds |
| `eth_pause_rx`, `eth_pause` | parser, toggle, quanta register, timer, prescaler | PHY edge, system edge | the quanta register crosses without a synchroniser | a pause lasts as long as its own frame said |
| `axilite_regs` | AXI handshake registers, CSRs, IRQ latch, pulses | one write, one read per transaction | address and data in any order; events during a W1C | each write executes once; reads answer their reader |
| `axil_arb2` | a grant per direction | grant, release | grant moves with transactions outstanding | responses go to the right master; the processor does not starve |
| `mdio_master` | bit-level frame FSM | start, shift | `busy` rises a cycle after GO | a GO accepted is performed; a read returns its own answer |
| `eth_mac_sys` gates | enable as applied, part-way flag | one clock edge | software clears `tx_en`/`rx_en` inside a frame | whole frames only; valid is not withdrawn; the setting is applied in the end |
| Linux driver, TX | ring indices, slots, queue state, BQL, reset gate, work, NAPI, watchdog | xmit, poll, DMA callback, rebuild, watchdog, timeout | lock-free hand-offs between all of them | no lost wake-up, no lost recovery, no slot reused after a failure |
| Linux driver, statistics; `eth_stats` | saturating counters, 64-bit totals, delayed work | count, fold, read | a counter is read and then cleared | totals differ from the truth only by what was counted in between |
| `mii_tx_saf` | FIFO with committed-frame count, framer on the media clock | take a byte, synchronise, send a byte | count and bytes cross separately; a frame without end | the wire shows what the reference model predicts; it never wedges |
| `csum_calc`, `tx_csum_off` | header fields, three sums, a pipeline | one byte per clock | decisions in passing; the next frame is right behind | the result is that of a checksum over the whole packet |
| `sfp_counters.py` | what two reads returned, the retry counts | connect, read words, clear, read back | counters straddle scan words; scans and writes fail silently | a reported value was there; what a clear that took leaves is this run's |
| `rgmii_lb_selftest.py`, `gmii_lb_selftest.py` | control bits, counters as read, host timestamps | sweep, clear, run, stop, judge; PAUSE tests | the host is slow at any point; an earlier run died | the verdict is about the MAC and about this run |
| `serial_monitor.py` | last line of each name | read lines, judge, ping | the board resets while it is read | a pass is about one boot |
| `udp_throughput.py` | samples of a monitor thread | baseline, send, settle, judge | the last packets arrive after the sender ended, lines are lost or misread | the verdict is about this test |
| `run_hw_regression.py`, `udp_iperf_stats.py` | sockets, replies | probe, clear, send, get | datagrams are lost or late | a profile is judged by its own packets |
| `linux_bench.py` | snapshots before and after | snapshot, iperf3, compare | the driver folds while the script reads | counts that differ have a cause in the driver or the test |
| `sim/cocotb/lib` models | expected frames, records and checksums | predict, compare | they are what the random suites trust | they agree with the blocks |
| `sim/cocotb/run.py`, `sim/parity/run_all.py` | job list, thread pool, return codes | discover, run, collect | files that cannot be read; processes that do not start; two builds in one directory | exit code 0 means that everything ran, on its own files, and passed |
| `mii_if`, `rgmii_if`, L3 responders, LiteX wrapper, FPGA tops, the rest | | | | section 8 |

How they interact. Frames arrive through an interface block and `gmii_cdc` into
`eth_mac_rx`, whose AXI-Stream passes the RX gate of `eth_mac_sys` to the DMA.
Frames leave through the TX gate, `eth_mac_tx` (held off by `tx_start_ok`, which
`eth_pause` and `gmii_cdc` drive), `gmii_cdc` and the interface block. Software
reaches everything through `axilite_regs`, on the boards behind `axil_arb2`; the
PHY is reached through `mdio_master`, started by a CSR pulse. The Linux driver
talks to a dmaengine provider for both streams and to the CSRs. The host scripts see
the boards through JTAG (self-tests, counters), a UART (monitor, throughput), UDP
(regression) or a shell (benchmark), never the MAC itself: what they conclude depends
on the timing of those channels. The cocotb suites drive one block each and score it
against the models in `sim/cocotb/lib`.

`PROJECT.json` lists every part, its sources, and 40 places in the code that
tests would hardly reach, each with the property that watches it.

## 2. The modules

One step of an RTL module is one clock edge (of one domain or of both); all the
registers of a domain move together, as in the `always` blocks. One step of the
driver model is one access to a shared word, or a stretch of code nothing can
come between; one step of a host script is one access to the board or one decision
between two of them, with the board's own steps in between. Bytes are represented by their position in their frame, so that
loss, duplication and reordering are visible, and a CRC by the number of bytes
folded into it.

| Module | Models | Remarks |
|---|---|---|
| `RingPointers` | pointer arithmetic of both FIFOs | `ADDR_WIDTH+1` bit counters |
| `FwftFifo` | abstract | what `sync_fifo` promises; used by `EthMacRx` |
| `SyncFifo` | `sync_fifo.v` | implements `FwftFifo`; proved in `StreamBlocksProofs` |
| `GrayCode` | `bin2gray`, `gray2bin`, the full test | plus `Mixed`, what a flip-flop bank catches of a changing code |
| `BoundedQueue` | abstract | what `async_fifo` promises |
| `CdcFifo` | abstract | a queue with two lagging views; used by `GmiiCdcRx` |
| `AsyncFifo` | `async_fifo.v` | implements `BoundedQueue` and `CdcFifo`; both RAM styles (`Block`); the coding is a parameter |
| `CrossingFifo`, `MCAsyncFifo` | `async_fifo.v` beside the other blocks, with `GrayAssumption` and its two clocks | proved in `StreamBlocksProofs`; `MCAsyncFifo` gives it the coding of `GrayCode` |
| `EthMacRx`, `EthMacRxProofs` | `eth_mac_rx.v` | address, CRC and checksum verdicts are inputs |
| `GmiiCdcRx`, `GmiiCdcRxProofs` | receive half of `gmii_cdc.v` | |
| `EthMacTx`, `EthMacTxParams` | `eth_mac_tx.v` | the source is modelled as a legal AXI-Stream master; proved in `StreamBlocksProofs`; the parameters and their assumption have a module of their own, which the run extends |
| `EthPause`, `EthPauseProofs` | `eth_pause_rx.v`, receive half of `eth_pause.v` | both clock domains |
| `AxilArb2`, `AxiliteRegs` | the files of these names | operators for one edge of each |
| `CsrBus`, `MCCsrBus`, `CsrBusProofs` | composition | masters, arbiter (or none), registers, MDIO busy flag, MDIO transaction |
| `StreamGate` | TX and RX gates of `eth_mac_sys.v` | `drains` says which of the two |
| `EmzTx`, `EmzTxProofs` | TX side of `emaczero.c` | names and places follow the C functions |
| `StreamBlocks`, `StreamBlocksProofs` | sum of `StreamGate`, `EthMacTx`, `SyncFifo` | see below |
| `MiiTxSaf` | `mii_tx_saf.v`, `lib/model.py`, `lib/eth.py`, `lib/mii_monitor.py` | the block, its monitor, and `saf_expected` as the reference |
| `CsumCalc` | `csum_calc.v`, `tx_csum_off.v`, `lib/csum.py` | the engine register by register, the cut, flush and patches of `tx_csum_off`; `Frame` and `Expect` are the builder and the reference |
| `SuiteRunner` | `sim/cocotb/run.py`, `sim/parity/run_all.py` | children write a directory, then give a verdict on what is there |
| `SimModels`, `MCSimModels`, `SimModelsProofs` | sum of the three above | |
| `SfpCounters` | `sfp_counters.py`, counter block of `zcu106_top.v` | both sessions, retries, clear and read-back |
| `PauseSelftest` | sweep and PAUSE tests of `rgmii_lb_selftest.py` | discrete time; four MACs, one good and three with a defect |
| `LbSelftest` | traffic runs of `gmii_lb_selftest.py` and `rgmii_lb_selftest.py`, generator and checker of the self-test blocks | runs follow runs that died |
| `StatsBench` | `linux_bench.py`, statistics of `emaczero.c`, `eth_stats.v` | three counters in two clear groups |
| `UartMonitor` | `serial_monitor.py`, boot output of `test_sequencer.v` | resets at any line |
| `UdpThroughput` | `udp_throughput.py`, counter dump of `test_sequencer.v` | sender, monitor thread, main |
| `UdpRegression` | `run_hw_regression.py`, `udp_iperf_stats.py`, half of `udp_bidirectional_test.py`, the sink and the reply block | lossy network |
| `HostTools`, `MCHostTools`, `HostToolsProofs` | sum of the seven above | |

A *sum* module puts components side by side that share no state and never run at once:
a variable says which of them runs, and the others keep their initial values. It says
nothing about their interaction, because there is none; it lets one run check them with
one set of constants. The components' own modules state what they do, and the sum only
names their properties.

Variables keep the names of the registers and fields; a definition marked
*history* in its comment only observes. A definition whose comment begins with
"Mutant:" is a plausible wrong version of the one after it. It is not used by any
specification: it is there so that one can put it in its place and see the
property that is supposed to notice fail. Every property of a passing run has one
(`PROJECT.json`, `mutants`).

Refinements: `SyncFifo => FwftFifo`, `AsyncFifo => BoundedQueue`,
`AsyncFifo => CdcFifo`. The modules that contain a FIFO are built on the abstract
one, so that their state spaces hold queues and not pointers. Three modules hold the
repository's own reference model beside the block it is the reference of: `EthMacRx`
(`rx_expected`), `MiiTxSaf` (`saf_expected`) and `CsumCalc` (`Expect`).

Choices of the environment that are worth knowing:

* **Coinciding edges.** In `AsyncFifo` a register sampled as it changes yields, per
  bit, the old or the new value. `EthPause` does the same for the quanta register,
  which has no Gray code to protect it.
* **`GmiiCdcRx`** assumes `MinGap` media edges between frames and at most `MaxRatio`
  media edges between two system edges. The line keeps a gap, and `eth_mac_sys.v`
  refuses to elaborate a build that can run at 1G with a system clock below the media
  clock's 125 MHz (lines 21-27, 434).
* **`CsrBus`**: master 0 is a processor running `emz_mdio_read` (one access at a
  time), master 1 a JTAG bridge that may write and read at once. `arbitrated` is
  fixed at the start: both wirings of the boards are covered. The MDIO transaction
  takes any number of cycles. The MDIO registers are *not* serialised in hardware:
  two masters that both use them can mix up their commands, so
  `MdioReadsOwnResult` is about a call during which the other master left
  `MDIO_CMD` alone.
* **`EmzTx`**: queue state, NAPI states, BQL and the dmaengine provider are external
  and modelled as the driver uses them. A kernel of 6.12 or later restarts the TX
  timeout when a queue is stopped, so no timeout falls into a rebuild;
  `napi_disable` lets a poll that used up its budget complete. `CtlEnable` takes
  `datapath_up`, the queue's wake and the watchdog's arming in one step: `rtnl` keeps
  other rebuilds out, and what runs between them finds the queue stopped.
* **`PauseSelftest`**: a write takes between no time and `write` ticks of its speed, the
  request leaves the host anywhere in it, and the host may stall before any step. The
  PAUSE frame waits for the data frame on the wire and not longer. The data-frame and
  `pause_ok` checks the script makes on the way are those of `LbSelftest`.
* **`LbSelftest`**: the sleeps after clear and stop outlast what is in flight (`Drained`).
* **`UdpThroughput`**: the 1.5 s before the last counters are taken outlast one dump of the
  board (`Settled`), but not the packets that are still on their way, which may arrive at
  any time. Both are the scripts' assumptions too; they are named definitions, and the
  mutants of `LoopVerdict` and `OverflowVerdict` drop them.
* **`StatsBench`**: nothing but the benchmark's own frames is on the link; over ssh on the
  interface under test the script itself calls the comparison approximate.
* **`MiiTxSaf`**: a synchroniser stage that samples while its input changes keeps the old
  value or takes the new one, each synchroniser on its own.
* **`CsumCalc`**: `PacketsAssumption`, evaluated by TLC, says that the packets are ones the
  builder makes and that each alternative `random_packet` and `random_opts` draw is
  among them.
* **`SuiteRunner`**: `RunAssumption` says that the test files declare finitely many suites
  and that putting `vhdl_` before two names gives two names. The command line is free.

## 3. The runs

| Run | Module, cfg | Checks |
|---|---|---|
| `async_fifo` | `MCAsyncFifo`, `AsyncFifo.cfg` | `ImplementsFifo`, `NothingStuck` |
| `eth_mac_rx` | `EthMacRx` | `FifoFraming`, `DeliveredAsCounted`, `EveryFrameCloses` |
| `gmii_cdc_rx` | `GmiiCdcRx` | `FramesKeptApart`, `FlaggedIffDamaged`, `EveryFrameDrains` |
| `eth_pause` | `EthPause` | `PauseFullLength`, `PauseTakesItsOwnFrame`, `PauseActsAndEnds` |
| `csr_bus` | `MCCsrBus`, `CsrBus.cfg` | `EachAccessAnswered`, `MdioReadsOwnResult`, `GoNeverLost`, `ProcessorWaitsOnce` |
| `stream_blocks` | `StreamBlocks` | gates: `WholeFrames`, `ValidKept`, `SettingApplied`; framer: `WireFrameExact`, `GapKept`, `FrameEnds`; FIFO: `ImplementsQueue` |
| `emz_tx` | `EmzTx` | `RingConsistent`, `RebuildSound`, `FullQueueHasWaker`, `FailedSlotNotReused` |
| `emz_tx_live` | `EmzTx`, `EmzTxLive.cfg` | `HaltRecovered` |
| `sim_models` | `MCSimModels`, `SimModels.cfg` | `WireIsReference`, `SafDrains`, `ChecksumAsReference`, `GreenMeansAllRan` |
| `host_tools` | `MCHostTools`, `HostTools.cfg` | `ReadTrusted`, `ClearIsFresh`, `PauseVerdict`, `TapIsCentred`, `VerdictExplained`, `LoopVerdict`, `PassIsOneBoot`, `OverflowVerdict`, `CountsOwnPackets` |
| `csr_bus_irq` | `MCCsrBus`, `CsrBusIrq.cfg` | `EventsStayLatched`: violated, section 7 |
| `emz_tx_stop` | `EmzTx`, `EmzTxStop.cfg` | `EveryStopIsPaired`: violated, section 7 |

Some properties join parts that are stated apart in their module: `FifoFraming` is
`NeverOverflows` and `FramingIntact`; `DeliveredAsCounted` is `CleanMeansWhole`,
`DoneMatchesDelivery` and `ScoredAsReference`; `RebuildSound` is `RecoveryKept` and
`QuietDuringRebuild`; `ImplementsFifo` is the two refinements of `AsyncFifo`.

What they show, beyond the one-line statements in the modules:

* **The FIFOs.** With stale and torn pointers the asynchronous FIFO is still one
  queue, and the view each side has of the other is never ahead of the truth. The
  Gray code is what makes it so: `GrayAssumption`, evaluated by TLC on the code's own
  functions, says that a torn sample is the old or the new pointer. The run's FIFO has
  pointers of three bits; `SourceCodesAreGray` asks the same of every width up to
  eight, the width of the control FIFO of `gmii_cdc`.
* **`eth_mac_rx`.** The mark at `Depth - 4` leaves room for the word in the push
  register and the closing words, whatever the sink does; a stalled sink costs bytes,
  never framing, and the frame that lost them closes with `terror`. `byte_cnt` stops
  at its maximum, so a carrier that never ends cannot re-open the address decision
  nor pass as a clean length. Every frame that met no full FIFO gets the verdict, the
  last byte and the length `lib/rx_model.py` expects, runts apart (section 7).
* **`gmii_cdc` receive.** The reserve of two words covers the registered
  `rx_data_room`; the toggle path always arrives after the data it announces, and the
  pending count equals the EOF words in the FIFO, with those in transit.
* **`eth_mac_tx`.** A first byte accepted as `tx_start_ok` falls is kept and sent. A
  frame that leaves without `tx_er` is a whole source frame, except that after a frame
  that did show `tx_er` the rest of the aborted source frame is sent as a frame of its
  own; the code's comments accept that.
* **`eth_pause`.** The quanta register may be sampled while it changes only if the
  next frame's header is shorter than the synchroniser's delay; the real header takes
  16 byte times. `HeaderLen = 1` breaks `PauseTakesItsOwnFrame`, `HeaderLen = 2` with
  a media clock as fast as the system clock does not.
* **The register bus.** A GO that is accepted finds the MDIO master idle, so
  `mdio_busy_r` has no window. The processor waits for at most one access of the
  bridge.
* **The gates.** A write to `CTRL` never cuts a frame, and is still applied although
  frames follow each other without a gap.
* **The driver.** The stop on the last slot is paired with a second look; every
  failure closes the gate and has its rebuild queued; the watchdog is armed whenever
  the datapath is up, unless a rebuild is coming; a stopped channel is rebuilt even if
  it never reports a failed descriptor.
* **`mii_tx_saf`.** The count passes one stage more than the write pointer, so a frame
  that can be seen can be read; with one stage the framer reads past what has arrived.
  The forced cut at `MAX_FRAME` comes before the FIFO is full, so a source that never
  sends TLAST cannot stop it.
* **The checksum engine.** Fed byte by byte, with pauses anywhere while its pipeline moves
  and a second frame over the registers the first left, it inserts and judges what the
  reference computes from the whole packet. The flush of three clocks is exactly what
  the pipeline needs: with two the inserted L4 sum is the one before.
* **The runners.** A file that cannot be read or a suite declared twice turns a full run
  red, and green means that each suite ran in each language it has. With one job at a
  time, or with the names of a command line given once and none of them another one's
  with `vhdl_` before it, every verdict is on the files the job itself wrote. The
  runners check neither, and the models take command lines that break both (section 7).
* **`sfp_counters.py`.** Two equal reads are needed although one would do for each scan
  word: a counter that carries into its high half between two words shows a value it
  never had. The read-back of the EIO's clear bit is what notices a write that failed
  silently. The clears of the MAC are not read back; there the run shows what they are
  worth: a counter is fresh as soon as one write of the session to its group took.
* **The PAUSE tests.** Host timestamps around each write are enough to void an attempt in
  which a pause may have run out, and the `Tells` rule to leave the Q = 0 verdict open
  where the pause's own end would look the same; without it a MAC that ignores Q = 0
  passes.
* **The other scripts.** Clearing before the run and draining after it makes the loopback
  verdict about this run although an earlier one died with traffic on; a differing
  count in the benchmark is a dropped frame or one counted while the driver folded; a
  line of an earlier boot enters a pass only where the new boot's own line was damaged;
  a late answer never counts because each query has a socket of its own.

## 4. Bounds and why they are enough

Each bound has a name, in CONSTANTS, with a comment that says what it is in the code.

* `async_fifo`: depth 4, two words. Four words make a Gray pointer of
  three bits, so wrap-around, full, empty and a code change in each bit occur,
  and two different words make a swap visible.
* `eth_mac_rx`: depth 6 (mark at 2), the shortest frame 7, standard limit 6 (+4 with a
  VLAN tag), jumbo limit 9, `byte_cnt` stops at 11 and the line carries up to 13
  bytes: every boundary is crossed by one run, and a second frame meets what the
  first left in the FIFO. `DstLen` is the code's 6.
* `gmii_cdc_rx`: depth 4 (room at 2), two frames of up to two bytes: the first
  fills the FIFO, the second finds it full. Delay 2 stands for 8; what matters is that
  it is longer than the data's own crossing. One media edge per system edge.
* `eth_pause`: header of two bytes, shortest frame 4, two clocks per quantum, quanta of
  two one-bit digits, so that a torn sample differs from both values. The counter of
  PAUSE frames saturates at once (`MaxCnt = 0`): nothing else reads it.
* `csr_bus`: one PHY register, bridge writes to `CTRL` and GO, bridge reads of `CTRL`.
  A call whose result is a previous one's shows because `cmd_rdata` starts empty and
  the bridge's own command names another register.
* `stream_blocks`: for the gate, frames of up to ten beats; the state space does not
  depend on it beyond three, and the proof does not at all. For the framer, preamble, gap
  and underrun limit are the code's; the shortest frame is 6 and the limit 9, sources
  send up to 12 bytes: padding by none, one and several bytes, and frames at, below and
  above the limit occur. For the FIFO, depth 4 and two words.
* `emz_tx`: a ring of 2 with free-running indices modulo 4, so that indices wrap
  between and inside rebuilds; one watchdog tick (with one, a tick without carrier
  leaves the same states, so carrier is on). `emz_tx_live`: a ring of 1 and two
  ticks, with carrier, which is what the watchdog needs to see.
* `sim_models`: a FIFO of 4 with frames cut at 3 and padded to 2, five bytes with TLAST
  anywhere, one control frame, two changes of the gate: two frames, one of them cut, are
  in flight at once. Checksum: the offsets, widths and values are the code's; about 180 packets,
  each alone and after one that leaves the option, fragment and family registers
  set. Runners: three suites in two files, one of them without VHDL, with a suite
  declared twice or a file that cannot be read, and one named `vhdl_` of another; command
  lines with no name, one, two, one name twice, and a pair that meets in a directory; `-j`
  of 0 to 2. Modules: three, of two commands each.
* `host_tools`: `sfp_counters`: halves of a counter of two values, two events, two failed
  scans, three reads and two sessions. PAUSE: a full pause is eight frame times, stalls of
  0 and 5, a speed at which it can be refreshed twice and one at which the writes are as
  long as the refresh; two attempts of three. Taps: 0 to 5, any of them good. Benchmark:
  counters that saturate at 3 and fold from 2, three frames. Loopback: five frames, two
  of them hurt, one failed access, two tries of five, two speeds. Monitor: one
  identification line for the five, two boots, one damaged line. Throughput: two packets,
  counters to 2, four dumps, one garbled line, the last four lines for the last eight.
  Regression: five queries, two packets per profile, one may be lost.

No state constraint and no symmetry is used. The deadlock check is on for the hardware
and the driver: each model has a clock that can always tick, or an interface that can be
opened again. It is off in `sim_models` and `host_tools`, where scripts end and
transmissions come to the end of their stimulus.

## 5. Fairness

* `async_fifo`: both clocks run. An edge that coincides with one of the other domain
  counts, so nothing is assumed of their phase.
* `eth_mac_rx`: the clock runs and the sink is ready again and again. The line may be
  silent, or never stop.
* `gmii_cdc_rx`: the system clock runs, in or out of phase with the media clock, which
  may stop for ever after any edge.
* `eth_pause`: the system clock runs; the PHY's may stop.
* `stream_blocks`: the clock runs; nothing is assumed of the framer's source or of
  `tx_start_ok`. Around the gate, the upstream stream ends the frames it starts, the
  downstream is ready again and again (SF, since each is a choice of every edge).
* `emz_tx_live`, `emz_tx_stop`: code that has started runs on; the workqueue, NAPI and the
  watchdog's timer run what is scheduled; a channel that has not stopped completes.
  Strong fairness is used twice: the queue's lock is a queued spinlock, so
  `netif_tx_disable` gets it although frames keep coming, and a batch of frames has a
  last one. Neither the stack's TX timeout, nor a frame, nor an error is assumed to
  come.
* `sim_models`: for the transmitter, both clocks run and the source goes on as long as its
  bytes are taken; nothing is assumed of the gate or of control frames.
* `csr_bus`, `emz_tx` and `host_tools` are safety only: the scripts have their own timeouts,
  which are steps.

## 6. Proofs

All are `Spec => []Inv`, `Spec => [][A]_vars` or a refinement, from the named assumptions
on the constants in the component's module, for every FIFO depth, ring size, limit and
frame length that satisfies them.

| Property | Theorem | Invariant |
|---|---|---|
| `FifoFraming` | `EthMacRxProofs.RxFifoFraming` | `RxInv` |
| `DeliveredAsCounted` | `EthMacRxProofs.RxDeliveredAsCounted` | `DeliveryInv` |
| `WholeFrames`, `ValidKept` | `StreamBlocksProofs.GateShowsWholeFrames`, `GateKeepsValid` | `GateInv` |
| `WireFrameExact` | `StreamBlocksProofs.FramesLeaveExact` | `LineInv`, `WireInv` |
| `GapKept` | `StreamBlocksProofs.GapNeverShort` | `LineInv` |
| `ImplementsQueue` | `StreamBlocksProofs.FifoImplementsQueue` | `PointersInv` |
| `ImplementsFifo` | `StreamBlocksProofs.CrossingImplementsFifo`, also `CrossingShowsQueue` | `SidesInv` |
| `PauseFullLength` | `EthPauseProofs.PauseLastsFully` | `PauseInv` |
| `PauseTakesItsOwnFrame` | `EthPauseProofs.PauseLoadsItsOwn` | `LoadInv` |
| `GoNeverLost` | `CsrBusProofs.GoAlwaysStarts` | `GoInv` |
| `EachAccessAnswered` | `CsrBusProofs.AccessesAnswered` | `BusInv` |
| `ProcessorWaitsOnce` | `CsrBusProofs.ProcessorFirst` | `BusInv`, `OvertakenInv` |
| `MdioReadsOwnResult` | `CsrBusProofs.MdioReadIsOwn` | `BusInv`, `CallInv` |
| `RebuildSound` | `EmzTxProofs.RebuildIsSound` | `IndInv` |
| `FailedSlotNotReused` | `EmzTxProofs.FailedSlotStaysOut` | `IndInv`, `FailedClosesGate` |
| `RingConsistent` | `EmzTxProofs.RingStaysConsistent` | `IndInv`, `RingInv` |
| `FullQueueHasWaker` | `EmzTxProofs.FullQueueIsWoken` | these, `ToldInv`, `FullInv` |
| `FramesKeptApart` | `GmiiCdcRxProofs.FramesStayApart` | `FlowInv`, `StreamInv` |
| `FlaggedIffDamaged` | `GmiiCdcRxProofs.DamageIsFlagged` | these, `ErrInv` |
| `CountsOwnPackets` | `HostToolsProofs.ProfileCountsOwn` | `RegInv` |
| `OverflowVerdict` | `HostToolsProofs.OverflowIsOwn` | `ThrInv` |
| `VerdictExplained` | `HostToolsProofs.BenchIsExplained` | `StatsInv` |
| `LoopVerdict` | `HostToolsProofs.LoopIsOwnRun` | `LbInv` |
| `PassIsOneBoot` | `HostToolsProofs.PassIsOwnBoot` | `UartInv` |
| `ReadTrusted`, `ClearIsFresh` | `HostToolsProofs.ReadsAreTrusted`, `ClearsAreFresh` | `SfpInv` |
| `TapIsCentred` | `HostToolsProofs.SweepTakesTheMiddle` | `SweepInv` |
| `PauseVerdict` | `HostToolsProofs.VerdictIsTheMacs` | `PauseInv` |
| `WireIsReference` | `SimModelsProofs.WireAsPredicted` | `SafInv` |
| `GreenMeansAllRan` | `SimModelsProofs.GreenRunRanAll` | `RunInv` |

**`EthMacRxProofs`.** `NeverOverflows` is not inductive: a full FIFO is only avoided
because of what was pushed since it passed the mark. `Headroom` bounds the stored words
and the word in the push register together by `Depth - 2`, and by `Depth - 3` while a
frame is open, whose closing word is still to come; `StartedInv` says what an open frame
is: it passed the filter, its address is complete and its end has not been seen.
`FramingIntact` is inductive with these: `Framed(mid, s, open)` is kept when a word is
appended that fits `open` (`FramedAppend`) and when the sink takes the first
(`FramedTail`); no word is lost on the way because the FIFO does not overflow.
`DeliveredAsCounted` needs more: `PosInv` ties the delay pipe to the position on the line
(the byte pushed is the one six places back), and `WholeInv` says of the stream still to
be read, FIFO and push register together, that every frame closed clean in it continues
where the sink is and has all its bytes, and that the open one has, until the first
overflow. `StatInv` is then a matter of one edge.

**`StreamBlocksProofs`.** Each step of `BlocksNext` is a step of one block and a stutter of
the others (`GateRuns`, `TxRuns`, `FifoRuns`), so that every theorem is about
`BlocksSpec`, as the run is. *The gates*: `GateInv` says that `mid` holds iff the gate took
part of a frame; the beat offered is the next one; downstream has all of the current frame
if the gate is open and nothing of it if it is closed. The last part is the reason for the
circuit and what a change of the bit could break: `Follow` moves only where both are the
same. *The FIFO*: the pointers run modulo twice the depth, and the abstract queue is the window of the memory
between them. `PointersInv` adds to the types that the pointers are at most the depth
apart; the lemmas on `Window` say what a write behind it, a read at its front and both at
once do to it, also into a full memory while its front is read.

*The FIFO between two clock domains*: a view of the other side's pointer is a pointer
that side once had, and `SidesInv` says where. On the ring of pointers the writer's older
view of the reader, its newer one, the reader, the reader's older view of the writer, its
newer one and the writer stand in this order, all within the depth of the first. The types
in it say that every synchroniser holds the code of a pointer, never a mixture, and that
is where `GrayAssumption` is needed. The distances between the six are what `CdcFifo`
counts with, so full, empty and the fill count are functions of them (`SidesFlags`) and
err on the safe side. `StepMoves` reads every clock edge, with whatever its synchronisers
catch, as one record of what moved (`Moves`), from which follow the invariant
(`SidesInductive`), the step of `CdcFifo` (`MovesAreEdges`) and, with the output stage
joined to the memory, the step of `BoundedQueue` (`MovesAreQueueSteps`). The theorem is
for every depth and both RAM styles, where the run has depth 4 and block RAM.
`CrossingShowsQueue` adds that the ports show at every moment what `CdcFifo` shows, which is
what `GmiiCdcRx` reads of it.

*The framer*: `LineInv` is about control: a kept byte exists only from `S_IDLE` to
the first cycle of `S_DATA`, `tready` is up only where a byte can be taken, and `gap`
equals the state's own account of the idle line (`GapInv`: `IfgBytes - 2` on entering
`S_IDLE`, one more when `tready` is up, all of it when a byte is kept), from which
`GapKept` follows. `WireInv` says what is on the line: `Reads(wire, k, n, m)`, the first
`m` symbols of the frame that `n` bytes from position `k` become, with `m` a function of
the state and its counters, `n` what was taken, and `k > 0` only after a frame that
showed `tx_er`. The step that could break it is `S_DATA`, which takes `tvalid` for a
handshake without a look at `tready`: `BytesInv` says that `tready` is up there as long as
`tx_er` was not shown. `ReadsNext` prolongs a frame by a symbol, `ReadsOther` lets a frame
grow while only its beginning is out, and `ReadsWhole` closes the argument: with the FCS
out, the symbols read are the sequence `Framed(k, n)`.

**`GmiiCdcRxProofs`.** A step of the crossing is a media edge, a system edge or both, with
data and flag on different paths; `Moved(W, V, p, u, w)` says what any of them does to the
words written and not yet out: `p` leave and `u` join. `FlowInv` is about numbers: the FIFO has room for
the two words that can follow a stale `rx_data_room` (`RoomInv`); a toggle is sampled
before the next frame flips it again (`PaceInv`); the pending count plus the pulses in the
delay line are exactly the end words written and not read (`CountInv`); and the reader
only takes words it can see, of frames it was told about (`ReadInv`). `StreamInv` is about
content: what was written and not yet read is in the order of the line, each frame a run
of words closed by its end word (`OrderInv`), that order continues where the reader is
(`FrontInv`), and the last word written is where the line is (`TailInv`). `ErrInv` adds
the error marks: from the moment a frame is damaged on the line until its last byte leaves
marked, a mark of it is on its way, and there is none of an undamaged frame.
They need `PaceAssumption`. A frame ends at most once in `MinGap` media edges, and the
inter-frame gap of 12 bytes is longer than the media edges between two system edges, which
are at most five; and the pending count is one bit wider than the FIFO's address
(`RX_CNT_W`), so it holds more than the FIFO has words.

**`EthPauseProofs`.** Two arguments that share no variable. *The timer*: while a pause
runs, `since.n`, the cycles since it was loaded, equals what the quanta gone, the
prescaler and a tick not yet subtracted account for; when it reaches zero all of them are
gone. It needs facts about products with the prescaler, stated once (`TickTimes`).
*The crossing*: `ParserInv` relates the parser to the line, so that the quanta
register changes only two bytes after the header; `CrossingInv` says that at most one flip is
in the synchroniser, that while it is the parser has come no further than the clock edges
it has had (`Progress <= Elapsed`), and what is owed. It needs
`CrossingAssumption`, `3 * MaxRatio <= HeaderLen + 1`: three system edges go by within the
16 bytes of a real header if the system clock is not slower than a fifth of the media
clock. A build that can run at 1G refuses a system clock below the media clock (section
2), and the slower speeds have slower media clocks.

**`CsrBusProofs`.** `GoNeverLost` says `mdio_go => ~mdio.run` and is not inductive: the
busy flag covers the MDIO master's run only from the cycle after GO. What closes that
cycle is in another component: the pulse comes together with the write's response, and no
second write executes while a response is pending. `GoInv` joins the two, `MdioShape` is
the type the provers need. `BusInv` treats each direction by itself (`WriteEdge`,
`ReadEdge` are what an edge does to it): at most one master holds the grant, only its
transaction can be in the registers, and `performed` is what a pending response belongs
to. `OvertakenInv` adds that once the processor was overtaken the bridge neither holds nor
gets the grant. `CallInv` follows `emz_mdio_read` through its accesses: from the
acknowledged GO on, a transaction runs with the call's own command or its result is in
`MDIO_RDATA`, and a poll that read BUSY = 0 proves the latter; the one transaction that may
still run when the call begins is the one it waits for first.

**`EmzTxProofs`.** `IndInv` is the conjunction of `Shapes` (the program counters), `Phase`
(which of them the rebuild's place allows), `GateServed` (a closed gate has its work
queued, or is about to, or is about to be cleared), `WatchdogKept` and `Quiet` (xmit and
NAPI are out once they were shut out). Each activity has one lemma. `FailedSlotStaysOut`
uses `FailedClosesGate`: a slot marked failed exists only while the gate is closed, which
depends on the callback closing the gate before it publishes the slot.

`RingConsistent` relates three sets of descriptors, the indices and
two counters. Its invariant says more: `Owned`, the sequence of slots in the hands of the
channel, the callback and emz_start_xmit, is in ring order and is exactly the slots
between tail and head that are not done (`Owns`); `WalkInv`, what NAPI has walked over is
done; `BqlInv` and `CountInv`, what BQL and the drain count hold at each place of xmit and
NAPI, modulo the index width. It rests on arithmetic of the two moduli
(`RingArithmetic`) and on `IndInv`, which keeps everybody out during a rebuild.
`FullQueueHasWaker` needs in addition that no completion is overlooked (`ToldInv`: where
the present poll is past a done slot, another was asked for) and what a stopped queue
means (`FullInv`): with fewer than `Wake` slots free some slot is not released; if it is
done its poll is asked for, and if not it is `Owned`, so that a descriptor or a callback
is under way.

**`HostToolsProofs`.** In the sum only the chosen script moves, so each argument is about
one script (`RegRuns`, `ThrRuns`, ... say so). What a script knows is old when it uses it,
and each invariant says what became of it since:

* `RegInv`: every datagram is of a known query or profile; a socket's port tells the
  answers to its own query from late ones, and an answer carries the count at a time
  when the counter held this profile's packets only.
* `ThrInv`: the last sample of each counter is the last line of it in the list. Without a
  misread line, the board's counter is the baseline plus the overflows of this test up to
  its limit, so a sample that differs from the baseline shows one. Without any garbled
  line, the sample judged is at least what the board had counted at its first reading
  after the sender ended (`IsDue`), so one that equals the baseline leaves none due.
* `StatsInv`: for each counter, what was folded, what the register holds and what the fold
  lost account for every frame so far, with a fold part-way holding only the counters of
  its clear group; a snapshot is taken under the lock, and nothing is in flight around it.
* `LbInv`: a clear leaves no frame and no count of an earlier run; the counters tally what
  came back; frames that came back as consecutive as they were sent, as many as were
  sent, are the run's frames.
* `UartInv`: the lines arrive boot after boot, DONE last in its own; of each result of the
  last boot, the line was read, is still to come, was damaged, or was not listened to
  because its LINK line was.
* `SfpInv`: each half of a counter was taken at an instant of the window of the present
  read, in order. The high half, read before and after, is the same, so the value whose
  low half was read has it too: a low half only comes back after a whole round, which
  `Moved` sees. After a clear that was read back, a count is at most the events since. In
  the MAC's session a register is either one whose group still has a clear to come, or
  counts the events since one of its group took, or all writes of its group are among
  the `untaken`.
* `PauseInv`: as long as no attempt is void one pause goes on from the first frame to a
  full pause after the last refresh, and not before `prev0`. The gap measured therefore
  lies between two bounds for a MAC that resumed, and above `ignored` for one that did
  not; `Tells` keeps the verdict open where these meet.
* `SweepInv`: `longest_run` is taken tap by tap; the best run so far is the widest eye among
  the passing taps read so far, and the current one is the eye that ends at the last of
  them, so an eye that a gap closed never grows again.

The assumptions are what the scripts' own numbers satisfy: a full pause of eight frame
times or more, a saturation not below the fold's threshold, identification lines whose
names are none of the verdict's, halves of at least two values. The proof of
`ClearsAreFresh` is why `ClearIsFresh` leaves out a read torn by an event in the cycle of
its capture: with halves of four values such a read can show a count above
the events since, which TLC's instance with halves of two does not reach.

**`SimModelsProofs`.** The reference folds over the stream sent so far, and the transmitter
works on the same stream byte by byte. `FoldGoesOn` brings the two together: the fold over
a stream with one more byte is the step `Reader` after the fold over the stream without
it, whatever the length. That the fold exists and is one (`Folds`) needs no induction
then, it is kept from state to state like the rest of the invariant.
`SafInv` names the places `E[k]` of the memory where the frames of the reference end.
`LayoutInv`: between two places lies one frame, its last word alone marked, and behind the
last one the bytes the reference still collects. `CrossInv` is about the two clocks: the
three stages show counts `c1 >= c2 >= c3` of frames, the two stages of the pointer show
`w1 >= w2`, and `E[c2] <= w1`, `E[c3] <= w2`: what is counted by the last stage can be read
whole. It is kept because the count has one stage more than the pointer; while a write is
`hot` the newest stages are still before it, so an edge that catches the new count
and the old pointer does no harm, the pointer being a stage ahead of the count by the time
either is used. `ReadInv` says where the framer is between its two places, so that
it ends at the word that is marked and never finds the FIFO empty, and `SentInv` that the
bytes and the FCS on the wire are those of that frame, padded or not.
The counters run modulo twice the depth (`ModSteps`); the framer only asks whether two
of them differ, and `At < c3` follows from that because `At <= c3` is kept.

*The runners*: `GreenMeansAllRan` speaks of the end, and `RunInv` carries to the end what
each part of the run knew. `LookInv`: as long as no file was skipped, every suite of the
files looked at is there. `ListInv`: the names wanted are all in the list, and each
(name, language) that `ListJob` is past is a job or was listed as skipped; a list without
repetitions gives jobs without repetitions (`SortedIs` for the list of all names).
`PoolInv`: a job between its build and its verdict is one a thread still has, a collected
result has all its return codes, and main leaves only when no thread has a job. `OwnInv`
is about the directories: with one worker only one job is active at any moment
(`NoneRuns`), and jobs that are `Apart` have different directories (`ApartDirs`), so a
build in progress is not written over. The theorem is for any number of files, suites,
workers and commands of a module.

Only model-checked:

* everything that needs fairness (`NothingStuck`, `EveryFrameCloses`, `EveryFrameDrains`,
  `FrameEnds`, `PauseActsAndEnds`, `SettingApplied`, `SafDrains`, `HaltRecovered`), which is
  beyond this prover, as is ENABLED;
* that the Gray code of the source satisfies `GrayAssumption`: it is modelled with
  `Bitwise`, whose recursive operators the provers cannot use, and that a code of every
  width changes in one bit is an induction. TLC evaluates it for the widths up to eight;
* `ChecksumAsReference`: unlike the reference of the transmitter, which grows with the
  state, this one folds a whole packet inside one step, and what such a fold computes for
  a packet of every length is an induction over data.

## 7. Findings and observations

1. **An interrupt event can be lost** (`csr_bus_irq`; `rtl/axilite_regs.v:448`). The
   write-1-to-clear of `IRQ_STATUS` is computed from the register without the events
   of its own cycle and is the last assignment of the block: an event of another
   bit in that cycle is never latched.
2. **The BUSY stop of `emz_start_xmit` is unpaired** (`emz_tx_stop`;
   `sw/linux/emaczero/emaczero.c:786`). It stops the queue without looking at the ring
   again; the last completions may be handled in between and then nothing but the
   stack's TX timeout wakes it. The stop at line 832 does look again, and
   `FullQueueHasWaker` holds for it.

Smaller things met while modelling, none of which breaks a property here:

* `STATUS` bit 3 reads as `mdio_cmd_dropped`, while `docs/registers.md:131` says bits
  31:3 are reserved and read as 0.
* A write of `IRQ_STATUS` ignores WSTRB.
* The comment of `eth_pause_rx` counts 24 byte times between a commit and the next
  change of the quanta; with a PHY that drops the preamble it is 18. Both are ample.
* `rvalid` rises in the same cycle as `arready`.
* `lib/rx_model.py` lists `fcs | align | overflow | oversize` as what raises terror; the RTL
  also flags a frame shorter than 64 bytes, as the robustness suite checks on its own.
  `ScoredAsReference` therefore starts at the shortest legal frame.
* `sfp_counters.py --clear`, when every try after the one that raised the clear bit fails,
  exits with an error and leaves the bit up; a later run without `--clear` then reports
  zeros that are held, not counted. `ClearIsFresh` is about runs that report success, and
  of its counters about reads no event tore.
* `sfp_counters.py`: the comment of `retry` says a session "checks its writes" (161-163). Of
  the MAC's clears only the response is looked at (137-140, 146-148); they are not read
  back, as the EIO's are because "write_outputs does not report a failed scan". If every
  write to a group is answered well and does not take, the old counts are reported as
  new; `ClearIsFresh` leaves out just that case.
* `serial_monitor.py`: `all_pass` does not require DONE, and the second phase also runs
  after the timeout, although the docstring says "After DONE". A damaged LINK line lets
  lines of an earlier boot stand; `PassIsOneBoot` names both exceptions.
* `udp_throughput.py`: without a baseline an old overflow counts as one of this test;
  without a UART it says "no overflow"; a saturated counter cannot show one more. `LINE_RE`
  (116) takes any one to eight hex digits, so a digit that is lost or altered on the
  UART is taken as a value, and the script can say "OVERFLOW detected" when there was
  none. A packet that reaches the board after its first reading of the counter that
  follows the sender's end need not be in the verdict. `OverflowVerdict` excludes these
  cases: a missing baseline for both verdicts, a misread line for "OVERFLOW", and a
  garbled line, a saturated counter and such late packets for "no overflow".
* `run.py`, `run_all.py`: a name given twice with `-j 2` makes two processes write in one
  directory at the same time, and so would a suite named `vhdl_x` in Verilog with a suite
  `x` in VHDL (run.py 131, 136; there is no such suite today): a verdict can then be on
  files of the other. A run whose suites are all skipped for the language exits 0. When
  a process cannot be started (`subprocess.run` raises), no summary is printed, and the
  jobs after it are cancelled or their results dropped.

## 8. What is not modelled, and why

* The transmit half of `gmii_cdc`, `mii_if`, the PAUSE generator, the bit-level MDIO frame
  and the driver's RX ring: planned. Two places of the first are worth a property when it
  is: a frame may only start while the rest of it fits, although one more word can be in
  the delay stage (`gmii_cdc.v:374`), and the committed-frame counters must be wide enough
  for the frames the FIFO can hold (`gmii_cdc.v:395`). `MiiTxSaf` shows both arguments
  for the MII path.
* Of `tx_csum_off`: the frame and metadata FIFOs with their backpressure, `IN_DROP`, and
  frames that begin with `enable` low. `CsumCalc` has one frame after the other.
* `crc32`: combinational arithmetic; the framers model which bytes it covers.
* The size bins and byte counters of `eth_stats`, which no decision depends on.
* `rgmii_if`, `gmii_if`, `ddr_*`: pads, delays and vendor primitives.
* The L3 responders, FPGA tops and the LiteX wrapper: parsers, demonstration logic and
  instance glue around the MAC.
* The pin-level drivers and monitors of the suites (`lib/*_driver.py`, `*_monitor.py`,
  `*_bench.py`), the generators of the equivalence proofs, `build_and_test.py`, and the
  board scripts that send, wait and compare one after the other: sequential, with no
  decision that depends on another actor's timing beyond those modelled.
* Rates, printing and argument parsing of the scripts that are modelled.
* The VHDL twin is held equal to the Verilog by the benches of `sim/parity`; the models
  are of the Verilog.
* Metastability beyond an old or a new value per bit, reset sequencing of single
  domains, and timing.

## 9. Plan

1. Done: FIFOs, `eth_mac_rx`, `gmii_cdc` receive, `eth_mac_tx`, PAUSE receive, register
   bus, gates, driver TX and statistics, `mii_tx_saf`, checksum offload, the reference
   models and runners of the simulation, the host scripts; theorems of section 6.
2. The transmit path as one composition: gate, `eth_mac_tx`, `GmiiCdcTx` and the pause
   hold, with the abstract frame pipe it implements; the PAUSE generator with it.
3. `MdioMaster` at the bit level, with a PHY, refining the transaction of `CsrBus`.
4. `mii_if`; the FPGA to host half of the bidirectional UDP test.
5. Driver: RX ring, RX flush, clause-45 MDIO.
6. Proofs: the transmit path of item 2, on the views that `CrossingShowsQueue` vouches for.
