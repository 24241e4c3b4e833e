# Specifications of tetrys_nc

tetrys_nc moves files over lossy UDP paths.  A file is cut into blocks, every
block is protected by RaptorQ symbols, a feedback datagram every few
milliseconds tells the sender which blocks are decoded and how many symbols the
open ones hold, and the sender drips repair symbols until everything is
decoded.  This directory holds TLA+ models of that program, the TLC
configurations that check them, and proofs for TLAPS.  Paths such as
`block_xfer.py:1762` are relative to `src/src/tetrys_nc/`.

## Inventory

| component | state it keeps | operations | hard behaviour | what makes it correct |
|---|---|---|---|---|
| `BlockSender` (block_xfer.py) | `next_block`, `active` window, what it knows of each block, events `client_fin`, `peer_hello` | send loop (`run`, `_reap_completed`, `_admit_source`, `_repair_tick`), feedback thread (`_feedback_loop`) | two threads; the loop works on a snapshot; three exits and four aborts | no admitted block is dropped undecoded; success only after delivery; undecoded blocks always ask for repair |
| `SenderFeedbackState` (block_state.py) | `completed`, `open_rx`, last feedback id | `apply`, `snapshot`, `client_lost` | lost, repeated, reordered feedback; table cap | true and monotone knowledge, bounded table |
| `BlockReceiver`, `GenReceiveSlot` | `slots`, `done`, symbols of a slot, the partial file | `_on_data`, `_send_feedback`, `run` | symbols in any order; decode failures; ghosts; idle peer | whole file before FIN; bounded open slots |
| feedback lists (block_packets.py) | none | `merge_open_feedback`, `block_ids_to_ranges` | lists cut to a limit, rotation | what is listed is true |
| encode pipeline (block_xfer.py) | `ready`, `pending`, `_encoded`, pool jobs, `_worker_mm` of each worker | `_submit_ahead`, `_take_encoded`, `encode_block_job` | jobs overtake each other, raise, outlive their session; cached mmaps | one job per pending block, bounded prefetch, nothing waits for ever |
| server loop (`run_block_server`, `_recv_upload`) and clients | session, socket buffer, files under the root | hello dispatch, LIST, MKDIR, UNLINK, GET, PUT | copies, retries, leftover hellos, foreign hellos, vanished clients | a path holds whole files; sessions end; the server stays |
| file manager transfers (fm_app.py `TransferState`) | epoch, active, done, rc, line; the modal | begin, progress, abandon, finish, tick | cancelled worker threads run on | a stale worker neither locks nor reports |
| object mux (object_xfer.py, object_frames.py) | queue of objects, `_Sink` files, packs | put, fill block, open/write/fin | chunks out of order; control datagrams lost | every object complete exactly once |
| `BlastCc`, `RttFilter`, `BwFilter` (blastcc.py) | phase, rate, knee and lock, filters, counters, deadlines | `on_feedback`, `on_timer` | what it measures depends on what it sent; stalls, queues and loss look alike; locks are for good | the rate stays inside its limits, phases end, cuts spare a lock, nothing fallen is locked, the search recovers |
| `RateLimiter` (ratectl.py) | credit, rate | `set_rate`, `consume` | debt, idle credit | burst bound |
| `FecController`, `ExtraRepairWindow` (block_state.py) | samples | `observe_block`, `dir_margin` | a block sampled twice | margins within limits |
| netutil.py, command lines, fm_core.py, widgets, sim/, scripts/ | – | I/O, parsing, drawing, benchmarks | – | not modelled |

How they interact: the server loop owns the socket and lends it to one sender or
receiver at a time; the sender takes first flights from the pipeline and repair
from its own encoders; feedback and FIN travel from receiver to sender, DATA the
other way; a hello that arrives during a transfer aborts it.  The file manager
runs the client side in a thread and cancels it through `should_abort`.

`PROJECT.json` lists the hazards of this code at their lines, with the properties
that watch them.

## Modules

| module | models |
|---|---|
| `FeedbackLists` | the list operators of block_packets.py, without state |
| `FileDelivery` | abstract specification: blocks are delivered, the source learns of them, success of the source implies delivery |
| `BlockTransfer` | sender, receiver and network of one file; extends `FeedbackLists`, implements `FileDelivery` |
| `BlockTransferLive` | fairness and liveness of `BlockTransfer` |
| `BlockTransferProofs`, `BlockViewProofs` | theorems about `BlockTransfer` |
| `EncodePipeline` | prefetch of first flights over successive sessions |
| `EncodePipelineProofs` | theorems about `EncodePipeline` |
| `ServerSession` | server loop, its clients, and the one path they all name; file and mux sessions |
| `ServerSessionProofs` | theorems about `ServerSession` |
| `ObjectMux` | many objects in one stream: producer, block cutting, announcements, window, sink |
| `ObjectMuxProofs` | theorems about `ObjectMux` |
| `FlightRank` | how the loss of a block's first flight is measured: receive slot, freeze, ghosts, loss samples |
| `FlightRankProofs` | theorems about `FlightRank` |
| `FmTransfer` | the file manager's transfer state and its worker threads |
| `FmTransferProofs` | theorems about `FmTransfer` |
| `RateEstimates` | what `BlastCc` concludes from its samples, without state |
| `RateSearch` | the phases of `BlastCc` in a closed loop with a path; extends `RateEstimates` |
| `RateSearchProofs` | theorems about `RateSearch` |

Operators under a comment that starts with *Slip* are not part of any
specification.  Each is the operator below it with a plausible mistake; the
properties were tried against them.

### BlockTransfer and the code

* The send loop is `LoopTop` (snapshot, abort checks, reap), any number of
  `AdmitSource`, one of `RepairTick` / `NoRepair`, and `LoopEnd`.  The feedback
  thread (`ApplyFeedback`, `RecvFin`, `SenderHello`) may run between any two of
  these steps, which is the interleaving Python threads give: the loop touches
  the shared state only in `snapshot()` and the events.
* `known[b]` is `unique_rx` and `decode_failed` of `SenderBlockState`.  `snap` is
  the loop's local copy; it is reset where the code no longer reads it.
* Symbols are not kept in a network variable.  A symbol may arrive at any time
  after it was sent, once or more often; a repeated one changes nothing.  So
  "sent and not yet seen" is all a network could add.  Symbols in flight when the
  sender ends can still arrive.
* Feedback keeps its order in `fbNet` with `fbStale` marking what is too old, so
  feedback ids need no counter.  Any datagram may be applied in any order, again,
  late or never.
* A block decodes for certain with all source symbols; with K or more symbols it
  may, and with `K + DecodeSlack` it does.  That is the code's use of RaptorQ,
  whose decoder is external.
* Timers are choices: the age of a block, cooldowns, idle limits.  Pace, FEC
  statistics, logging and the sizes of repair batches are left out; the number of
  repair symbols of a tick is any number within the bound.
* `MaxEsi` bounds the symbols of a block and `MaxRepair` the repair symbols of all
  blocks together; the code has neither bound.  `Rotations` are the starts of the
  done list that a feedback id can lead to.
* `CancelWhileSending` and `CancelWhileRepairing` are the `InterruptedError` that
  `_send_wires` raises half-way.
* All three exits with success are meant by `DoneMeansDelivered`: FIN, all blocks
  completed, idle tail.

### EncodePipeline and the code

`Turn` is a pass of the loop without admission, `AdmitReady` one turn of
`_admit_source`.  A job carries its session, which stands for the identity of the
future and of the queue its callback holds.  `Opened` is `_worker_open`: once a
worker has mapped the path it keeps that version.  The main process has such a
cache too, for jobs that it encodes itself.  Sessions name the same path; a
session for another path in between would drop the cached mmap.
`Ascending` names the jobs of one pass in the order of their blocks, as
`_submit_ahead` counts up: the sequence is the one that exists, so that nothing has
to sort a set.

### ServerSession and the code

A client is one session.  `Ask` and `AskAgain` put hellos on the socket, and every
state of the server takes them off: `Answer`, `Mkdir`, `Unlink`, `StartDownload`,
`StartUpload` when idle, `SkipHello` for those a session ignores, and
`Interrupted` for a foreign hello.  `AfterAbort` is what `_recv_upload` does once
`BlockReceiver.run()` has given an upload up.  `Store` is `os.replace`; between
`UploadDecoded` (FINs) and `Store` the server checks the hash (`HashMismatch`) and
may be killed.

A path that is a directory with files (`"tree"`) is downloaded as a mux stream, and
`mput` uploads several files as one.  `MuxWrites` is the sink, which makes files in
the directory as chunks come: a mux upload is not atomic, only the single file of
`Store` is.  `MuxStored` and `MuxTimeout` are the
ends of `consume_object_stream()`; the timeout is for the whole stream and its
`TimeoutError` leaves the server loop.  So do the `ValueError` of mmap when an
empty file is downloaded (fault `empty`) and the exception of a broken encode pool
(`PoolBreaks`).  After each of these the server is down, and `SessionEnds` says
that it does not hold a session for ever instead.  `--once` and NAT punching are
left out.

A client's answers are taken by `TakeEntries` (`run_vfs_list`), `TakeAck`
(`run_vfs_mkdir`, `run_vfs_unlink`) and `TakeMeta` (downloads and uploads).

### ObjectMux and the code

The transport of a block is left to `BlockTransfer`: a block that was sent may be
decoded at any later time, and a feedback makes any of the decoded blocks known.
`Put` and `Close` are the producer's thread, between any two steps of the loop.
`FillTurn` is one turn of `_fill_block` (a frame of the current object, or the next
object), `FillEnd` leaves it, `SendBlock` puts the block into the window.  Only
when `Idle` holds does the loop send its FIN with the number of blocks.
ObjectOpen, ObjectFin and the FIN are datagrams that arrive late, again or never;
the name of an object also comes with its first chunk.  `Sink` keeps what the code
keeps - a high-water mark for each object, chunks aside that have no name yet - and
next to it `bytes`, what the files really hold.  `used` is the length of the block
that is being filled, headers included, as `_fill_block` keeps it.  The chunks of a
block are a set, since the high-water mark is a maximum.  Bytes are counted in units; pack
files, file descriptors, directories, names and the progress display are left out.

### FlightRank and the code

One block from its admission to its sample.  A symbol is known by its kind
(source, repair of the first flight, later repair), so the counters of a slot are
exact and any order of arrival is one path.  A pass of the send loop works on one
snapshot, which makes `Reap` (with the flush of waiting blocks) and `RepairTick`
single steps.  Ages are stages: the slot's (`REPAIR_AGE_S`), the sender's
(`REPAIR_AGE_S`, then 0.2 s more).  Feedback lists may leave out the item, the
done range or both.  The percentages that are computed from a sample are left out.
`RankIsFirstFlight` speaks of ranks that the receiver froze.  A sample for which no
freeze came uses the sender's own stamp, and that can count repair symbols when
the first feedback is late.

### FmTransfer and the code

A worker is named by its epoch.  `Check` is the abort test before an item,
`Work` the item, `Finish` the call of `finish()`, `Progress` a call of
`progress()` at any time.  `late` counts the items a delete removed after it was
cancelled.  The fields are read and written under the lock of `TransferState`;
`_tick_transfer` takes it twice, and no other thread resets `done` in between, so
`Tick` is one step.

### RateSearch and the code

`cc` holds the fields of `BlastCc`.  A step is one new feedback: `Noted` is what
`on_feedback` does before it looks at the phase (delivery, knees, filters, counters,
the class of the path), in the order of the code, and `StartupFeedback`,
`DrainFeedback`, `CruiseFeedback`, `ProbeFeedback` are its four branches.  The tests
of a branch stand in the order of the code's `if`s.  `OnTimer` is the climb of
startup between two feedbacks.

* Rates are integers of one unit.  A product with a gain is rounded down, and
  comparisons multiply both sides instead.  Loss is in whole percent.
* A tick is a round trip.  Ages stop at the longest wait that is compared with them,
  remainders at 0.  Waits of the code in seconds (0.16, 0.32, 0.5, 0.8, ...) become a
  few ticks that keep their order; sample windows and hold counters are shorter
  than in the code (3 for 16 samples, 2 for 2 to 4 feedbacks).
* `RttFilter` and its queueing delay are reduced to four levels: drained, between,
  above the stop mark, above the cut mark.
* The path delivers what it is sent, up to `Capacity`.  In a spell of weather it
  holds everything up behind a hole (`hol`), goes silent (`stall`), queues, loses
  a tenth (`loss`) or a little (`noise`), leaves the decoder behind (`lag`), gets
  narrower, or lets feedback come too early to be measured.  A spell lasts as long
  as it likes, for ever too.
* `odd` flips with every feedback.  It exists for fairness: a feedback may leave all
  of `cc` as it was, and weak fairness does not see a step that changes nothing.
* The measure phase is left out because nothing enters it (`_start_measure` has no
  caller), and with it `_should_lock_c` and the answers `fec_may_raise` and
  `fec_may_lower`, which have no caller in the program either.

## Runs

| run | module | bounds | distinct states | shows |
|---|---|---|---|---|
| live_upload | BlockTransferLive | upload, 2 blocks through a window of 1, one symbol of each lost; hello, cancel, crash | 146 k | `TypeOK`, `ImplementsDelivery`, `FileArrives`, `SenderFollows`, `ServerReceiverFollows` |
| download | BlockTransfer | download, 2 blocks in a window of 2, K = 1, decodes with K and K+1 symbols may fail, up to 3 symbols a block and 3 repair symbols in all, 2 feedback in flight, open list and table of one entry; hello | 3.5 M | `OpenTableBounded`, `RepairNeverStarves`, `Consistent`, `ViewMonotone` |
| pipeline | EncodePipeline | 4 blocks, window 2, depth 3, 2 workers, 2 sessions, 1 replaced file, 1 failed job | 89 k | `TypeOK`, `PendingHasOneJob`, `PrefetchBounded`, `AllAdmitted` |
| pipeline_stale | EncodePipeline | 1 block, 1 worker, 2 sessions | - | finding: `RebuildMatchesFlight` is violated |
| server | ServerSession | 2 clients, every request, uploads on and off, every set of faults | 2.5 M | `TypeOK`, `PathHoldsWhole`, `MkdirToldOnce`, `PutOkIsStored`, `SessionEnds` |
| server_down | ServerSession | 1 client | - | finding: `StaysServing` is violated |
| object_mux | ObjectMux | up to 3 objects of 0, 1, 3 or 6 units, blocks of 4 units with headers of 1, window 2 | 569 k | `TypeOK`, `FinTotalIsFinal`, `OkMeansWhole`, `StreamCompletes`, `SentMeansDecoded`, `ObjectsArrive` |
| flight_rank | FlightRank | K = 2, one repair symbol in the flight, two later; decodes with K to K+2 symbols may fail | 1.8 M | `TypeOK`, `RankIsFirstFlight`, `SampledOnce`, `SlotSound`, `WaitEnds` |
| fm_transfer | FmTransfer | 4 epochs, 2 items | 10 k | `TypeOK`, `LockHasAWorker`, `ResultIsShown`, `CancelStopsDelete`, `ModalCloses` |
| fm_stale_line | FmTransfer | 3 epochs, 1 item | - | finding: `LineIsCurrent` is violated |
| rate_search | RateSearch | capacity 800, cap 1100, two blocks per round trip 210; 8 kinds of weather, 2 spells | 448 k | `TypeOK`, `CutsSpareTheLock`, `FrozenStays`, `LockIsAlive`, `PhaseEnds`, `Recovers` |
| soft_lock | RateSearch | the same with a cap of 2000, weather `hol` and `noise` | - | finding: `SoftLockClimbs` is violated |

Why the bounds are enough.  The properties of `BlockTransfer` speak of one or two
blocks, and blocks interact only through the window and the cut lists: two blocks
give "one completed, one not" and an open list that must leave one out.  K = 1
keeps the cases none, some, enough, enough-but-failed, all source; three repair
symbols in all let one block fail twice, or both once.  One feedback in flight
already allows loss, repetition and staleness against the loop's snapshot; two add
reordering, without which `ViewMonotone` could not fail.  Crashes of either side,
cancels and the hello during an upload occur in live_upload.  Two blocks form one
done range at most, so a cut done list does not occur in the runs; the theorems
hold with it, and `RotationCovers` is about it.  In `ObjectMux` sizes of 0, 1, 3 and 6 in blocks of 4 give objects that
are empty, share a block, fill one and span several; three of them and a window
of two make blocks overtake each other and announcements.  In `FlightRank` one block is
enough, because samples of different blocks meet only in statistics.
Two sessions show what the first leaves for the second.  Two clients are a
session and its interrupter, and a client with a hello left over is both.
In `RateSearch` the start rate is above the two-block shelf and about the capacity,
so startup can overshoot, and 1100 lets a probe go past the capacity; two spells
are bad weather before and after a lock, or twice in one phase.  These
are single numbers: the run says nothing of other ratios of rate and capacity.
The proof modules remove the bounds for the safety properties they prove.

Deadlock is checked in rate_search: the search never stops.  The other runs set
`CHECK_DEADLOCK FALSE` because transfers, clients and counters of sessions come to
an end.

## Fairness

* Both threads of the sender and the receive loop run (weak fairness); a pass of
  the loop meets `AdmitSource` and a repair of block b only in passing, hence
  strong fairness: the pool finishes jobs and cooldowns expire.
* `FileArrives` allows a user, a crash or a foreign hello to end the transfer
  (`GivenUp`), and nothing else.
* The network may keep `MaxLoss` symbols of each block for ever, any of them, and
  any feedback, but not all feedback from some point on.  FINs may all be lost.
* Idle timers run out; for the sender every pass by its top looks at them.
* In `EncodePipeline` workers finish what they took, and the receiver completes
  window blocks.  In `ServerSession` deadlines pass and a transfer between two
  living peers ends, which is `FileArrives`.  In `FmTransfer` the timer of the
  interface ticks and threads run; no fairness is assumed of the user.
* In `ObjectMux` the threads run, the producer closes its stream, every block that
  is sent decodes in the end, which is `FileArrives` again, and one of the repeated
  FINs arrives.
* In `RateSearch` feedback keeps coming, because a receiver reports every few
  milliseconds, and a spell in which feedback is too early to be measured ends.  All
  other weather may last; `Recovers` asks for something only in fair weather, and
  only of a search that has locked no knee.
* In `FlightRank` the send loop passes and the block grows older; nothing is
  assumed of the network, because the wait ends by age.

## Proofs

`BlockTransferProofs` proves for all constants that satisfy
`ConstantsAssumption`: `TypeCorrect`, `ConsistentAlways`, `NoFalseCompletion`,
`NothingLost`, `ReceiverMemoryBounded`, `SuccessIsDelivery`, `RepairGoesOn`,
`ReapIsSafe`, `OpenTableStaysBounded` and `TransferImplementsDelivery`.

The properties are not inductive alone.  The inductive invariant is
`TypeOK /\ Consistent`, in four parts, one step lemma for each action:

* `Soundness`: `snap.completed <= completed <= done`, and every datagram in flight
  reports decoded blocks only.  Without the datagrams `CompletedIsDecoded` is not
  preserved by `ApplyFeedback`; without the snapshot the reap is not safe.
* `WindowShape`: blocks below `next` are in the window or completed, symbols exist
  only of such blocks, and the window never exceeds `ActiveBlocks`.
  `UndecodedSlotsBounded` follows: an undecoded slot has symbols, is not
  completed, so it is in the window.
* `EndShape`: FIN, `client_fin` and success imply that all is decoded; a receiver
  that aborted was not complete.
* `ItemsHonest`: every item about a block that is not decoded - in the sender's
  table, the snapshot, what the loop learned, and in flight - either has fewer
  than `K + RepairMargin` symbols or says that decoding failed.  It rests on
  `FailMargin <= RepairMargin` in `ConstantsAssumption`, which the code keeps in two
  files (`FEC_RAPTORQ_MARGIN` in block_state.py, the literal 2 in gen_raptor.py).

`OpenTableBounded` is preserved on its own, from `MaxOpen <= OpenCap` (80 and 160
in the code).

Two theorems are about `FeedbackLists` for any sets and limits, also those too large for a
run.  `OpenListFits`: `MergeOpen` keeps its limit, and with a ghost limit below it (16 and 80 in
the code) lists some incomplete block whenever there is one.  `RotationCovers`: of n
runs of done blocks, cut to lists of `limit`, each is listed by one of any
`n \div limit + 1` feedbacks in a row.  A sender whose feedback is not lost for that long, while no
further block is done, learns of all blocks; loss that keeps step with the rotation can
still hide a run.

`BlockViewProofs` proves `ViewOrdered` and `ViewNeverGoesBack`, the action property
`ViewMonotone`.  It compares two states of the sender's table, so its invariant
orders everything that is said of a block: the table is behind every datagram
newer than it (`TableBehind`), a datagram is behind those sent later
(`WireOrdered`), and all are behind the slot (`SlotAhead`).  A lost datagram leaves the
order of the others, which needs a lemma on `RemoveAt`.

`EncodePipelineProofs` proves, for any number of workers, sessions, replaced files and
failures, `PipeInvAlways`, `PipelineTypes`, `OneJobEach`, `PrefetchIsBounded` and
`FreshWorkersMatch`.
`PendingHasOneJob` speaks of jobs on their way; to be kept by a worker that takes one
or a callback that delivers one, it needs the whole `PipeInv`:

* `Flow`: the futures, what the workers run and what is encoded carry every pending
  block of the session, once each, and no other block.
* `Ahead`: the window lies before the next block, pending and ready blocks at most
  the depth of the prefetch behind it, and none is both.
* `Workers`: jobs of earlier sessions may still run, and a worker at work has a file open.

`FreshWorkersMatch` delimits the finding of pipeline_stale: first flights match their
repair wherever no process of the pool has an older mmap than the session.  Its
invariant, `FromOpenFiles`, says that all that is encoded or in the window was read from an
mmap that a process still has open; jobs that raise and are encoded again by the main process are no
second cause.

`ObjectMuxProofs` proves, for any objects, sizes, block capacity, headers and window:
`TypesHold`, `MuxConsistentAlways`, `FinIsFinal`, `OkIsWhole`, `StreamIsComplete` and
`SuccessMeansDelivered`.  The invariant is `TypeOK /\ MuxConsistent`, the second in four
parts:

* `FinShape`: the total is announced only by an idle session with nothing left to
  fill, and it equals the number of blocks from then on.  It is what keeps a late `add` or a block
  in the fill buffer from making the announced total wrong.
* `DoneShape`: a block that was sent is in the window or completed, and the client's
  success and its FIN follow the last block.
* `CutShape`: the chunks cut so far cover every unit of every object up to where it
  has been cut, and only a chunk at offset 0 carries the name.  So an
  object whose bytes all arrived has its name, too, and needs no ObjectOpen.
* `SinkShape`: what was decoded is in the files or waits for its name, and no
  high-water mark is beyond what has been cut.  The last clause is what makes a file
  exactly as long as its object, and not only long enough for the client's check.

`FmTransferProofs` proves, for any number of transfers and items,
`FmTypes`, `FmConsistentAlways`, `LockIsHeld`, `ResultsAreCurrent`, `CancelIsHeeded` and
`OnlyProgressIsStale`.
The invariant adds to `TypeOK`:

* `Generations`: an epoch not yet begun has no worker, and the modal belongs to the
  current one.
* `Current`: lock, waiting result and worker of the current epoch go together.  The
  half that is not asked for, that a worker of the current epoch implies the
  lock, is what makes `finish()` of a stale worker find itself stale.
* `ItemsLeft` and `LateItems`: a delete between two items has items left, and one that
  has removed an item late is past its last work.

`OnlyProgressIsStale` delimits the finding of fm_stale_line: no step but a `progress()` of a
cancelled worker puts an older transfer on the line, so that a test of the epoch there,
as `finish()` has one, would be enough.

`ServerSessionProofs` proves, for any number of clients, copies of hellos and set of
faults, `SessionTypes`, `SessionInvAlways`, `OnlyWholeFiles`, `OkIsStored`, `OneMkdirIsTold`
and `ReadOnlyStaysServing`, from the assumption that no client has the name of a state of the path.  The invariant:

* `Roles`: what a client waits for, and what the server is doing, says which request
  it made; a client that reports success has had its FIN or its answer.
* `WholeFiles`: the server stores only an upload whose last block came.
* `DecodedIsStored`: such an upload is stored, or is about to be.
* `MadeOnce`: while nobody unlinks, the directory that was made is still there, so
  no second mkdir is answered with success, not even by a leftover hello.

`ReadOnlyStaysServing` delimits the finding of server_down: without `--allow-upload`, no
client, no order of hellos and no silence ends the server, as long as no file is empty
and no worker of the pool dies.

`FlightRankProofs` proves, for every K, size of the first flight and number of
later repairs, `RankTypes`, `RankInvAlways`, `FreezeIsFirstFlight`, `SampledAtMostOnce` and
`SlotStaysSound`.  The invariant:

* `SlotCounts`: the flight counter is what came of the flight, the freeze never
  exceeds it, and until a block decodes its decoder has been given all symbols.
* `FreezeTravels`: every freeze in a datagram, in the table or learned by the block is
  the slot's.  It holds because a slot freezes once.
* `SampleKeeps` and `Once`: a sample keeps that freeze; an observed block is marked.

`RateSearchProofs` proves, for every floor, cap and start of the rate, every length of
windows and waits and every weather, `SearchInvAlways`, `RateTypes`, `FrozenIsForGood`,
`NoLockAtACliff`, `LocksLeaveStartup`, `CutsSpareLocks` and `LocksAreAlive`.  The invariant
`SearchInv`:

* `Typed`: every estimate that enters the next rate is a natural number.  The lemmas
  show that no rate comes from the maximum or minimum of an empty set of samples.
* `Sure`: a confirmed lock has a knee above the shelf (130% of two blocks per round
  trip), and the controller is in cruise or drain.  A probe could not be left with it.
* A confirmed lock has the rate `FrozenRate`, the knee between the floor and the hard
  limit.  `_clip` raises to the knee first and cuts to the ceiling last, and for a
  confirmed lock the ceiling is the knee, so one rate is left.

`FrozenIsForGood` has a premise, `100 * Hard > 130 * Fill`.  A user's cap of at most 130% of
two blocks per round trip puts the clipped rate of every lock on the shelf, where
cruise does not know it from one that was never raised, gives up the lock and
starts to fill (`_on_fill_shelf`).  Nothing in the code excludes such a cap; the run has one
above it.  `NoLockAtACliff` is the first half of `LocksAreAlive`: the three ways to a lock - grown
loss that has been held, the class `dropper`, an aborted probe - test the cliff on the
samples that the step ends with.

`CutsSpareLocks` and the second half of `LocksAreAlive` follow the operations of a feedback
one after another.  `Spares(c, d)` says that the operation from c to d keeps three things:
a lock is not in startup (`Away`), its knee is above the shelf or 110% of the filter
(`Backed`), and the rate, or in a probe the one it goes back to, is not below the knee
(`Floored`).  Each operation has a lemma, and the relation composes.  `Away` is what gives
startup, which clips no rate to a knee, no lock to spare.  Two stronger statements are
false, and TLC shows each by a trace:

* That the rate is *never* below a locked knee.  With probes of 6 ticks and 4 spells of
  weather, a lock at 900 on a lossy path that delivers 810 starts a probe in an early
  feedback; the path narrows during the probe, the filter falls, and `_clip`, which in a
  probe uses `_raise_ceiling`, takes the pace to 690.  The path is fair again, the rate
  climbs to 862, more than 2% above the 810 the probe compares with, and cruise
  keeps it (blastcc.py:1381).  Hence the exception in `CutsSpareTheLock`.
* That a new knee is *always* above the shelf.  `_lock_knee` compares with the shelf first and
  cuts to what the filter has proved afterwards.  With a start at 193 on a path of 284,
  the lock of 284 is above the shelf of 273 and is cut to 265, which is 110% of the
  filter's 241.  Hence the second disjunct in `LockIsAlive`.

Both `ObjectMuxProofs` and `RateSearchProofs` need that a set of numbers has a least or a
greatest element, because `Max` and `Min` choose one.  Induction on numbers is out of reach;
the lemmas `LeastElement` and `MaxOfFinite` take the sets of elements below (above) each
element instead, of which one is least, as strict inclusion of finite sets is
well-founded.

`CompletedIsDecoded`, `NoBlockLost`, `ReapOnlyDecoded`, `UndecodedSlotsBounded` and
`DoneMeansDelivered` are proved of `BlockTransfer`, also for the fault that all
feedback falls silent, and follow from the `Consistent` that download checks;
`DoneMeansDelivered` is also part of the `ImplementsDelivery` that live_upload
checks.  The runs do not state them again.

Only model-checked:

* All liveness, because fairness and ENABLED are out of the prover's reach:
  `FileArrives`, `SenderFollows`, `ServerReceiverFollows`, `AllAdmitted`, `SessionEnds`,
  `ObjectsArrive`, `WaitEnds`, `ModalCloses`, `PhaseEnds`, `Recovers`.

Every other property of the passing runs - their invariants, their safety action
properties and the refinement `ImplementsDelivery` - is stated by a theorem.

## Findings

* `pipeline_stale`: after an upload has replaced a file, a pool worker encodes
  first flights from the mmap of the old one while repair comes from the new one.
* `server_down`: a client that leaves during its upload ends the server: the
  aborted receive has unlinked the part file, `os.replace` raises, nothing catches
  it.
* `fm_stale_line`: `progress()` knows no epoch, so a cancelled worker writes into
  the progress line of a newer transfer.
* `soft_lock`: when the pipe falls during startup and a little loss follows, the rate
  is locked at about a third of the capacity.  From then on what is delivered is
  under half of the best delivery in the filter, counts as fallen and is not
  observed, so the filter never forgets and the search above the lock stays shut
  on a path that is fair again.

## Plan

Done: `BlockTransfer` with its abstraction, liveness and proofs; `ObjectMux`,
`FlightRank`, `EncodePipeline`, `ServerSession` with mux sessions and the exceptions that
end it, `FmTransfer` and `RateSearch`, each with the proofs of its safety properties,
as far as they are listed above.

Next, in this order:

1. `FeedbackRotation`: the rotating done ranges under periodic loss, and
   `DoneRanges` against a direct definition.
2. `ObjectMux` with pack files: `explode_packs` and a pack left over by a crash.
3. `RateLimiter`: integer credits; what a burst may exceed.
4. `ExtraRepairWindow`: the ring of samples, its percentile and the margin of a
   direction.

Not modelled and not planned: system calls (netutil.py), argument parsing,
widgets, directory listings, byte layouts, the simulators and scripts: they keep
no protocol state.  The RaptorQ codec is external.
