---------------------------- MODULE BlockTransfer ----------------------------
(***************************************************************************)
(* One file in flight: BlockSender and BlockReceiver of block_xfer.py over *)
(* UDP.  The sender runs two threads, the send loop (LoopTop, AdmitSource, *)
(* RepairTick, LoopEnd) and the feedback thread (ApplyFeedback, RecvFin,   *)
(* SenderHello), which share `completed', `openRx', `clientFin' and        *)
(* `senderHello'.  The loop works on the snapshot it took at its top, so   *)
(* what it sees may be older than what the thread has applied since.       *)
(*                                                                         *)
(* The network.  A DATA symbol that was sent once may arrive at any later  *)
(* time or never: symbol e of block b is on the wire iff e < sent[b], and  *)
(* a second arrival changes nothing the receiver keeps, so the wire needs  *)
(* no variable.  Feedback datagrams are the sequence fbNet, in the order   *)
(* of their feedback_id; the first fbStale of them have an id no larger    *)
(* than the one the sender applied last.  Any of them may be delivered, in *)
(* any order and more than once, or lost.                                  *)
(*                                                                         *)
(* Time is not modelled: what a timer of the code decides (the age of a    *)
(* block, the repair cooldown, an idle peer) is a choice here.             *)
(*                                                                         *)
(* A definition marked "Slip" is not part of the specification: it is the  *)
(* operator below it with a plausible mistake of a programmer, and shows   *)
(* that the properties would notice.                                       *)
(***************************************************************************)
EXTENDS FeedbackLists, Sequences, SequencesExt

CONSTANTS
    TotalBlocks,    \* blocks of the file
    K,              \* source symbols of a block (block_k)
    InitialRepair,  \* repair symbols sent with the first flight of a block
    RepairMargin,   \* FEC_RAPTORQ_MARGIN of block_state.py
    FailMargin,     \* the 2 of GenReceiveSlot.decode_failed
    TailNudge,      \* 8: in the tail a window this small is always repaired
    ActiveBlocks,   \* the admit window
    MaxDoneRanges, MaxOpen, MaxGhost, OpenCap,  \* limits of the feedback lists
    Upload,         \* TRUE when the receiver is the server (STOR), else GET
    Faults,         \* the environment events that may happen, see FaultKinds
    DecodeSlack,    \* bound: K + DecodeSlack distinct symbols always decode
    MaxEsi,         \* bound: symbols generated for a block
    MaxRepair,      \* bound: repair symbols of all blocks together
    MaxFeedback     \* bound: feedback datagrams in flight

FaultKinds == {"hello", "cancel", "silence", "crash"}

ASSUME ConstantsAssumption ==
    /\ TotalBlocks \in Nat \ {0}
    /\ K \in Nat \ {0}
    /\ {InitialRepair, DecodeSlack, TailNudge} \subseteq Nat
    /\ {MaxDoneRanges, MaxOpen, MaxGhost} \subseteq Nat
    /\ RepairMargin \in Nat \ {0}
    /\ FailMargin \in 1 .. RepairMargin
    /\ ActiveBlocks \in Nat \ {0}
    /\ OpenCap \in Nat /\ MaxOpen <= OpenCap
    /\ Upload \in BOOLEAN
    /\ Faults \subseteq FaultKinds
    /\ MaxEsi \in Nat /\ MaxEsi >= K + InitialRepair
    /\ MaxRepair \in Nat
    /\ MaxFeedback \in Nat \ {0}

Block == 0 .. TotalBlocks - 1
Esi == 0 .. MaxEsi - 1
Source == 0 .. K - 1

VARIABLES
    \* BlockSender, the send loop
    pc,          \* where the loop stands: "top", "admit" or "end"
    sender,      \* "run", "done" (False returned), "aborted" or "crashed"
    next,        \* next_block
    active,      \* the blocks of self.active
    known,       \* SenderBlockState: unique_rx and decode_failed of a block
    sent,        \* symbols of a block put on the wire so far
    snap,        \* the loop's snapshot: completed, open_rx, and `tail'
    \* BlockSender, the feedback thread
    completed,   \* SenderFeedbackState.completed
    openRx,      \* SenderFeedbackState.open_rx
    clientFin,   \* the client_fin event
    senderHello, \* the peer_hello event; the thread returns when it sets it
    \* BlockReceiver
    receiver,    \* "run", "done", "aborted" or "crashed"
    rx,          \* distinct symbols of a block seen by its slot
    done,        \* self.done: decoded and written
    slots,       \* self.slots: open blocks and ghosts
    receiverHello,
    \* the network, receiver to sender
    fbNet, fbStale,
    finNet       \* FIN datagrams of the receiver are in flight

loopVars == <<pc, sender, next, active, known, sent, snap>>
threadVars == <<completed, openRx, clientFin, senderHello>>
receiverVars == <<receiver, rx, done, slots, receiverHello>>
netVars == <<fbNet, fbStale, finNet>>
vars == <<loopVars, threadVars, receiverVars, netVars>>

Outcome == {"run", "done", "aborted", "crashed"}

\* What a feedback says of one open block; NoItem when it does not list it.
Item == [unique : Nat \cup {-1}, failed : BOOLEAN]
NoItem == [unique |-> -1, failed |-> FALSE]
NoItems == [b \in Block |-> NoItem]
Listed(items) == {b \in Block : items[b] # NoItem}

\* The loop's snapshot between two turns, when it is dead.
NoSnap == [completed |-> {}, open |-> NoItems, tail |-> FALSE]

Packet == [done : SUBSET Block, open : [Block -> Item]]

TypeOK ==
    /\ pc \in {"top", "admit", "end"}
    /\ sender \in Outcome
    /\ next \in 0 .. TotalBlocks
    /\ active \subseteq Block
    /\ known \in [Block -> [unique : Nat, failed : BOOLEAN]]
    /\ sent \in [Block -> 0 .. MaxEsi]
    /\ snap \in [completed : SUBSET Block, open : [Block -> Item], tail : BOOLEAN]
    /\ completed \subseteq Block
    /\ openRx \in [Block -> Item]
    /\ clientFin \in BOOLEAN
    /\ senderHello \in BOOLEAN
    /\ receiver \in Outcome
    /\ rx \in [Block -> SUBSET Esi]
    /\ done \subseteq Block
    /\ slots \subseteq Block
    /\ receiverHello \in BOOLEAN
    /\ fbNet \in Seq(Packet)
    /\ fbStale \in 0 .. Len(fbNet)
    /\ finNet \in BOOLEAN

SenderInit ==
    /\ pc = "top" /\ sender = "run" /\ next = 0 /\ active = {}
    /\ known = [b \in Block |-> [unique |-> 0, failed |-> FALSE]]
    /\ sent = [b \in Block |-> 0]
    /\ snap = NoSnap
    /\ completed = {} /\ openRx = NoItems
    /\ clientFin = FALSE /\ senderHello = FALSE

ReceiverInit ==
    /\ receiver = "run"
    /\ rx = [b \in Block |-> {}]
    /\ done = {} /\ slots = {} /\ receiverHello = FALSE

NetInit == fbNet = <<>> /\ fbStale = 0 /\ finNet = FALSE

Init == SenderInit /\ ReceiverInit /\ NetInit

-----------------------------------------------------------------------------
(* The send loop *)

SenderAt(where) == sender = "run" /\ pc = where

\* Slip: a block that a feedback lists is taken for received.
ReapedOfOpen == {b \in active : b \in completed \/ openRx[b] # NoItem}

\* _reap_completed(): the blocks that leave the window.
Reaped == active \cap completed

\* snapshot(), the abort checks that let the loop go on, _reap_completed().
LoopTop ==
    /\ SenderAt("top") /\ ~clientFin /\ ~senderHello
    /\ snap' = [completed |-> completed, open |-> openRx,
                tail |-> next >= TotalBlocks]
    /\ active' = active \ Reaped
    /\ pc' = "admit"
    /\ UNCHANGED <<sender, next, known, sent, threadVars, receiverVars, netVars>>

\* Slip: one block past the end of the file.
WindowOpenPastEnd == next <= TotalBlocks /\ Cardinality(active) < ActiveBlocks

\* The loop condition of _admit_source().
WindowOpen == next < TotalBlocks /\ Cardinality(active) < ActiveBlocks

\* _admit_source(), one turn of its loop: the next block enters the window
\* once the encode pipeline has its first flight.
AdmitSource ==
    /\ SenderAt("admit") /\ WindowOpen
    /\ active' = active \cup {next}
    /\ sent' = [sent EXCEPT ![next] = K + InitialRepair]
    /\ next' = next + 1
    /\ UNCHANGED <<pc, sender, known, snap, threadVars, receiverVars, netVars>>

\* apply_open_block(): what the loop knows of b once it has read an item.
Learn(k, item) ==
    [unique |-> IF item.unique > k.unique THEN item.unique ELSE k.unique,
     failed |-> k.failed \/ item.failed]

\* Slip: a block with enough symbols is left alone although decoding failed.
NeedsRepairUntilFull(k) == k.unique < K + RepairMargin

\* repair_need() is positive.
NeedsRepair(k) ==
    \/ k.unique < K + RepairMargin
    \/ k.failed

\* The symbols the receiver holds of b as far as _has_decode_debt() can see.
SeenUnique(b) ==
    IF snap.open[b] # NoItem THEN snap.open[b].unique ELSE known[b].unique

\* run() drips repair in the tail, behind a full window, or when a block has
\* aged and is short of symbols.
Drip ==
    \/ snap.tail
    \/ Cardinality(active) >= ActiveBlocks
    \/ \E b \in active : SeenUnique(b) < K + RepairMargin

\* select_repair_candidates(): an aged block that no feedback lists gets a
\* nudge of 8 symbols whatever is known of it, and so does the last of the
\* window in the tail.
Candidates ==
    {b \in active : \/ NeedsRepair(Learn(known[b], snap.open[b]))
                    \/ snap.open[b] = NoItem
                    \/ snap.tail /\ Cardinality(active) <= TailNudge}

\* The symbols that repair ticks have generated when `made' counts all symbols.
RepairMade(made) ==
    {x \in Block \X Esi : K + InitialRepair <= x[2] /\ x[2] < made[x[1]]}

\* _repair_tick(): every active block learns from the snapshot and fresh
\* repair symbols go out; age, cooldown and the packet budget decide for
\* which blocks and how many, so any amounts for the candidates are possible.
Repair(more) ==
    /\ SenderAt("admit") /\ Drip
    /\ \A b \in Block : /\ more[b] > 0 => b \in Candidates
                        /\ sent[b] + more[b] <= MaxEsi
    /\ known' = [b \in Block |-> IF b \in active
                                 THEN Learn(known[b], snap.open[b])
                                 ELSE known[b]]
    /\ sent' = [b \in Block |-> sent[b] + more[b]]
    /\ Cardinality(RepairMade(sent')) <= MaxRepair
    /\ UNCHANGED <<next, active, snap, threadVars, receiverVars, netVars>>

RepairTick(more) == Repair(more) /\ pc' = "end" /\ UNCHANGED sender

\* The same turn of the loop when no repair tick is due.
NoRepair ==
    /\ SenderAt("admit")
    /\ pc' = "end"
    /\ UNCHANGED <<sender, next, active, known, sent, snap>>
    /\ UNCHANGED <<threadVars, receiverVars, netVars>>

\* Slip: off by one.
AllButOneCompleted == Cardinality(snap.completed) >= TotalBlocks - 1

\* len(completed) >= total_blocks, on the snapshot.
AllCompleted == Cardinality(snap.completed) >= TotalBlocks

\* Everything was admitted and the window has drained: five seconds of this
\* end the loop too.
TailIdle == next >= TotalBlocks /\ active = {}

\* The end of a turn: the loop leaves when its snapshot holds every block or
\* an idle tail has run out, and otherwise starts again.
LoopEnd ==
    /\ SenderAt("end")
    /\ \/ /\ AllCompleted \/ TailIdle
          /\ sender' = "done"
          /\ UNCHANGED <<pc, snap>>
       \/ /\ ~AllCompleted
          /\ pc' = "top" /\ snap' = NoSnap
          /\ UNCHANGED sender
    /\ UNCHANGED <<next, active, known, sent, threadVars, receiverVars, netVars>>

\* The loop condition: client_fin ends the transfer before any abort check.
SenderExitFin ==
    /\ SenderAt("top") /\ clientFin
    /\ sender' = "done"
    /\ UNCHANGED <<pc, next, active, known, sent, snap>>
    /\ UNCHANGED <<threadVars, receiverVars, netVars>>

\* Slip: only the limit for a client that never answered.
ClientNeverHeard ==
    receiver # "run" /\ openRx = NoItems /\ completed = {}

\* client_lost(): too long without feedback, because the network is silent
\* or because the receiver is gone.
ClientLost == "silence" \in Faults \/ receiver # "run"

\* The abort checks at the top: user cancel (only a client has a user), the
\* hello of another session, or a client that has been silent too long.
SenderAbort ==
    /\ SenderAt("top") /\ ~clientFin
    /\ \/ senderHello
       \/ Upload /\ "cancel" \in Faults
       \/ ClientLost
    /\ sender' = "aborted"
    /\ UNCHANGED <<pc, next, active, known, sent, snap>>
    /\ UNCHANGED <<threadVars, receiverVars, netVars>>

\* User cancel seen by _send_wires(), which raises InterruptedError between
\* two batches of a first flight: the block is already in `active', some of
\* its symbols are out, next_block is not moved.
CancelWhileSending(n) ==
    /\ SenderAt("admit")
    /\ Upload /\ "cancel" \in Faults
    /\ WindowOpen
    /\ n < K + InitialRepair
    /\ active' = active \cup {next}
    /\ sent' = [sent EXCEPT ![next] = n]
    /\ sender' = "aborted"
    /\ UNCHANGED <<pc, next, known, snap, threadVars, receiverVars, netVars>>

\* The same in a repair tick, after some of its symbols.
CancelWhileRepairing(more) ==
    /\ Upload /\ "cancel" \in Faults
    /\ Repair(more)
    /\ sender' = "aborted" /\ UNCHANGED pc

-----------------------------------------------------------------------------
(* The feedback thread *)

ThreadRuns == sender = "run" /\ ~senderHello

\* Slip: late datagrams are applied too.
AnyFeedback(i) == i \in 1 .. Len(fbNet)

\* feedback_id is newer than the last one applied.
NewerFeedback(i) == i > fbStale

\* The open_rx of apply() before the cap: listed blocks are updated, blocks
\* known to be completed and not listed are dropped.
MergedOpen(p) ==
    [b \in Block |-> IF p.open[b] # NoItem THEN p.open[b]
                     ELSE IF b \in completed \cup p.done THEN NoItem
                     ELSE openRx[b]]

\* Slip: the table grows without a cap.
NoneEvicted(items) == 0

\* How many entries the cap of apply() removes.
Evicted(items) ==
    LET excess == Cardinality(Listed(items)) - OpenCap
    IN  IF excess > 0 THEN excess ELSE 0

\* SenderFeedbackState.apply() on datagram i, refused when its id is not
\* newer than the last one applied.  Above OpenCap entries the stale ones
\* (not listed by this datagram) go first.
ApplyFeedback(i) ==
    LET p == fbNet[i]
        merged == MergedOpen(p)
        stale == {b \in Block : merged[b] # NoItem /\ p.open[b] = NoItem}
    IN  /\ ThreadRuns
        /\ NewerFeedback(i)
        /\ fbStale' = i
        /\ completed' = completed \cup p.done
        /\ \E drop \in SUBSET stale :
              /\ Cardinality(drop) = Evicted(merged)
              /\ openRx' = [b \in Block |-> IF b \in drop THEN NoItem ELSE merged[b]]
        /\ UNCHANGED <<loopVars, clientFin, senderHello, receiverVars, fbNet, finNet>>

\* A FIN of this session sets client_fin.
RecvFin ==
    /\ ThreadRuns /\ finNet
    /\ clientFin' = TRUE
    /\ UNCHANGED <<loopVars, completed, openRx, senderHello, receiverVars, netVars>>

\* A hello of another session reaches the serving sender.
SenderHello ==
    /\ ThreadRuns /\ ~Upload /\ "hello" \in Faults
    /\ senderHello' = TRUE
    /\ UNCHANGED <<loopVars, completed, openRx, clientFin, receiverVars, netVars>>

-----------------------------------------------------------------------------
(* The receiver *)

\* Slip: the loop looks at its abort checks after the last block too.
MayStillAbort == TRUE

\* The receive loop goes on, and looks at its abort checks, while blocks are
\* missing.
BlocksMissing == done # Block

\* Slip: the receiver's margin exceeds the sender's.
DecodeFailedLate(S) == Cardinality(S) > K + RepairMargin /\ S # Source

\* GenReceiveSlot.decode_failed for an undecoded block with symbols S.
DecodeFailed(S) ==
    /\ Cardinality(S) >= K + FailMargin
    /\ S # Source

\* Whether the symbols S can, and whether they must, rebuild the block: all
\* source symbols always do; otherwise RaptorQ needs at least K symbols.
MayDecode(S) == Source \subseteq S \/ Cardinality(S) >= K
MustDecode(S) == Source \subseteq S \/ Cardinality(S) >= K + DecodeSlack

\* _on_data() for a symbol its slot has not seen.  A decoded block whose
\* slot is gone ignores it; a ghost slot only counts it.
DeliverData(b, e) ==
    /\ receiver = "run"
    /\ e < sent[b] /\ e \notin rx[b]
    /\ b \in slots \/ b \notin done
    /\ rx' = [rx EXCEPT ![b] = @ \cup {e}]
    /\ slots' = slots \cup {b}
    /\ \/ /\ b \in done \/ ~MustDecode(rx'[b])
          /\ UNCHANGED done
       \/ /\ b \notin done /\ MayDecode(rx'[b])
          /\ done' = done \cup {b}
    /\ UNCHANGED <<loopVars, threadVars, receiver, receiverHello, netVars>>

\* One entry of the open list of a feedback.
ItemOf(b) == [unique |-> Cardinality(rx[b]),
              failed |-> b \notin done /\ DecodeFailed(rx[b])]

\* Slip: a block counts as done from its first symbol.
ReportedOpenAsDone(rot) == DoneRanges(done \cup slots, MaxDoneRanges, rot)

\* The done list of a datagram.
ReportedDone(rot) == DoneRanges(done, MaxDoneRanges, rot)

\* The feedback ids that differ: one for each range the done list may start at.
Rotations == {0} \cup 1 .. Cardinality(RangeStarts(done)) - 1

\* The datagram _send_feedback() builds; `rot' stands for the feedback id.
FeedbackPacket(rot) ==
    LET listed == MergeOpen(slots \ done, slots \cap done, MaxOpen, MaxGhost)
    IN  [done |-> ReportedDone(rot),
         open |-> [b \in Block |-> IF b \in listed THEN ItemOf(b) ELSE NoItem]]

\* A datagram enters the network; past MaxFeedback the oldest is lost.
Transmit(p) ==
    IF Len(fbNet) < MaxFeedback
    THEN fbNet' = Append(fbNet, p) /\ UNCHANGED fbStale
    ELSE /\ fbNet' = Append(Tail(fbNet), p)
         /\ fbStale' = IF fbStale > 0 THEN fbStale - 1 ELSE 0

\* _send_feedback() from the receive loop, also in the turn that decoded the
\* last block.  The ghosts whose slot has aged are released afterwards.
SendFeedback(rot) ==
    /\ receiver = "run"
    /\ Transmit(FeedbackPacket(rot))
    /\ \E aged \in SUBSET (slots \cap done) : slots' = slots \ aged
    /\ UNCHANGED <<loopVars, threadVars, receiver, rx, done, receiverHello, finNet>>

\* The loop condition fails: forced feedback, 16 FINs, success.
ReceiverFinish(rot) ==
    /\ receiver = "run" /\ ~BlocksMissing
    /\ Transmit(FeedbackPacket(rot))
    /\ finNet' = TRUE
    /\ receiver' = "done"
    /\ UNCHANGED <<loopVars, threadVars, rx, done, slots, receiverHello>>

\* A hello of another session reaches the serving receiver.
ReceiverHello ==
    /\ receiver = "run" /\ Upload /\ "hello" \in Faults
    /\ receiverHello' = TRUE
    /\ UNCHANGED <<loopVars, threadVars, receiver, rx, done, slots, netVars>>

\* Slip: the idle limit starts with the first DATA.
PeerIdleOnceHeard ==
    Upload /\ slots # {} /\ ("silence" \in Faults \/ sender # "run")

\* A serving receiver gives an idle peer up, before and after its first DATA.
PeerIdle == Upload /\ ("silence" \in Faults \/ sender # "run")

\* The abort checks of the receive loop, reached only while blocks are
\* missing: hello, user cancel (client), or an idle peer (server only).
\* The partial file is unlinked.
ReceiverAbort ==
    /\ receiver = "run" /\ BlocksMissing
    /\ \/ receiverHello
       \/ ~Upload /\ "cancel" \in Faults
       \/ PeerIdle
    /\ receiver' = "aborted"
    /\ UNCHANGED <<loopVars, threadVars, rx, done, slots, receiverHello, netVars>>

-----------------------------------------------------------------------------
(* The environment *)

LoseFeedback(i) ==
    /\ fbNet' = RemoveAt(fbNet, i)
    /\ fbStale' = IF i <= fbStale THEN fbStale - 1 ELSE fbStale
    /\ UNCHANGED <<loopVars, threadVars, receiverVars, finNet>>

SenderCrash ==
    /\ sender = "run" /\ "crash" \in Faults
    /\ sender' = "crashed"
    /\ UNCHANGED <<pc, next, active, known, sent, snap>>
    /\ UNCHANGED <<threadVars, receiverVars, netVars>>

ReceiverCrash ==
    /\ receiver = "run" /\ "crash" \in Faults
    /\ receiver' = "crashed"
    /\ UNCHANGED <<loopVars, threadVars, rx, done, slots, receiverHello, netVars>>

-----------------------------------------------------------------------------

SendLoop ==
    \/ LoopTop \/ AdmitSource
    \/ \E more \in [Block -> 0 .. MaxEsi - K] :
          RepairTick(more) \/ CancelWhileRepairing(more)
    \/ NoRepair \/ LoopEnd \/ SenderExitFin \/ SenderAbort
    \/ \E n \in 0 .. K + InitialRepair : CancelWhileSending(n)

FeedbackThread ==
    \/ \E i \in 1 .. Len(fbNet) : ApplyFeedback(i)
    \/ RecvFin \/ SenderHello

Receiver ==
    \/ \E b \in Block, e \in Esi : DeliverData(b, e)
    \/ \E rot \in Rotations : SendFeedback(rot) \/ ReceiverFinish(rot)
    \/ ReceiverHello \/ ReceiverAbort

Environment ==
    \/ \E i \in 1 .. Len(fbNet) : LoseFeedback(i)
    \/ SenderCrash \/ ReceiverCrash

Next == SendLoop \/ FeedbackThread \/ Receiver \/ Environment

Spec == Init /\ [][Next]_vars

-----------------------------------------------------------------------------
(* Properties *)

\* The sender never takes a block for completed that the receiver has not
\* decoded and written, whatever feedback is lost, repeated or reordered.
CompletedIsDecoded == completed \subseteq done

\* A block that was admitted stays in the send window until the sender knows
\* it decoded: no order of feedback, reap and admit drops a block that still
\* needs repair.
NoBlockLost ==
    sender = "run" => \A b \in 0 .. next - 1 : b \in active \cup completed

\* The receiver's undecoded slots, which hold every symbol in memory, are
\* bounded by the sender's window, as the comment on GenReceiveSlot says
\* ("open gens are already bounded by the server inflight window").
UndecodedSlotsBounded == Cardinality(slots \ done) <= ActiveBlocks

\* BlockSender.run() returns False only when the receiver holds every block
\* and has not thrown, nor will throw, its file away.  All three exits of its
\* loop are meant: FIN, all blocks completed, and the idle tail.
DoneMeansDelivered ==
    sender = "done" => done = Block /\ receiver # "aborted"

\* Whatever mixture of old and new feedback the loop works with, a window
\* block that the receiver has not decoded has a positive repair_need().
\* This needs FEC_RAPTORQ_MARGIN of the sender to be no smaller than the
\* margin at which GenReceiveSlot admits that decoding failed.
RepairNeverStarves ==
    \A b \in active \ done : NeedsRepair(Learn(known[b], snap.open[b]))

\* The sender's table of open blocks stays under its cap, although the open
\* lists it merges name different blocks over time.
OpenTableBounded == Cardinality(Listed(openRx)) <= OpenCap

\* What the sender sees of an open block never goes back in time: a late
\* datagram does not lower the symbol count of a block.
ViewMonotone ==
    [][\A b \in Block : openRx'[b] # NoItem =>
                         openRx'[b].unique >= openRx[b].unique]_openRx

\* A block leaves the window only after the receiver has decoded it.
ReapOnlyDecoded == [][active \ active' \subseteq done]_active

-----------------------------------------------------------------------------
(* The invariant the proofs of BlockTransferProofs are by induction on.     *)

InFlight == {fbNet[i] : i \in 1 .. Len(fbNet)}

\* All knowledge of done blocks is true, and the snapshot is the oldest.
Soundness ==
    /\ completed \subseteq done
    /\ snap.completed \subseteq completed
    /\ \A p \in InFlight : p.done \subseteq done

\* What was put on the wire is in the window or completed.
WindowShape ==
    /\ \A b \in 0 .. next - 1 : b \in active \cup completed
    /\ sender = "run" /\ pc # "top" =>
          \A b \in 0 .. next - 1 : b \in active \cup snap.completed
    /\ \A b \in Block : sent[b] > 0 => b \in active \cup completed
    /\ \A b \in slots : sent[b] > 0
    /\ sender = "run" => \A b \in Block : b \in active \/ sent[b] > 0 => b < next
    /\ Cardinality(active) <= ActiveBlocks

\* Success, and every sign of it, comes after the last block.
EndShape ==
    /\ finNet \/ clientFin \/ receiver = "done" \/ sender = "done" => done = Block
    /\ receiver = "aborted" => done # Block

\* An item with enough symbols for a block still open says decoding failed.
Honest(b, item) == b \in done \/ item.unique < K + RepairMargin \/ item.failed
ItemsHonest ==
    \A b \in Block :
        /\ Honest(b, openRx[b]) /\ Honest(b, snap.open[b]) /\ Honest(b, known[b])
        /\ \A p \in InFlight : Honest(b, p.open[b])

Consistent == Soundness /\ WindowShape /\ EndShape /\ ItemsHonest

\* The transfer is a refinement of FileDelivery.
Delivery == INSTANCE FileDelivery WITH
                Blocks <- Block, delivered <- done, acked <- completed,
                source <- sender, sink <- receiver
ImplementsDelivery == Delivery!Spec
=============================================================================
