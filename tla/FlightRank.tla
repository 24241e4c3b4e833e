----------------------------- MODULE FlightRank -----------------------------
(***************************************************************************)
(* How the loss of a block's first flight is measured: GenReceiveSlot of   *)
(* gen_raptor.py on the receiver, the loss samples of block_state.py and   *)
(* the parts of BlockSender that take them.                                *)
(*                                                                         *)
(* The first flight of a block is its K source and R0 repair symbols.  The *)
(* slot counts how many of them have come when it is REPAIR_AGE_S old and  *)
(* reports that count, the freeze, in its feedback items.  The sender      *)
(* turns it into one sample for FecController, from which the size of      *)
(* repairs and the congestion control are derived.  Symbols of later       *)
(* repairs, late symbols, lost feedback and ghosts (slots of decoded       *)
(* blocks that wait for their freeze) must not blur the count.             *)
(*                                                                         *)
(* The module follows one block; the window, the table of open blocks and  *)
(* the choice of repair targets over several blocks are in BlockTransfer.  *)
(* A symbol is only known by its kind: source, repair of the first flight, *)
(* extra.  A symbol that was sent may arrive at any later time or never; a *)
(* repeated one changes nothing.  A feedback that is still on its way when *)
(* the next is sent is lost.  Ages are stages, timers and the percentages  *)
(* computed from a sample are left out.  "Slip" marks a plausible mistake. *)
(***************************************************************************)
EXTENDS Integers, FiniteSetsExt

CONSTANTS
    K,            \* source symbols of a block
    R0,           \* blast_repair_budget()
    MaxExtra,     \* bound: repair symbols sent after the first flight
    Margin,       \* FEC_RAPTORQ_MARGIN, and the 2 of decode_failed
    DecodeSlack   \* symbols above K with which RaptorQ decodes for certain

ASSUME FlightAssumption ==
    /\ K \in Nat \ {0}
    /\ {R0, MaxExtra, Margin, DecodeSlack} \subseteq Nat

Flight == K + R0

VARIABLES
    \* the receiver
    slot,     \* the block's GenReceiveSlot
    \* feedback
    fb,       \* the datagram on its way
    table,    \* what SenderFeedbackState holds of the block
    \* the send loop
    blk,      \* SenderBlockState and where it is kept
    tail,     \* the last block of the file has been admitted
    lastTwo,  \* this block is one of the last two
    ended,    \* run() is over
    \* FecController and ExtraRepairWindow
    stats     \* samples of the block

senderVars == <<blk, tail, lastTwo, ended, stats>>
vars == <<slot, fb, table, senderVars>>

NoItem == [unique |-> -1]
Item == [unique : 0 .. Flight + MaxExtra, failed : BOOLEAN, old : BOOLEAN,
         frozen : -1 .. Flight]
NoPacket == [done |-> FALSE, item |-> NoItem]
Knowledge == [done : BOOLEAN, item : Item \cup {NoItem}]

\* Where a sample's rank comes from: the freeze, or the sender's own clock.
Sample == [missing : 0 .. Flight, frozen : BOOLEAN]

Symbols(s) == s.src + s.rep + s.extra
HasRepair(s) == s.rep + s.extra > 0
Extra == blk.emitted - R0

TypeOK ==
    /\ slot \in [at : {"none", "open", "decoded", "popped"},
                 src : 0 .. K, rep : 0 .. R0, extra : 0 .. MaxExtra,
                 flight : 0 .. Flight, frozen : -1 .. Flight,
                 fed : -1 .. Flight + MaxExtra, old : BOOLEAN]
    /\ fb \in Knowledge /\ table \in Knowledge
    /\ blk \in [at : {"new", "active", "wait", "flushed"}, age : 0 .. 2,
                unique : 0 .. Flight + MaxExtra, emitted : R0 .. R0 + MaxExtra,
                failed : BOOLEAN, atAge : -1 .. Flight + MaxExtra,
                atFlight : -1 .. Flight, sampled : BOOLEAN]
    /\ {tail, lastTwo, ended} \subseteq BOOLEAN
    /\ stats \in [paths : SUBSET Sample, observed : Nat, flushed : Nat]

Init ==
    /\ slot = [at |-> "none", src |-> 0, rep |-> 0, extra |-> 0, flight |-> 0,
               frozen |-> -1, fed |-> -1, old |-> FALSE]
    /\ fb = NoPacket /\ table = NoPacket
    /\ blk = [at |-> "new", age |-> 0, unique |-> 0, emitted |-> R0,
              failed |-> FALSE, atAge |-> -1, atFlight |-> -1, sampled |-> FALSE]
    /\ tail = FALSE /\ lastTwo \in BOOLEAN /\ ended = FALSE
    /\ stats = [paths |-> {}, observed |-> 0, flushed |-> 0]

-----------------------------------------------------------------------------
(* The receiver: _on_data() and add_packet()                               *)

\* decode_failed: enough symbols, yet the slot is open.
DecodeFailed(s) ==
    /\ s.at = "open"
    /\ Symbols(s) >= K + Margin
    /\ s.src # K \/ HasRepair(s)

\* The symbols fed to the decoder when slot s has become t, -1 before it is
\* built.
\* A first repair symbol builds it from all symbols held, later symbols are
\* added.  Slip: it starts with the symbol at hand.
FedFromNow(s, t) == IF ~HasRepair(t) THEN -1 ELSE Max({s.fed, 0}) + 1
Fed(s, t) ==
    IF ~HasRepair(t) THEN -1
    ELSE IF s.fed = -1 THEN Symbols(t) ELSE s.fed + 1

\* The slot with one symbol more, in its counters and in its decoder.
Counted(s, kind) ==
    IF kind = "extra" THEN [s EXCEPT !.extra = @ + 1]
    ELSE IF kind = "rep" THEN [s EXCEPT !.rep = @ + 1, !.flight = @ + 1]
    ELSE [s EXCEPT !.src = @ + 1, !.flight = @ + 1]

Taken(s, kind) ==
    LET t == Counted(s, kind) IN
    IF s.at = "decoded" THEN t ELSE [t EXCEPT !.fed = Fed(s, t)]

\* All source symbols decode, K or more of any kind may.
MayDecode(s) == Symbols(s) >= K
MustDecode(s) == s.src = K \/ Symbols(s) >= K + DecodeSlack

OnTheWire(kind) ==
    /\ blk.at # "new"
    /\ kind = "src" => slot.src < K
    /\ kind = "rep" => slot.rep < R0
    /\ kind = "extra" => slot.extra < Extra

\* A popped slot is not opened again: its block is in `done'.
Recv(kind) ==
    /\ OnTheWire(kind) /\ slot.at # "popped"
    /\ LET s == Taken(slot, kind) IN
         \E decodes \in BOOLEAN :
            /\ decodes => MayDecode(s)
            /\ slot.at # "decoded" /\ MustDecode(s) => decodes
            /\ slot' = [s EXCEPT !.at = IF decodes \/ slot.at = "decoded"
                                        THEN "decoded" ELSE "open"]
    /\ UNCHANGED <<fb, table, senderVars>>

\* The slot is REPAIR_AGE_S old, which is also when its age bucket reaches
\* FLIGHT_AGE_BUCKETS.
SlotAges ==
    /\ slot.at \in {"open", "decoded"} /\ ~slot.old
    /\ slot' = [slot EXCEPT !.old = TRUE]
    /\ UNCHANGED <<fb, table, senderVars>>

\* Slip: the freeze counts repairs, too.
FrozenSymbols(s) == Min({Symbols(s), Flight})
FrozenRank(s) == s.flight

Frozen(s) ==
    IF s.old /\ s.frozen = -1 THEN [s EXCEPT !.frozen = FrozenRank(s)] ELSE s

\* Slip: a ghost goes as soon as it was reported once.
PoppedYoung(s) == s.at = "decoded"
Popped(s) == s.at = "decoded" /\ s.old

\* _send_feedback() freezes, reports and pops.  The lists it cuts may leave
\* out the item, the range or both.
SendFeedback(listed, ranged) ==
    /\ slot.at # "none"
    /\ LET s == Frozen(slot)
           inTable == listed /\ slot.at # "popped"
       IN  /\ fb' = [done |-> ranged /\ slot.at \in {"decoded", "popped"},
                     item |-> IF inTable
                              THEN [unique |-> Symbols(s), failed |-> DecodeFailed(s),
                                    old |-> s.old, frozen |-> s.frozen]
                              ELSE NoItem]
           /\ slot' = IF Popped(s) THEN [s EXCEPT !.at = "popped"] ELSE s
    /\ UNCHANGED <<table, senderVars>>

\* SenderFeedbackState.apply(); an item of a completed block is dropped when
\* the datagram does not repeat it.
ApplyFeedback ==
    /\ fb # NoPacket
    /\ LET done == table.done \/ fb.done IN
         table' = [done |-> done,
                   item |-> IF fb.item = NoItem /\ ~done THEN table.item
                           ELSE fb.item]
    /\ fb' = NoPacket
    /\ UNCHANGED <<slot, senderVars>>

-----------------------------------------------------------------------------
(* The send loop.  A pass works on one snapshot, so it is one step.         *)

\* apply_open_block()
Learn(b) ==
    LET i == table.item IN
    IF i = NoItem THEN b
    ELSE [b EXCEPT !.unique = Max({@, i.unique}),
                   !.failed = @ \/ i.failed,
                   !.atFlight = IF @ = -1 THEN i.frozen ELSE @]

\* first_flight_unique(), and block_loss_frac() as missing symbols.
Rank(b) == IF b.atFlight >= 0 THEN b.atFlight ELSE b.atAge
\* Slip: the sender's own count may exceed the flight.
Shortfall(b) == Flight - Rank(b)
Missing(b) == Max({0, Flight - Rank(b)})

\* make_block_sample().train
Trains(b, isTail) ==
    /\ ~isTail /\ b.unique > 0
    /\ Rank(b) > 0 \/ (b.emitted = R0 /\ b.unique >= K)

\* Slip: the block is not marked as sampled.
Unmarked(b) == b
Marked(b) == [b EXCEPT !.sampled = TRUE]

\* observe_block(), once per block.  Without a rank there is no path sample.
Observed(b) ==
    IF b.sampled THEN stats
    ELSE [stats EXCEPT
            !.observed = @ + 1,
            !.paths = IF Rank(b) < 0 THEN @
                      ELSE @ \cup {[missing |-> Missing(b),
                                    frozen |-> b.atFlight >= 0]}]

\* Slip: without the limit a block whose item was never listed waits on.
ReadyByReport(b, isTail) ==
    b.atFlight >= 0 \/ (isTail /\ b.age >= 1)
Ready(b, isTail) ==
    \/ b.atFlight >= 0
    \/ table.item # NoItem /\ table.item.old
    \/ isTail /\ b.age >= 1
    \/ b.age = 2

\* A block without a stamp gets one when it is flushed.
Stamped(b) ==
    IF b.atAge >= 0 THEN b
    ELSE IF b.atFlight >= 0 THEN [b EXCEPT !.atAge = b.atFlight]
    ELSE IF b.unique > 0 THEN [b EXCEPT !.atAge = b.unique]
    ELSE [b EXCEPT !.unique = K]

\* _flush_flight_samples() for the block b that waits.
Flush(b, isTail) ==
    IF ~Ready(b, isTail)
    THEN blk' = [b EXCEPT !.at = "wait"] /\ UNCHANGED stats
    ELSE LET s == Stamped(b)
             trains == Trains(s, isTail /\ lastTwo)
         IN  /\ blk' = [(IF trains THEN Marked(s) ELSE s) EXCEPT !.at = "flushed"]
             /\ stats' = IF trains
                         THEN [Observed(s) EXCEPT !.flushed = @ + 1] ELSE stats

\* _admit_source(): the first flight leaves.
Admit ==
    /\ ~ended /\ blk.at = "new"
    /\ blk' = [blk EXCEPT !.at = "active"]
    /\ UNCHANGED <<slot, fb, table, tail, lastTwo, ended, stats>>

\* The block is REPAIR_AGE_S old, then 0.2 s older.
BlockAges ==
    /\ blk.at \in {"active", "wait"} /\ blk.age < 2
    /\ blk' = [blk EXCEPT !.age = @ + 1]
    /\ UNCHANGED <<slot, fb, table, tail, lastTwo, ended, stats>>

TailStarts ==
    /\ ~tail /\ blk.at # "new"
    /\ tail' = TRUE
    /\ UNCHANGED <<slot, fb, table, blk, lastTwo, ended, stats>>

\* _reap_completed(): a completed block leaves the window, and blocks that
\* wait are flushed.
Reap ==
    /\ ~ended
    /\ blk.at = "wait" \/ (blk.at = "active" /\ table.done)
    /\ Flush(Learn(blk), tail)
    /\ UNCHANGED <<slot, fb, table, tail, lastTwo, ended>>

\* select_repair_candidates(): due blocks are stamped with what has come.
Due(b) == b.age >= 1 \/ tail \/ b.failed
Seen(b) ==
    IF Due(b) /\ b.atAge = -1 /\ b.unique > 0 THEN [b EXCEPT !.atAge = b.unique]
    ELSE b

\* GenEncoder.ensure_repair(): n more repair symbols of the block.
Grown(b, n) == [b EXCEPT !.emitted = @ + n]

Needs(b) ==
    \/ b.unique < K + Margin \/ b.failed
    \/ table.item = NoItem /\ b.age >= 1
    \/ tail

\* _repair_tick() with n symbols for the block, none if it is not due, cools
\* down, needs none or finds the budget spent.  Its first repair samples it.
RepairTick(n) ==
    /\ ~ended
    /\ blk.at = "active" /\ ~table.done
    /\ n > 0 => Due(Learn(blk)) /\ Needs(Learn(blk))
    /\ n <= MaxExtra - Extra
    /\ LET b == Grown(Seen(Learn(blk)), n)
           samples == n > 0 /\ ~tail /\ b.atFlight >= 0 /\ Trains(b, FALSE)
       IN  /\ blk' = IF samples THEN Marked(b) ELSE b
           /\ stats' = IF samples THEN Observed(b) ELSE stats
    /\ UNCHANGED <<slot, fb, table, tail, lastTwo, ended>>

\* All blocks are completed: a last flush.
Finish ==
    /\ ~ended /\ tail /\ blk.at \in {"wait", "flushed"}
    /\ ended' = TRUE
    /\ IF blk.at = "wait" THEN Flush(Learn(blk), TRUE) ELSE UNCHANGED <<blk, stats>>
    /\ UNCHANGED <<slot, fb, table, tail, lastTwo>>

\* The session is aborted or its FIN comes.
Stop ==
    /\ ~ended
    /\ ended' = TRUE
    /\ UNCHANGED <<slot, fb, table, blk, tail, lastTwo, stats>>

Receiver ==
    \/ \E kind \in {"src", "rep", "extra"} : Recv(kind)
    \/ SlotAges
    \/ \E listed, ranged \in BOOLEAN : SendFeedback(listed, ranged)

SendLoop ==
    \/ Admit \/ BlockAges \/ TailStarts \/ Reap
    \/ \E n \in 0 .. MaxExtra : RepairTick(n)
    \/ Finish \/ Stop

Next == Receiver \/ ApplyFeedback \/ SendLoop

Spec == Init /\ [][Next]_vars

\* The loop keeps passing and time goes on; nothing is assumed of the network.
FairSpec == Spec /\ WF_vars(Reap) /\ WF_vars(BlockAges)

-----------------------------------------------------------------------------
(* Properties *)

\* A rank that is called a freeze counts symbols of the first flight only,
\* however many repairs filled the hole, is the one freeze the slot ever
\* made, and never says that a symbol which came was lost before it came.
RankIsFirstFlight ==
    /\ slot.frozen <= slot.src + slot.rep
    /\ blk.atFlight \in {-1, slot.frozen}
    /\ \A s \in stats.paths : s.frozen => s.missing = Flight - slot.frozen

\* A block enters the statistics once, although its first repair, a flush of
\* waiting blocks and the end of the session all sample it.
SampledOnce == stats.observed <= 1 /\ stats.flushed <= 1

\* The slot behind the report: until it decodes, its decoder has been given
\* every symbol that came, in whatever order repair and source symbols came;
\* a reported failure is one of the decoder; a slot that was popped has made
\* its freeze, and reported it unless the cut lists left it out.
SlotSound ==
    /\ slot.at = "open" /\ HasRepair(slot) => slot.fed = Symbols(slot)
    /\ slot.at = "open" => slot.src < K
    /\ DecodeFailed(slot) => slot.fed >= K + Margin
    /\ slot.at = "popped" => slot.frozen >= 0

\* A block that waits for its freeze does not wait for ever (each holds its
\* SenderBlockState): not if the freeze was lost, nor if the lists never named
\* it again.
WaitEnds == blk.at = "wait" ~> (blk.at = "flushed" \/ ended)
=============================================================================
