-------------------------- MODULE BlockTransferLive --------------------------
(***************************************************************************)
(* Liveness of a block transfer: the fairness the code's scheduling and a  *)
(* usable network justify, and what must then eventually happen.           *)
(***************************************************************************)
EXTENDS BlockTransfer

CONSTANT MaxLoss  \* symbols of a block the network may withhold for ever

ASSUME LossAssumption == MaxLoss \in Nat

\* The repair tick serves block b.
RepairBlock(b) ==
    \E more \in [Block -> 0 .. MaxEsi - K] : more[b] > 0 /\ RepairTick(more)

\* Both threads and the receive loop keep running.  AdmitSource and the
\* repair of one block need strong fairness: the loop only passes by the
\* point where they are possible, the encode pool finishes every job, and
\* age and cooldown timers expire.
SchedulingFairness ==
    /\ WF_vars(LoopTop) /\ WF_vars(NoRepair) /\ WF_vars(LoopEnd)
    /\ WF_vars(SenderExitFin)
    /\ SF_vars(AdmitSource)
    /\ \A b \in Block : SF_vars(RepairBlock(b))
    /\ WF_vars(\E rot \in Rotations : SendFeedback(rot))
    /\ WF_vars(\E rot \in Rotations : ReceiverFinish(rot))

\* The network may withhold MaxLoss symbols of a block, whichever it likes,
\* and delivers the others; it may lose any feedback, but not all from some
\* point on.  FINs may all be lost.
NetworkFairness ==
    /\ \A b \in Block :
          WF_vars(/\ sent[b] > Cardinality(rx[b]) + MaxLoss
                  /\ \E e \in Esi : DeliverData(b, e))
    /\ SF_vars(\E i \in 1 .. Len(fbNet) : ApplyFeedback(i))

\* A flag that asks a loop to stop is looked at, and the idle timers run out
\* once the other side is gone: client_lost() at the sender, the idle limit
\* of a serving receiver (a GET client has none).  Once the limit is over,
\* every pass of the send loop by its top sees it, hence strong fairness.
TimerFairness ==
    /\ SF_vars(/\ senderHello \/ (receiver # "run" /\ ClientLost)
               /\ SenderAbort)
    /\ WF_vars((receiverHello \/ (Upload /\ sender # "run")) /\ ReceiverAbort)

FairSpec == Spec /\ SchedulingFairness /\ NetworkFairness /\ TimerFairness

\* Something from outside ends the transfer: a user, a crash, a foreign hello.
GivenUp ==
    \/ sender \in {"aborted", "crashed"}
    \/ receiver = "crashed" \/ receiverHello

\* Otherwise the receiver gets the whole file, although up to MaxLoss symbols
\* of every block are lost and decodes fail: the deficits and failures that
\* the feedback reports make the sender repair every block.
FileArrives == <>(receiver = "done" \/ GivenUp)

\* Neither side outlives the other by more than its timers: a sender whose
\* receiver is gone stops, and so does a serving receiver whose sender is
\* gone ("bail if the peer vanished", block_xfer.py:1618).
SenderFollows == receiver # "run" ~> sender # "run"
ServerReceiverFollows == (Upload /\ sender # "run") ~> receiver # "run"
=============================================================================
