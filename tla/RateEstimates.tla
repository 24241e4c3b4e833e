--------------------------- MODULE RateEstimates ---------------------------
(***************************************************************************)
(* What BlastCc (blastcc.py) concludes from its samples: the filters, the  *)
(* questions it asks of them and the class of the path.                    *)
(*                                                                         *)
(* The controller is one record c.  Rates are integers of one unit, and a  *)
(* product with a gain is rounded down; comparisons are exact.  0 stands   *)
(* for "no estimate".  Loss is in percent, -1 when no first flight was     *)
(* sampled.  The queueing delay is a level: 0 is drained, 1 is between, 2  *)
(* reaches the stop mark, 3 the cut mark.                                  *)
(***************************************************************************)
EXTENDS Integers, Sequences, FiniteSetsExt

CONSTANTS
    MinBps,        \* the floor of the rate
    MaxBps,        \* the cap given by the caller
    StartBps,      \* the start rate given by the caller
    TwoBlocks,     \* two blocks per round trip: below, the pipe is starved
    BwWindow,      \* samples kept, _BW_WINDOW (16 in the code)
    BwMinSamples,  \* samples needed for an estimate, _BW_MIN_SAMPLES (3)
    QdelayHold,    \* feedback with delay before a queue stands (4)
    CliffHold,     \* feedback at a cliff before it counts (4)
    OversendHold,  \* feedback with oversend before it counts (3)
    BwStall,       \* settled feedback without growth that is a stall (3)
    LossHold       \* feedback with grown loss before a lock (2)

ASSUME RatesAssumption ==
    /\ {MinBps, MaxBps, StartBps, TwoBlocks} \subseteq Nat
    /\ 0 < MinBps /\ MinBps <= MaxBps /\ 0 < TwoBlocks

ASSUME HoldsAssumption ==
    /\ {BwWindow, BwMinSamples, QdelayHold, CliffHold, OversendHold, BwStall, LossHold}
         \subseteq Nat \ {0}
    /\ 2 <= BwMinSamples /\ BwMinSamples <= BwWindow

\* x times a gain of n percent.
Times(x, n) == (x * n) \div 100

Loss_Noise == 2
Loss_Knee == 3
Coverable == 24

\* Appends to one of the bounded sample lists.
Kept(s, x) == IF Len(s) < BwWindow THEN Append(s, x) ELSE Append(Tail(s), x)

-----------------------------------------------------------------------------
(* Filters and references *)

\* The second largest delivery: one spike is not the capacity.
MaxBw(c) ==
    IF Len(c.bw) < BwMinSamples THEN 0
    ELSE LET Beaten(i) == \E j \in DOMAIN c.bw \ {i} : c.bw[j] >= c.bw[i]
             beaten == {c.bw[i] : i \in {k \in DOMAIN c.bw : Beaten(k)}}
         IN  Max(beaten)

\* Sends are judged by the measured rate, or by the pace if none is known.
SendOr(c) == IF c.sendRate > 0 THEN c.sendRate ELSE c.rate

Fill == Max({MinBps, TwoBlocks})

\* Slip: the cap of the caller is forgotten.
HardOfInflight == Max({MinBps, (TwoBlocks * 128) \div 5})

\* 64 MiB in flight, with a gain of 1.25, against 2 MiB in the unit of Fill.
Hard == Min({MaxBps, Max({MinBps, (TwoBlocks * 128) \div 5})})

Starved(c) == c.rate < TwoBlocks
OnShelf(x) == 100 * x >= 80 * Fill /\ 100 * x <= 130 * Fill
OnFillShelf(c) == OnShelf(c.rate)
IsFillKnee(c) == c.knee > 0 /\ OnShelf(c.knee)

Locked(c) == c.sawKnee /\ c.knee > 0 /\ ~IsFillKnee(c)
Frozen(c) == c.confirmed /\ Locked(c)

-----------------------------------------------------------------------------
(* Questions about the pipe *)

UniqueCliff(c) == c.delivery > 0 /\ 2 * c.delivery < MaxBw(c)

SendPaused(c) == c.sent /\ 10 * c.sendRate < 3 * c.rate

HolStall(c) == UniqueCliff(c) \/ (SendPaused(c) /\ 10 * c.delivery < 7 * c.rate)

LimiterStale(c) ==
    /\ 2 * c.good >= 3 * Fill
    /\ 0 < c.delivery /\ 100 * c.delivery < 35 * c.good
    /\ SendPaused(c)

FatPipe(c) == c.delivery > 0 /\ ~UniqueCliff(c) /\ 100 * c.delivery >= 90 * SendOr(c)

CleanPipe(c) ==
    /\ ~UniqueCliff(c) /\ ~SendPaused(c)
    /\ IF c.loss >= 0 THEN c.loss < Loss_Noise
       ELSE c.delivery > 0 /\ 100 * c.delivery >= 97 * SendOr(c)

IidLike(c) == MaxBw(c) > 0 /\ ~UniqueCliff(c) /\ 10 * MaxBw(c) >= 7 * c.rate

StandingQueue(c) ==
    /\ ~HolStall(c) /\ ~Starved(c)
    /\ c.highN >= QdelayHold /\ c.q >= 2
    /\ 0 < c.delivery /\ 2 * c.delivery <= 3 * c.rate

\* Samples of slower sends, as pairs of send and delivery or of send and loss.
Slower(samples, limit) ==
    {i \in DOMAIN samples : 0 < samples[i][1] /\ 100 * samples[i][1] < 92 * limit}

\* Delivery per send is at least 92% of the best ratio of the slower sends.
TracksSlower(c) ==
    \A i \in Slower(c.sends, c.rate) :
        100 * c.delivery * c.sends[i][1] >= 92 * c.sends[i][2] * c.rate

LossTracksSend(c) ==
    /\ Cardinality(Slower(c.sends, c.rate)) >= 2 /\ c.delivery > 0
    /\ TracksSlower(c)

SampleLoss(send, got) == IF got >= send THEN 0 ELSE (100 * (send - got)) \div send

\* The least loss seen at slower sends was noise already: not a knee.
NoisyAlready(c) ==
    LET slow == Slower(c.paths, SendOr(c))
    IN  Cardinality(slow) >= 2 /\ \A i \in slow : c.paths[i][2] >= Loss_Noise

DropperKneeSample(c) ==
    LET send == SendOr(c)
        now == SampleLoss(send, c.delivery)
        slow == Slower(c.sends, c.rate)
        old == Min({SampleLoss(c.sends[i][1], c.sends[i][2]) : i \in slow})
    IN  /\ ~UniqueCliff(c) /\ ~SendPaused(c) /\ c.loss >= Loss_Knee
        /\ c.delivery > 0 /\ 100 * c.delivery >= 85 * send
        /\ ~NoisyAlready(c)
        /\ now >= Loss_Knee
        /\ IF c.knee > 0 /\ 100 * send > 105 * c.knee
           THEN 100 * c.delivery >= 90 * c.knee
           ELSE Cardinality(slow) >= 2 /\ now >= old + Loss_Knee

PathLossGrew(c) ==
    LET slow == Slower(c.paths, SendOr(c))
    IN  /\ ~UniqueCliff(c) /\ ~SendPaused(c) /\ c.loss >= Loss_Knee
        /\ IF Cardinality(slow) >= 2 THEN ~NoisyAlready(c)
           ELSE c.knee > 0 /\ 100 * SendOr(c) > 105 * c.knee /\ c.loss <= Coverable

LossGrew(c) == DropperKneeSample(c) /\ c.kneeN >= LossHold

\* The rate runs ahead of what arrives, once 16 blocks have arrived.
PipeOversend(c) ==
    LET bw == MaxBw(c)
        heldCliff == c.recvLag /\ c.cliffN >= CliffHold
        gain == IF c.phase = "startup" THEN 150 ELSE 120
    IN  /\ c.unique >= 8 * TwoBlocks
        /\ IF bw = 0 THEN 0 < c.delivery /\ 2 * c.delivery < c.rate /\ heldCliff
           ELSE /\ SendPaused(c) => (UniqueCliff(c) \/ LimiterStale(c)) /\ heldCliff
                /\ IF UniqueCliff(c)
                   THEN \/ 100 * c.rate >= 135 * bw
                        \/ heldCliff /\ c.rate > 3 * c.delivery /\ 100 * c.rate >= 90 * bw
                   ELSE \/ LimiterStale(c) /\ heldCliff
                        \/ /\ ~(c.fewSource /\ c.sendRate > 0 /\ c.recvLag /\ ~LimiterStale(c))
                           /\ ~IidLike(c)
                           /\ 100 * c.rate > gain * bw

OverDelivery(c) ==
    \/ LossGrew(c)
    \/ /\ PipeOversend(c) /\ c.delivery > 0
       /\ Cardinality(Slower(c.sends, c.rate)) >= 2
       /\ ~TracksSlower(c)

PathClass(c) ==
    IF HolStall(c) /\ c.loss < Loss_Noise THEN "hol"
    ELSE IF StandingQueue(c) THEN "queue"
    ELSE IF PathLossGrew(c) \/ DropperKneeSample(c) THEN "dropper"
    ELSE IF PipeOversend(c) /\ ~IidLike(c) /\ ~LossTracksSend(c) THEN "policer"
    ELSE IF IidLike(c) /\ ~CleanPipe(c) THEN "iid"
    ELSE "unknown"

MaySearchPastLock(c) ==
    \/ OnFillShelf(c) \/ IsFillKnee(c)
    \/ ~Locked(c)
    \/ /\ ~Frozen(c) /\ ~HolStall(c) /\ c.kind # "queue"
       /\ c.loss < Loss_Knee

-----------------------------------------------------------------------------
(* Ceilings and floors *)

StartupGain(c) ==
    LET dirty == ~CleanPipe(c)
        stalled == c.bwStallN >= BwStall
        fat == c.wasFat \/ FatPipe(c)
    IN  IF dirty /\ fat /\ stalled THEN 115
        ELSE IF dirty /\ IidLike(c) THEN 150
        ELSE IF ~Starved(c) /\ (stalled \/ fat) THEN 125
        ELSE 288

StartupSearchCap(c) ==
    LET bw == MaxBw(c)
        ref == IF 0 < c.delivery /\ 2 * c.delivery <= 3 * bw THEN Max({bw, c.delivery}) ELSE bw
    IN  Min({Hard, Max({MinBps, IF bw = 0 THEN Times(StartBps, 125)
                                     ELSE Times(ref, StartupGain(c))})})

RateCeiling(c) ==
    LET bw == MaxBw(c) IN
    IF c.confirmed /\ c.knee > 0 /\ ~IsFillKnee(c)
    THEN Min({Hard, Max({MinBps, c.knee})})
    ELSE IF c.phase = "startup"
    THEN IF Starved(c) /\ bw > 0 /\ c.unique < 8 * TwoBlocks
         THEN Max({StartupSearchCap(c), Min({Hard, Fill})})
         ELSE StartupSearchCap(c)
    ELSE IF Starved(c) THEN Min({Hard, Max({Times(c.rate, 125), Fill})})
    ELSE IF bw = 0 THEN Hard
    ELSE Min({Hard, Max({MinBps, Max({c.rate, Times(bw, 115)})})})

RaiseCeiling(c) ==
    LET bw == MaxBw(c)
        cap == IF c.confirmed /\ ~IsFillKnee(c)
               THEN IF c.knee > 0 THEN c.knee ELSE bw
               ELSE Times(bw, StartupGain(c))
    IN  IF Starved(c) \/ bw = 0 THEN Hard ELSE Min({Hard, Max({MinBps, cap})})

\* Slip: the lock is forgotten.
FloorOfGood(c) == Max({MinBps, Times(c.good, 90)})

\* The floor is 90% of the last good rate, and a locked knee.
Floor(c) ==
    Max({Max({MinBps, Times(c.good, 90)}), IF Locked(c) THEN c.knee ELSE 0})

Clip(c, r) ==
    Min({IF c.phase = "probe" THEN RaiseCeiling(c) ELSE RateCeiling(c),
            Max({Floor(c), r})})
=============================================================================
