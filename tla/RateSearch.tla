----------------------------- MODULE RateSearch -----------------------------
(***************************************************************************)
(* The rate search of BlastCc (blastcc.py) in a closed loop with a path.   *)
(*                                                                         *)
(* cc is the controller.  A step is one new feedback, handled by the phase *)
(* the controller is in, or a call of on_timer between two feedbacks.      *)
(* Time passes in ticks of one round trip, one for every feedback that is  *)
(* not early; deadlines are ages and remainders in ticks.                  *)
(*                                                                         *)
(* The path delivers up to Capacity.  A spell of bad weather may hold for  *)
(* as long as it likes, and there are MaxSpells of them.                   *)
(*                                                                         *)
(* Left out: the measure phase, which nothing enters (_start_measure has   *)
(* no caller), and the answers nobody asks for (fec_may_raise,             *)
(* fec_may_lower, _should_lock_c).                                         *)
(***************************************************************************)
EXTENDS RateEstimates

CONSTANTS
    StepTicks,      \* a step is settled after that many ticks, 0.16 s
    ClimbWait,      \* ticks in cruise before a probe, _CLIMB_WAIT_S
    ProbeWait,      \* the same on a plateau, _PROBE_WAIT_S
    ProbeTicks,     \* length of a probe, 0.32 s
    DrainTicks,     \* length of a drain, _DRAIN_MAX_S
    DrainMaxCuts,   \* cuts in one drain, _DRAIN_MAX_CUTS
    CutHoldoff,     \* holdoff after a wreck, 0.8 s
    ProbeHoldoff,   \* holdoff after an aborted probe, 0.5 s
    Capacity,       \* what the path delivers
    Weathers,       \* the kinds of weather that may come
    MaxSpells       \* bound on the spells

ASSUME TicksAssumption ==
    {StepTicks, ClimbWait, ProbeWait, ProbeTicks, DrainTicks, DrainMaxCuts,
     CutHoldoff, ProbeHoldoff, Capacity, MaxSpells} \subseteq Nat \ {0}

WeatherKinds == {"hol", "stall", "queue", "loss", "lag", "narrow", "early", "noise"}

ASSUME WeatherAssumption == Weathers \subseteq WeatherKinds

VARIABLES
    cc,       \* the controller
    weather,  \* "fair" or the bad weather of this spell
    spells,   \* spells that are left
    odd       \* whether an odd number of feedback was handled

vars == <<cc, weather, spells, odd>>

MaxWait == Max({StepTicks, ClimbWait, ProbeWait, DrainTicks})

-----------------------------------------------------------------------------
(* Phases and the knee *)

EnterCruise(c, takeRate) ==
    [c EXCEPT !.phase = "cruise",
              !.good = IF takeRate THEN Max({@, c.rate}) ELSE @,
              !.sinceCruise = 0, !.sinceStep = 0,
              !.highN = 0, !.lowN = 0, !.drainCuts = 0, !.oversendN = 0]

\* The best proof of what the path delivers: the filter, the live delivery
\* unless it is a trickle, and the sends that arrived.
DeliveryCap(c) ==
    LET tracked == {i \in DOMAIN c.sends : /\ c.sends[i][1] > 0
                                           /\ 100 * c.sends[i][2] >= 99 * c.sends[i][1]}
        live == IF UniqueCliff(c) \/ c.recvLag THEN 0 ELSE c.delivery
    IN  Max({MaxBw(c), live} \cup {Min({c.sends[i][1], c.sends[i][2]}) : i \in tracked})

Sanitized(c, knee) ==
    LET cap == DeliveryCap(c)
    IN  IF cap = 0 \/ knee <= Times(cap, 110) THEN knee ELSE Max({MinBps, Times(cap, 110)})

\* A soft knee: a rate whose sends arrive.
NoteKnee(c) ==
    LET latched == Sanitized(c, Min({c.sendRate, c.delivery, c.rate}))
    IN  IF /\ ~c.sawKnee /\ c.sendRate > 0 /\ c.delivery > 0 /\ ~UniqueCliff(c)
           /\ 2 * c.sendRate >= c.rate /\ 10 * c.sendRate <= 11 * c.rate
           /\ c.loss < Loss_Knee
           /\ 100 * c.delivery >= 99 * c.sendRate
           /\ 100 * latched > 130 * Fill
        THEN [c EXCEPT !.knee = Max({@, latched})] ELSE c

LastCleanSend(c) ==
    IF c.knee > 0 THEN c.knee
    ELSE Max({0} \cup {c.sends[i][1] : i \in {k \in DOMAIN c.sends :
                                  100 * c.sends[k][2] >= 99 * c.sends[k][1]}})

\* The rate to lock, 0 if there is none.
LockRate(c) ==
    LET send == SendOr(c)
        cliff == UniqueCliff(c)
        quiet == c.loss < Loss_Knee
        clean == LastCleanSend(c)
        leftover == /\ 0 < clean /\ clean < c.delivery /\ ~cliff
                    /\ 100 * c.delivery <= 120 * clean
        dropped == \/ leftover /\ (quiet \/ 100 * clean < 90 * c.delivery)
                   \/ 2 * clean < c.delivery /\ ~cliff /\ quiet
        tracking == c.delivery > 0 /\ ~cliff /\ 100 * c.delivery >= 90 * send
        knee == IF clean > 0 /\ ~dropped THEN clean
                ELSE IF tracking
                THEN IF 100 * c.rate >= 85 * send THEN Min({send, c.rate}) ELSE send
                ELSE IF CleanPipe(c)
                THEN Min({send, c.rate} \cup
                         (IF c.delivery > 0 THEN {Times(c.delivery, 110)} ELSE {}))
                ELSE MaxBw(c)
        ahead == /\ 100 * knee > 110 * send /\ ~SendPaused(c) /\ ~cliff
                 /\ ~(c.delivery > 0 /\ 100 * send < 70 * c.delivery)
    IN  IF (clean = 0 \/ dropped) /\ ~quiet
        THEN IF leftover THEN c.delivery ELSE 0
        ELSE IF knee = 0 THEN 0
        ELSE Sanitized(c, IF ahead THEN send ELSE knee)

LockedAt(c, knee) ==
    EnterCruise([c EXCEPT !.knee = knee, !.rate = knee, !.good = knee, !.sawKnee = TRUE], FALSE)

\* A knee on the two-block shelf only lifts the rate.
LockFound(c, knee) ==
    IF knee = 0 THEN c
    ELSE IF 100 * knee <= 130 * Fill
    THEN [c EXCEPT !.rate = Max({@, knee}), !.sinceStep = 0,
                   !.good = IF c.rate < knee THEN Max({@, knee}) ELSE @]
    ELSE LockedAt(c, Sanitized(c, knee))

\* Slip: any knee is locked.
LockAnyKnee(c) ==
    IF LockRate(c) = 0 THEN c ELSE LockedAt(c, Sanitized(c, LockRate(c)))

LockKnee(c) == LockFound(c, LockRate(c))

\* Loss has grown: with the send rate, or with a probe's extra repair.
KneeHit(c) == PathLossGrew(c) \/ (DropperKneeSample(c) /\ ~(c.extra /\ c.knee = 0))

LockIfHeld(c) ==
    IF c.kneeN >= LossHold /\ ~OnFillShelf(c) /\ ~c.sawKnee THEN LockKnee(c) ELSE c

NoteLossKnee(c) ==
    IF c.phase = "drain" THEN c
    ELSE LockIfHeld([c EXCEPT !.kneeN = IF KneeHit(c) THEN Min({@ + 1, LossHold}) ELSE 0])

\* A probe met a dropper: what it started from is the capacity.
AbortProbeDropper(c) ==
    LET base == IF c.knee > 0 THEN c.knee ELSE c.probeBase
        prior == Max({c.good, c.knee})
    IN  IF 100 * base <= 130 * Fill
        THEN EnterCruise([c EXCEPT !.confirmed = FALSE, !.sawKnee = FALSE, !.knee = 0,
                                   !.rate = Max({base, Fill})], FALSE)
        ELSE IF 2 * prior >= 3 * Fill /\ 100 * base < 85 * prior
        THEN EnterCruise([c EXCEPT !.rate = Max({base, Times(prior, 75)}), !.good = prior,
                                   !.knee = IF @ = 0 THEN prior ELSE @,
                                   !.confirmed = FALSE], FALSE)
        ELSE EnterCruise([c EXCEPT !.knee = base, !.rate = base,
                                   !.good = Max({@, base}),
                                   !.sawKnee = TRUE, !.confirmed = TRUE], FALSE)

-----------------------------------------------------------------------------
(* Cuts *)

AimDelivery(c) ==
    LET live == Max({MinBps, Times(c.delivery, 110)})
    IN  IF Locked(c) THEN c.knee
        ELSE IF LossGrew(c) /\ c.knee > 0 THEN Max({MinBps, c.knee})
        ELSE IF UniqueCliff(c) /\ c.recvLag
        THEN IF 100 * c.delivery >= 40 * Fill /\ 2 * c.good >= 3 * Fill
             THEN Max({live, Times(c.good, 75)}) ELSE Max({live, Fill})
        ELSE IF MaxBw(c) = 0 THEN c.rate
        ELSE Max({MinBps, Times(MaxBw(c), 110)})

HoldLocked(c) == [c EXCEPT !.rate = c.knee, !.good = Max({@, c.knee})]

CutToDelivery(c) ==
    LET rate == Min({c.rate, AimDelivery(c)})
    IN  IF Locked(c) THEN [HoldLocked(c) EXCEPT !.sinceStep = 0]
        ELSE [c EXCEPT !.rate = rate, !.sinceStep = 0,
                       !.good = IF c.knee > 0 THEN Max({@, c.knee}) ELSE Min({@, rate})]

CutPolicer(c) ==
    IF c.phase = "startup" THEN EnterCruise(CutToDelivery(c), TRUE) ELSE CutToDelivery(c)

ForgetStaleBw(c) ==
    [c EXCEPT !.bw = <<>>, !.sends = <<>>, !.paths = <<>>, !.bwPeak = 0, !.bwStallN = 0,
              !.wasFat = FALSE, !.knee = 0, !.sawKnee = FALSE, !.confirmed = FALSE,
              !.kneeN = 0, !.loss = -1]

\* A fallen pipe: keep what is known of the capacity, or forget it and start
\* from the live delivery.
RecoverWrecked(c) ==
    LET held == Max({c.good, MaxBw(c), c.knee})
        fat == 2 * held >= 3 * Fill
        live == IF c.delivery > 0 THEN Max({MinBps, Times(c.delivery, 110)}) ELSE Fill
        trickle == 100 * c.delivery < 40 * Fill
        pausedStale == /\ SendPaused(c) /\ 2 * c.good >= 3 * Fill
                       /\ c.delivery > 0 /\ 100 * c.delivery < 35 * c.good
        sane == Sanitized(c, c.knee)
        fatRate == Sanitized(c, Max({IF c.knee > 0 THEN c.knee ELSE Times(held, 75), Fill}))
        aimed == IF ~trickle /\ ~pausedStale /\ 2 * c.good >= 3 * Fill
                 THEN Max({live, Times(c.good, 75)}) ELSE Max({Fill, live})
        Held(rate) == [c EXCEPT !.rate = rate, !.good = Max({@, rate}), !.sinceStep = 0]
    IN  IF Locked(c) THEN [HoldLocked(c) EXCEPT !.sinceStep = 0]
        ELSE IF c.knee > 0 /\ ~trickle THEN [Held(sane) EXCEPT !.knee = sane]
        ELSE IF c.knee > 0 \/ (trickle /\ fat /\ c.wasFat)
        THEN [Held(Max({Fill, fatRate})) EXCEPT
                 !.knee = IF @ > 0 THEN Min({@, Max({fatRate, Fill})}) ELSE @,
                 !.holdoff = CutHoldoff]
        ELSE IF trickle /\ fat /\ 0 <= c.loss /\ c.loss < Loss_Noise
        THEN [Held(Max({Fill, Times(held, 75)})) EXCEPT !.holdoff = CutHoldoff]
        ELSE [ForgetStaleBw(c) EXCEPT !.rate = Min({@, aimed}),
                                      !.good = Min({@, c.rate, aimed}),
                                      !.sinceStep = 0, !.holdoff = CutHoldoff]

DrainTarget(c) ==
    LET aimed == AimDelivery(c)
    IN  IF aimed <= c.rate THEN Max({Times(c.rate, 75), aimed}) ELSE Times(c.rate, 75)

BeginDrain(c) ==
    LET d == [c EXCEPT !.phase = "drain", !.drainAge = 0, !.drainCuts = 1, !.sinceStep = 0]
        aimed == AimDelivery(d)
        soft == Times(d.rate, 93)
        eased == IF aimed < d.rate THEN Max({soft, aimed}) ELSE soft
        inCruise == c.phase = "cruise"
    IN  [d EXCEPT !.rate = Clip(d, IF inCruise THEN eased ELSE DrainTarget(d)),
                  !.highN = IF inCruise THEN 0 ELSE @]

-----------------------------------------------------------------------------
(* The phases: what one feedback does, after it was noted.  f holds what   *)
(* on_feedback worked out from it.                                         *)

Settled(c) == c.sinceStep >= StepTicks

\* The buffer on the path is full: a queue stands.
BufferFull(c) ==
    c.kind = "queue" \/ (c.q >= 2 /\ c.highN >= QdelayHold /\ ~HolStall(c) /\ ~Starved(c))

Policer(c) == c.holdoff = 0 /\ OverDelivery(c)

Oversend(c) == c.holdoff = 0 /\ PipeOversend(c) /\ ~LossTracksSend(c)

OversendHeld(c) == Oversend(c) /\ (c.oversendN >= OversendHold \/ UniqueCliff(c))

\* The measured delivery is wrecked, and has been for long enough.
WreckHeld(c) == OversendHeld(c) /\ (UniqueCliff(c) \/ LimiterStale(c))

StartupStalled(c) ==
    MaxBw(c) > 0 /\ c.bwStallN >= BwStall /\ 100 * c.rate >= 95 * MaxBw(c) /\ ~Starved(c)

SettleStartup(c) ==
    LET bw == MaxBw(c)
        aimed == Max({MinBps, IF c.wasFat THEN bw ELSE Times(bw, 110)})
        d == [c EXCEPT !.rate = Min({@, aimed})]
        held == Max({c.knee, bw})
    IN  IF PathLossGrew(c) \/ DropperKneeSample(c) THEN LockKnee(c)
        ELSE EnterCruise(IF 2 * held >= 3 * Fill
                         THEN [d EXCEPT !.good = Max({@, Sanitized(d, held)})] ELSE d, FALSE)

\* The next rate of the startup ramp: what was seen, times the gain.
Ramp(c) ==
    LET seen == Max({IF MaxBw(c) > 0 THEN MaxBw(c) ELSE c.rate, c.delivery})
    IN  Min({RateCeiling(c), Max({c.rate, Times(seen, StartupGain(c))})})

TickStartup(c, f) ==
    IF BufferFull(c) THEN BeginDrain(c)
    ELSE IF c.kind = "dropper" THEN LockKnee(c)
    ELSE IF WreckHeld(c) THEN EnterCruise(RecoverWrecked(c), FALSE)
    ELSE IF OversendHeld(c) /\ Settled(c) /\ ~c.recvLag THEN CutPolicer(c)
    ELSE IF Settled(c) /\ Policer(c) THEN CutPolicer(c)
    ELSE IF 100 * c.rate >= 98 * Hard THEN EnterCruise(c, TRUE)
    ELSE IF StartupStalled(c) THEN SettleStartup(c)
    ELSE IF Settled(c) THEN [c EXCEPT !.rate = Ramp(c), !.sinceStep = 0]
    ELSE c

TickDrain(c, f) ==
    IF Policer(c) THEN EnterCruise(CutToDelivery(c), TRUE)
    ELSE IF WreckHeld(c) THEN EnterCruise(RecoverWrecked(c), FALSE)
    ELSE IF OversendHeld(c) /\ ~c.recvLag THEN CutPolicer(c)
    ELSE IF c.lowN >= 2 \/ c.drainAge >= DrainTicks THEN EnterCruise(c, TRUE)
    ELSE IF Settled(c) /\ c.drainCuts < DrainMaxCuts
    THEN [c EXCEPT !.sinceStep = 0, !.drainCuts = @ + 1, !.rate = Clip(c, DrainTarget(c))]
    ELSE c

EmptyPipe(c) ==
    \/ c.unique < 8 * TwoBlocks \/ UniqueCliff(c)
    \/ 0 < c.delivery /\ 100 * c.delivery < 40 * Fill

\* A step up in cruise, up to the ceiling, unless it is reached already.
FillStep(c, d, ceiling) ==
    IF Settled(c) /\ 100 * c.rate < 98 * ceiling
    THEN [d EXCEPT !.sinceStep = 0, !.rate = Min({ceiling, Clip(d, Times(c.rate, 125))})]
    ELSE c

Follows(c) == c.delivery > 0 /\ 10 * c.delivery >= 7 * c.rate

Plateau(c) ==
    LET bw == MaxBw(c)
    IN  bw > 0 /\ c.bwPeak > 0 /\ 100 * bw <= 105 * c.bwPeak /\ 100 * c.rate >= 115 * bw

MaySearch(c) ==
    /\ MaySearchPastLock(c) /\ c.kind \notin {"dropper", "queue"}
    /\ c.holdoff = 0 /\ ~Policer(c) /\ ~PipeOversend(c) /\ c.q < 2
    /\ 100 * c.rate < 98 * RaiseCeiling(c)

\* A probe starts after a wait; it is short while delivery follows.
StartProbe(c, f) ==
    LET bw == MaxBw(c)
        near == Follows(c) \/ (bw > 0 /\ 100 * c.rate < 135 * bw)
        wait == IF near /\ ~Plateau(c) THEN ClimbWait ELSE ProbeWait
        gain == IF near /\ ~Plateau(c) THEN 125 ELSE 110
        d == [c EXCEPT !.phase = "probe", !.probeBase = c.rate,
                       !.probeDecoded = c.decoded, !.probeUnique = c.delivery,
                       !.probeLeft = ProbeTicks]
    IN  IF \/ UniqueCliff(c) /\ ~Follows(c)
           \/ c.recvLag /\ (f.full \/ ~Follows(c))
           \/ c.sinceCruise < wait
        THEN c
        ELSE [d EXCEPT !.rate = Min({RaiseCeiling(d), Clip(d, Times(c.rate, gain))})]

TickCruise(c, f) ==
    IF BufferFull(c) THEN BeginDrain(c)
    ELSE IF OnFillShelf(c) /\ ~PipeOversend(c)
    THEN FillStep(c, [c EXCEPT !.confirmed = FALSE, !.sawKnee = FALSE,
                               !.knee = IF IsFillKnee(c) THEN 0 ELSE @],
                  Min({Hard, Max({Times(c.rate, 125), Times(Fill, 288)})}))
    ELSE IF Locked(c) /\ ~MaySearchPastLock(c) THEN HoldLocked(c)
    ELSE IF Starved(c) /\ ~PipeOversend(c) /\ EmptyPipe(c)
    THEN FillStep(c, c, Min({Hard, Max({Times(c.rate, 125), Fill})}))
    ELSE IF ~OnFillShelf(c) /\ (c.kind = "dropper" \/ PathLossGrew(c) \/ LossGrew(c))
    THEN LockKnee(c)
    ELSE IF Settled(c) /\ Policer(c) THEN CutToDelivery(c)
    ELSE IF WreckHeld(c) THEN RecoverWrecked(c)
    ELSE IF Settled(c) /\ OversendHeld(c) /\ ~c.recvLag THEN CutPolicer(c)
    ELSE IF MaySearch(c) THEN StartProbe(c, f)
    ELSE c

\* Delivery reached n percent of what it was, or of the rate, before the probe.
Reached(c, n) ==
    /\ c.delivery > 0
    /\ \/ c.probeUnique > 0 /\ 100 * c.delivery >= n * c.probeUnique
       \/ 100 * c.delivery >= n * c.probeBase

LagStuck(c, f) == f.full /\ c.recvLag /\ ~Reached(c, 95) /\ ~Starved(c)

ProbeGained(c, f) ==
    LET filling == Starved(c) /\ ~PipeOversend(c)
        gained == \/ c.probeDecoded > 0 /\ 100 * c.decoded >= 102 * c.probeDecoded
                  \/ Reached(c, 102)
        follows == c.delivery > 0 /\ 10 * c.delivery >= 7 * c.probeBase
    IN  /\ filling \/ (gained /\ follows /\ c.q < 2 /\ c.highN = 0)
        /\ ~LagStuck(c, f) /\ ~OverDelivery(c)

TickProbe(c, f) ==
    LET dropper == c.kind = "dropper" \/ PathLossGrew(c)
        lagRate == Max({Fill, Min({c.probeBase, Max({c.good, Times(c.probeBase, 75)})})})
        onLag == LagStuck(c, f) /\ ~BufferFull(c)
        past == c.confirmed /\ c.knee > 0 /\ 100 * c.rate > 105 * c.knee
        Back(rate) == EnterCruise([c EXCEPT !.rate = rate], FALSE)
    IN  IF BufferFull(c) \/ LagStuck(c, f) \/ Policer(c) \/ OversendHeld(c) \/ dropper
        THEN IF dropper /\ ~BufferFull(c) /\ ~onLag THEN AbortProbeDropper(c)
             ELSE [Back(IF onLag THEN lagRate ELSE c.probeBase) EXCEPT !.holdoff = ProbeHoldoff]
        ELSE IF c.probeLeft > 0 THEN c
        ELSE IF ~ProbeGained(c, f) \/ past THEN Back(c.probeBase)
        ELSE IF c.recvLag THEN EnterCruise(c, FALSE)
        ELSE EnterCruise([c EXCEPT !.good = c.rate], TRUE)

-----------------------------------------------------------------------------
(* Feedback *)

\* _observe_delivery: rates since the last feedback that was not early.
Observed(c, m) ==
    LET seen == [c EXCEPT !.sendRate = m.send, !.sent = TRUE, !.fewSource = m.few,
                          !.unique = Min({@ + m.got, 8 * TwoBlocks})]
        live == [seen EXCEPT !.delivery = m.got, !.decoded = m.decoded,
                             !.recvLag = 10 * m.decoded < 7 * m.got]
        knee == NoteKnee(live)
    IN  IF ~c.started THEN [c EXCEPT !.started = TRUE, !.sent = m.send > 0]
        ELSE IF m.early THEN c
        ELSE IF m.got = 0 THEN [seen EXCEPT !.recvLag = TRUE]
        ELSE IF 2 * m.got < MaxBw(c) THEN live
        ELSE [knee EXCEPT !.bw = Kept(@, m.got), !.sends = Kept(@, <<SendOr(knee), m.got>>)]

NoteBw(c) ==
    LET bw == MaxBw(c)
    IN  IF bw = 0 THEN c
        ELSE IF c.bwPeak = 0 \/ 100 * bw > 120 * c.bwPeak
        THEN [c EXCEPT !.bwPeak = Max({@, bw}), !.bwStallN = 0]
        ELSE IF Settled(c) THEN [c EXCEPT !.bwStallN = Min({@ + 1, BwStall})]
        ELSE c

NoteDelay(c) ==
    IF HolStall(c) THEN [c EXCEPT !.highN = 0]
    ELSE IF c.q = 3 THEN [c EXCEPT !.highN = Min({@ + 1, QdelayHold}), !.lowN = 0]
    ELSE [c EXCEPT !.highN = 0, !.lowN = IF c.q = 0 THEN Min({@ + 1, 2}) ELSE @]

\* The counter of a condition that must hold for a while.
Counted(n, holds, cap) == IF holds THEN Min({n + 1, cap}) ELSE 0

OversendCounted(c) == [c EXCEPT !.oversendN = Counted(@, Oversend(c), OversendHold)]

Classified(c) == OversendCounted([c EXCEPT !.kind = PathClass(c)])

PathNoted(c) ==
    IF c.loss >= 0 THEN [c EXCEPT !.paths = Kept(@, <<SendOr(c), c.loss>>)] ELSE c

FatSeen(c) == [c EXCEPT !.wasFat = @ \/ FatPipe(c)]

CliffCounted(c) ==
    [c EXCEPT !.cliffN = Counted(@, (UniqueCliff(c) \/ LimiterStale(c)) /\ c.recvLag, CliffHold)]

\* What the feedback says of delay, loss and repair.
Told(c, m) ==
    [c EXCEPT !.q = m.q, !.extra = m.extra, !.loss = IF m.loss >= 0 THEN m.loss ELSE @]

\* Everything on_feedback does before the phase.
Noted(c, m) ==
    Classified(NoteDelay(NoteBw(CliffCounted(NoteLossKnee(FatSeen(PathNoted(
        Observed(Told(c, m), m))))))))

\* Slips: remainders are never counted down; only the steps are timed.
AgesOnly(c) ==
    [c EXCEPT !.sinceStep = Min({@ + 1, MaxWait}), !.sinceCruise = Min({@ + 1, MaxWait}),
              !.drainAge = Min({@ + 1, MaxWait})]
StepsAged(c) ==
    [c EXCEPT !.sinceStep = Min({@ + 1, MaxWait}), !.sinceCruise = Min({@ + 1, MaxWait}),
              !.holdoff = Max({@ - 1, 0})]

\* Time goes on: ages grow up to the longest wait, remainders shrink.
Aged(c) ==
    [c EXCEPT !.sinceStep = Min({@ + 1, MaxWait}), !.sinceCruise = Min({@ + 1, MaxWait}),
              !.drainAge = Min({@ + 1, MaxWait}),
              !.probeLeft = Max({@ - 1, 0}), !.holdoff = Max({@ - 1, 0})]

-----------------------------------------------------------------------------
(* The path *)

Flow == Min({cc.rate, Capacity})

\* The loss that first flights see at the rate, in percent.
PathLoss == (100 * (cc.rate - Flow)) \div cc.rate

Fair ==
    [early |-> FALSE, send |-> cc.rate, got |-> Flow, decoded |-> Flow, few |-> FALSE,
     q |-> 0, extra |-> FALSE, full |-> FALSE,
     loss |-> IF cc.delivery = 0 THEN -1 ELSE PathLoss]

\* What a feedback reports in a spell of weather w.
Measures(w) ==
    CASE w = "fair" -> {Fair}
      [] w = "hol" -> {[Fair EXCEPT !.send = s, !.got = Flow \div 10, !.decoded = 0,
                                    !.few = TRUE, !.full = TRUE, !.loss = -1] :
                          s \in {cc.rate \div 10, cc.rate}}
      [] w = "stall" -> {[Fair EXCEPT !.send = 0, !.got = 0, !.decoded = 0,
                                      !.full = TRUE, !.loss = -1]}
      [] w = "queue" -> {[Fair EXCEPT !.q = 3]}
      [] w = "loss" -> {[Fair EXCEPT !.got = Min({(cc.rate * 9) \div 10, Capacity}),
                                     !.decoded = Min({(cc.rate * 9) \div 10, Capacity}),
                                     !.loss = 10, !.extra = x] : x \in BOOLEAN}
      [] w = "noise" -> {[Fair EXCEPT !.got = (Flow * 98) \div 100,
                                      !.decoded = (Flow * 98) \div 100,
                                      !.loss = PathLoss + 2]}
      [] w = "lag" -> {[Fair EXCEPT !.decoded = 0, !.full = TRUE]}
      [] w = "narrow" -> {LET got == Min({cc.rate, (Capacity * 6) \div 10})
                          IN  [Fair EXCEPT !.got = got, !.decoded = got,
                                           !.loss = (100 * (cc.rate - got)) \div cc.rate]}
      [] w = "early" -> {[Fair EXCEPT !.early = TRUE]}

-----------------------------------------------------------------------------
Start == Max({MinBps, Min({MaxBps, Times(StartBps, 90)})})

InitCc ==
    [phase |-> "startup", rate |-> Start, good |-> Start, kind |-> "unknown",
     knee |-> 0, sawKnee |-> FALSE, confirmed |-> FALSE, kneeN |-> 0,
     started |-> FALSE, sent |-> FALSE, unique |-> 0, delivery |-> 0, sendRate |-> 0,
     decoded |-> 0, recvLag |-> FALSE, fewSource |-> FALSE, loss |-> -1, extra |-> FALSE,
     q |-> 0, bw |-> <<>>, sends |-> <<>>, paths |-> <<>>, bwPeak |-> 0, bwStallN |-> 0,
     wasFat |-> FALSE, cliffN |-> 0, oversendN |-> 0, highN |-> 0, lowN |-> 0,
     drainAge |-> 0, drainCuts |-> 0, probeBase |-> 0, probeDecoded |-> 0,
     probeUnique |-> 0, probeLeft |-> 0, sinceStep |-> MaxWait, sinceCruise |-> MaxWait,
     holdoff |-> 0]

Init ==
    /\ cc = InitCc
    /\ weather = "fair" /\ spells = MaxSpells /\ odd = FALSE

\* Asking for the gain takes note of a fat pipe; a ceiling asks for it while
\* the controller searches.
FatNoted(c) ==
    IF c.phase \in {"startup", "probe"} /\ MaxBw(c) > 0
    THEN FatSeen(c) ELSE c

\* A new feedback is noted, the phase the controller is then in makes `next' of
\* it, and the rate is clipped.
Heard(m) == Noted(IF m.early THEN cc ELSE Aged(cc), m)

Answers(next) ==
    /\ cc' = [FatNoted(next) EXCEPT !.rate = Clip(next, @)]
    /\ odd' = ~odd
    /\ UNCHANGED <<weather, spells>>

InPhase(p, c, next) == c.phase = p /\ Answers(next)

Startup(c, m) == InPhase("startup", c, TickStartup(c, m))
Drain(c, m) == InPhase("drain", c, TickDrain(c, m))
Cruise(c, m) == InPhase("cruise", c, TickCruise(c, m))
Probe(c, m) == InPhase("probe", c, TickProbe(c, m))

StartupFeedback == \E m \in Measures(weather) : Startup(Heard(m), m)
DrainFeedback == \E m \in Measures(weather) : Drain(Heard(m), m)
CruiseFeedback == \E m \in Measures(weather) : Cruise(Heard(m), m)
ProbeFeedback == \E m \in Measures(weather) : Probe(Heard(m), m)

\* on_timer, called between sends: startup climbs without feedback too.
OnTimer ==
    /\ cc.phase = "startup" /\ MaxBw(cc) > 0 /\ ~PipeOversend(cc)
    /\ 100 * cc.rate < 98 * RateCeiling(cc) /\ cc.sinceStep >= 1
    /\ cc' = [FatNoted(cc) EXCEPT !.sinceStep = 0, !.rate = Ramp(cc)]
    /\ UNCHANGED <<weather, spells, odd>>

WeatherTurns ==
    /\ \/ weather = "fair" /\ spells > 0 /\ weather' \in Weathers /\ spells' = spells - 1
       \/ weather # "fair" /\ weather' = "fair" /\ UNCHANGED spells
    /\ UNCHANGED <<cc, odd>>

Next == StartupFeedback \/ DrainFeedback \/ CruiseFeedback \/ ProbeFeedback
        \/ OnTimer \/ WeatherTurns

Spec == Init /\ [][Next]_vars

-----------------------------------------------------------------------------
(* Fairness and properties *)

\* Feedback keeps coming, and is not early for ever: once a receiver has
\* data it reports again and again.  A feedback is the only step that flips
\* `odd'.  All other weather may last.
FairSpec == Spec /\ WF_odd(odd' = ~odd)
                 /\ WF_weather(weather = "early" /\ weather' = "fair")

\* The pace stays between the floor and the cap given by the user, whatever
\* estimates the gains multiply.
TypeOK ==
    /\ cc.phase \in {"startup", "drain", "cruise", "probe"}
    /\ cc.rate \in MinBps .. MaxBps
    /\ {cc.good, cc.knee, cc.delivery, cc.probeBase} \subseteq Nat
    /\ weather \in Weathers \cup {"fair"} /\ spells \in 0 .. MaxSpells /\ odd \in BOOLEAN

\* What is held against a locked knee: the rate, or what a probe goes back to.
Anchor(c) == IF c.phase = "probe" THEN c.probeBase ELSE c.rate
Floored(c) == Locked(c) => Anchor(c) >= Min({Hard, c.knee})

\* No cut takes the rate below a locked knee: neither a drain, nor a policer,
\* nor a wreck, nor a ceiling made of other estimates.  Only a probe may end
\* below it: it keeps the rate it tried when delivery gained (blastcc.py:1381).
CutsSpareTheLock ==
    [][Floored(cc) => Floored(cc') \/ (cc.phase = "probe" /\ cc'.phase = "cruise")]_vars

\* A confirmed lock is for good, and so is its rate: no weather that follows
\* unlocks it, moves it or makes it search again (_dropper_frozen).
FrozenStays == [][Frozen(cc) => Frozen(cc') /\ cc'.rate = cc.rate]_vars

\* What is locked was delivered: a lock is never taken while delivery has
\* fallen off a cliff ("hol: unique cliff / send pause: hold, never lock the
\* trickle", blastcc.py:11), nor on the shelf of two blocks per round trip
\* unless the filter itself holds no more than that.
LockIsAlive ==
    [][~cc.sawKnee /\ cc'.sawKnee =>
           /\ ~UniqueCliff(cc')
           /\ 100 * cc'.knee > 130 * Fill \/ cc'.knee >= Times(MaxBw(cc'), 110)]_vars

\* A drain and a probe end, in whatever weather.
PhaseEnds == \A p \in {"drain", "probe"} : cc.phase = p ~> cc.phase # p

\* After bad weather the search climbs back by itself to half the capacity
\* at least, unless it has locked a knee.
Recovers ==
    []<>(weather # "fair" \/ Locked(cc) \/ cc.rate >= Capacity \div 2)

\* A lock that is not confirmed goes on to search above its knee when the
\* path is fair ("Soft knee hold is not a dropper lock - allow later search",
\* blastcc.py:923).  The code breaks this.
SoftLockClimbs ==
    []<>(weather # "fair" \/ ~Locked(cc) \/ cc.confirmed \/ cc.rate > cc.knee)
=============================================================================
