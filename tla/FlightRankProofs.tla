--------------------------- MODULE FlightRankProofs ---------------------------
(***************************************************************************)
(* Theorems about FlightRank, for every size of a block and of its first   *)
(* flight.                                                                 *)
(***************************************************************************)
EXTENDS FlightRank, TLAPS

\* The counters of a slot: what came of the first flight, and what the
\* decoder was given.
SlotCounts ==
    /\ slot.flight = slot.src + slot.rep
    /\ slot.frozen <= slot.flight
    /\ slot.fed <= Symbols(slot)
    /\ slot.at \in {"none", "open"} =>
         /\ HasRepair(slot) => slot.fed = Symbols(slot)
         /\ ~HasRepair(slot) => slot.fed = -1
         /\ slot.src < K
    /\ slot.at = "popped" => slot.frozen >= 0

\* A freeze that is reported, held in the table or learned is the slot's.
FreezeTravels ==
    /\ \A p \in {fb, table} :
         p.item # NoItem => p.item.frozen \in {-1, slot.frozen}
    /\ blk.atFlight \in {-1, slot.frozen}

\* A sample that calls itself frozen is the slot's freeze.
SampleKeeps ==
    \A s \in stats.paths :
        s.frozen => slot.frozen >= 0 /\ s.missing = Flight - slot.frozen

\* A block that has been observed is marked, and it is flushed at its end.
Once ==
    /\ stats.observed \in {0, 1}
    /\ stats.observed = 1 => blk.sampled
    /\ stats.flushed \in {0, 1}
    /\ stats.flushed = 1 => blk.at = "flushed"

RankInv == TypeOK /\ SlotCounts /\ FreezeTravels /\ SampleKeeps /\ Once

\* The helpers of the community module on the two-element sets used here.
LEMMA MaxOfTwo ==
    ASSUME NEW a \in Int, NEW b \in Int
    PROVE  Max({a, b}) = IF a >= b THEN a ELSE b
<1>1. PICK x \in {a, b} : \A y \in {a, b} : x >= y
  OBVIOUS
<1>2. Max({a, b}) \in {a, b} /\ \A y \in {a, b} : Max({a, b}) >= y
  BY <1>1 DEF Max
<1>3. QED
  BY <1>2

LEMMA Sizes ==
    /\ K \in Nat /\ K > 0
    /\ R0 \in Nat /\ MaxExtra \in Nat /\ Margin \in Nat /\ DecodeSlack \in Nat
    /\ Flight = K + R0
BY FlightAssumption DEF Flight

LEMMA RankInit == Init => RankInv
<1> SUFFICES ASSUME Init PROVE RankInv
  OBVIOUS
<1>1. slot \in [at : {"none", "open", "decoded", "popped"},
                src : 0 .. K, rep : 0 .. R0, extra : 0 .. MaxExtra,
                flight : 0 .. Flight, frozen : -1 .. Flight,
                fed : -1 .. Flight + MaxExtra, old : BOOLEAN]
  BY Sizes DEF Init
<1>2. fb \in Knowledge /\ table \in Knowledge
  BY DEF Init, NoPacket, Knowledge
<1>3. blk \in [at : {"new", "active", "wait", "flushed"}, age : 0 .. 2,
               unique : 0 .. Flight + MaxExtra, emitted : R0 .. R0 + MaxExtra,
               failed : BOOLEAN, atAge : -1 .. Flight + MaxExtra,
               atFlight : -1 .. Flight, sampled : BOOLEAN]
  BY Sizes DEF Init
<1>4. stats \in [paths : SUBSET Sample, observed : Nat, flushed : Nat]
  BY DEF Init
<1>5. TypeOK
  BY <1>1, <1>2, <1>3, <1>4 DEF TypeOK, Init
<1>6. SlotCounts
  BY Sizes DEF Init, SlotCounts, Symbols, HasRepair
<1>7. FreezeTravels /\ SampleKeeps /\ Once
  BY DEF Init, FreezeTravels, SampleKeeps, Once, NoPacket, NoItem
<1>8. QED
  BY <1>5, <1>6, <1>7 DEF RankInv

-----------------------------------------------------------------------------
(* The receiver *)

SlotType == [at : {"none", "open", "decoded", "popped"},
             src : 0 .. K, rep : 0 .. R0, extra : 0 .. MaxExtra,
             flight : 0 .. Flight, frozen : -1 .. Flight,
             fed : -1 .. Flight + MaxExtra, old : BOOLEAN]

\* What a symbol does to the counters.
LEMMA TakenCounts ==
    ASSUME RankInv, NEW kind \in {"src", "rep", "extra"}, OnTheWire(kind),
           slot.at # "popped"
    PROVE  LET s == Taken(slot, kind) IN
           /\ s \in SlotType
           /\ s.at = slot.at /\ s.frozen = slot.frozen
           /\ s.flight = s.src + s.rep /\ s.flight >= slot.flight
           /\ s.fed <= Symbols(s)
           /\ slot.at # "decoded" =>
                /\ HasRepair(s) => s.fed = Symbols(s)
                /\ ~HasRepair(s) => s.fed = -1
<1> DEFINE s == Taken(slot, kind)
<1>1. /\ slot.at \in {"none", "open", "decoded"}
      /\ slot \in SlotType
      /\ slot.flight = slot.src + slot.rep
      /\ slot.fed <= slot.src + slot.rep + slot.extra
      /\ slot.at # "decoded" =>
           /\ slot.rep + slot.extra > 0 =>
                slot.fed = slot.src + slot.rep + slot.extra
           /\ slot.rep + slot.extra = 0 => slot.fed = -1
  <2>1. slot.at \in {"none", "open", "decoded"} /\ slot \in SlotType
    BY DEF RankInv, TypeOK, SlotType
  <2>2. QED
    BY <2>1, Sizes DEF SlotType, RankInv, SlotCounts, Symbols, HasRepair
<1>2. blk.emitted - R0 <= MaxExtra /\ blk.emitted - R0 \in Int
  BY Sizes DEF RankInv, TypeOK
<1>3. /\ kind = "src" => slot.src < K
      /\ kind = "rep" => slot.rep < R0
      /\ kind = "extra" => slot.extra < MaxExtra
  BY <1>1, <1>2, Sizes DEF OnTheWire, Extra, SlotType
<1> DEFINE t == Counted(slot, kind)
<1>4. /\ t \in SlotType
      /\ t.at = slot.at /\ t.frozen = slot.frozen /\ t.fed = slot.fed
      /\ t.flight = t.src + t.rep /\ t.flight >= slot.flight
      /\ t.src + t.rep + t.extra = slot.src + slot.rep + slot.extra + 1
      /\ t.rep + t.extra >= slot.rep + slot.extra
  <2>1. CASE kind = "extra"
    BY <1>1, <1>3, <2>1, Sizes DEF Counted, SlotType
  <2>2. CASE kind = "rep"
    <3> DEFINE u == [slot EXCEPT !.rep = @ + 1]
    <3>1. u \in SlotType /\ u.flight = slot.flight
      BY <1>1, <1>3, <2>2, Sizes DEF SlotType
    <3>2. t = [u EXCEPT !.flight = slot.flight + 1]
      BY <1>1, <2>2 DEF Counted
    <3> HIDE DEF u
    <3>3. [u EXCEPT !.flight = slot.flight + 1] \in SlotType
      BY <1>1, <1>3, <2>2, <3>1, Sizes DEF SlotType
    <3>4. t = [slot EXCEPT !.rep = @ + 1, !.flight = @ + 1]
      BY <2>2 DEF Counted
    <3>5. /\ t.rep = slot.rep + 1 /\ t.flight = slot.flight + 1
          /\ \A g \in {"at", "src", "rep", "extra", "frozen", "fed", "old"} \ {"rep"} :
               t[g] = slot[g]
      BY <1>1, <3>4 DEF SlotType
    <3> HIDE DEF t
    <3>6. QED
      BY <1>1, <3>2, <3>3, <3>5, Sizes DEF SlotType
  <2>3. CASE kind = "src"
    <3> DEFINE u == [slot EXCEPT !.src = @ + 1]
    <3>1. u \in SlotType /\ u.flight = slot.flight
      BY <1>1, <1>3, <2>3, Sizes DEF SlotType
    <3>2. t = [u EXCEPT !.flight = slot.flight + 1]
      BY <1>1, <2>3 DEF Counted
    <3> HIDE DEF u
    <3>3. [u EXCEPT !.flight = slot.flight + 1] \in SlotType
      BY <1>1, <1>3, <2>3, <3>1, Sizes DEF SlotType
    <3>4. t = [slot EXCEPT !.src = @ + 1, !.flight = @ + 1]
      BY <2>3 DEF Counted
    <3>5. /\ t.src = slot.src + 1 /\ t.flight = slot.flight + 1
          /\ \A g \in {"at", "src", "rep", "extra", "frozen", "fed", "old"} \ {"src"} :
               t[g] = slot[g]
      BY <1>1, <3>4 DEF SlotType
    <3> HIDE DEF t
    <3>6. QED
      BY <1>1, <3>2, <3>3, <3>5, Sizes DEF SlotType
  <2>4. QED
    BY <2>1, <2>2, <2>3
<1> HIDE DEF t
<1>5. s = IF slot.at = "decoded" THEN t ELSE [t EXCEPT !.fed = Fed(slot, t)]
  BY DEF Taken, t
<1>6. CASE slot.at = "decoded"
  BY <1>1, <1>4, <1>5, <1>6, Sizes DEF Symbols, SlotType
<1>7. CASE slot.at # "decoded"
  <2>1. /\ Fed(slot, t) \in -1 .. Flight + MaxExtra
        /\ t.rep + t.extra > 0 => Fed(slot, t) = t.src + t.rep + t.extra
        /\ t.rep + t.extra = 0 => Fed(slot, t) = -1
    BY <1>1, <1>4, <1>7, Sizes DEF Fed, HasRepair, Symbols, SlotType
  <2>2. s = [t EXCEPT !.fed = Fed(slot, t)]
    BY <1>5, <1>7
  <2>3. /\ s \in SlotType /\ s.fed = Fed(slot, t)
        /\ s.at = t.at /\ s.frozen = t.frozen /\ s.flight = t.flight
        /\ s.src = t.src /\ s.rep = t.rep /\ s.extra = t.extra
    BY <1>4, <2>1, <2>2 DEF SlotType
  <2>4. QED
    BY <1>4, <1>7, <2>1, <2>3, Sizes DEF HasRepair, Symbols, SlotType
<1>8. QED
  BY <1>6, <1>7

\* All source symbols decode, so an open slot is never full.
LEMMA RecvKeeps ==
    ASSUME RankInv, NEW kind \in {"src", "rep", "extra"}, Recv(kind)
    PROVE  RankInv'
<1> DEFINE s == Taken(slot, kind)
<1>1. PICK decodes \in BOOLEAN :
        /\ decodes => MayDecode(s)
        /\ slot.at # "decoded" /\ MustDecode(s) => decodes
        /\ slot' = [s EXCEPT !.at = IF decodes \/ slot.at = "decoded"
                                    THEN "decoded" ELSE "open"]
  BY DEF Recv
<1>2. slot.at # "popped" /\ UNCHANGED <<fb, table, blk, tail, lastTwo, ended, stats>>
  BY DEF Recv, senderVars
<1>3. /\ s \in SlotType
      /\ s.at = slot.at /\ s.frozen = slot.frozen
      /\ s.flight = s.src + s.rep /\ s.flight >= slot.flight
      /\ s.fed <= Symbols(s)
      /\ slot.at # "decoded" =>
           /\ HasRepair(s) => s.fed = Symbols(s)
           /\ ~HasRepair(s) => s.fed = -1
  BY <1>2, TakenCounts DEF Recv
<1> HIDE DEF s
<1>4. /\ slot'.src = s.src /\ slot'.rep = s.rep /\ slot'.extra = s.extra
      /\ slot'.flight = s.flight /\ slot'.frozen = slot.frozen /\ slot'.fed = s.fed
      /\ slot'.at = IF decodes \/ slot.at = "decoded" THEN "decoded" ELSE "open"
      /\ slot' \in SlotType
  BY <1>1, <1>3 DEF SlotType
<1>5. TypeOK'
  BY <1>2, <1>4 DEF RankInv, TypeOK, SlotType
<1>6. SlotCounts'
  <2>1. slot.frozen <= slot.flight /\ slot.flight \in Int /\ slot.frozen \in Int
    BY Sizes DEF RankInv, TypeOK, SlotCounts
  <2>2. slot'.at = "open" => slot'.src < K
    BY <1>1, <1>3, <1>4, Sizes DEF MustDecode, SlotType
  <2>3. s.flight \in Int
    BY <1>3, Sizes DEF SlotType
  <2>4. QED
    BY <1>3, <1>4, <2>1, <2>2, <2>3 DEF SlotCounts, Symbols, HasRepair
<1>7. FreezeTravels' /\ SampleKeeps' /\ Once'
  BY <1>2, <1>4 DEF RankInv, FreezeTravels, SampleKeeps, Once
<1>8. QED
  BY <1>5, <1>6, <1>7 DEF RankInv

LEMMA SlotAgesKeeps ==
    ASSUME RankInv, SlotAges
    PROVE  RankInv'
<1>1. /\ slot.at \in {"open", "decoded"}
      /\ slot' = [slot EXCEPT !.old = TRUE]
      /\ UNCHANGED <<fb, table, blk, tail, lastTwo, ended, stats>>
  BY DEF SlotAges, senderVars
<1>2. slot \in SlotType
  BY DEF RankInv, TypeOK, SlotType
<1>3. TypeOK'
  BY <1>1, <1>2 DEF RankInv, TypeOK, SlotType
<1>4. SlotCounts'
  BY <1>1, <1>2 DEF RankInv, SlotCounts, Symbols, HasRepair, SlotType
<1>5. FreezeTravels' /\ SampleKeeps' /\ Once'
  BY <1>1, <1>2 DEF RankInv, FreezeTravels, SampleKeeps, Once, SlotType
<1>6. QED
  BY <1>3, <1>4, <1>5 DEF RankInv

\* A freeze is made once and is what the slot had counted then; what was
\* reported before is no freeze.
LEMMA SendFeedbackKeeps ==
    ASSUME RankInv, NEW listed \in BOOLEAN, NEW ranged \in BOOLEAN,
           SendFeedback(listed, ranged)
    PROVE  RankInv'
<1> DEFINE s == Frozen(slot)
           inTable == listed /\ slot.at # "popped"
           it == [unique |-> Symbols(s), failed |-> DecodeFailed(s),
                  old |-> s.old, frozen |-> s.frozen]
<1>1. /\ fb' = [done |-> ranged /\ slot.at \in {"decoded", "popped"},
                item |-> IF inTable THEN it ELSE NoItem]
      /\ slot' = IF Popped(s) THEN [s EXCEPT !.at = "popped"] ELSE s
      /\ UNCHANGED <<table, blk, tail, lastTwo, ended, stats>>
  BY DEF SendFeedback, senderVars
<1>2. slot \in SlotType /\ SlotCounts /\ FreezeTravels /\ SampleKeeps
  BY DEF RankInv, TypeOK, SlotType
<1>3. /\ s \in SlotType /\ s.at = slot.at /\ s.flight = slot.flight
      /\ s.src = slot.src /\ s.rep = slot.rep /\ s.extra = slot.extra
      /\ s.fed = slot.fed /\ s.old = slot.old
      /\ slot.frozen >= 0 => s.frozen = slot.frozen
      /\ s.old => s.frozen >= 0
      /\ s.frozen <= s.flight
  BY <1>2, Sizes DEF Frozen, FrozenRank, SlotType, SlotCounts
<1> HIDE DEF s
<1>4. /\ slot' \in SlotType /\ slot'.frozen = s.frozen
      /\ slot'.src = slot.src /\ slot'.rep = slot.rep /\ slot'.extra = slot.extra
      /\ slot'.fed = slot.fed /\ slot'.flight = slot.flight
      /\ slot'.at = slot.at \/ (slot'.at = "popped" /\ s.old)
  BY <1>1, <1>3 DEF SlotType, Popped
<1>5. it \in Item
  <2>1. Symbols(s) \in 0 .. Flight + MaxExtra
    BY <1>3, Sizes DEF Symbols, SlotType
  <2>2. DecodeFailed(s) \in BOOLEAN
    BY DEF DecodeFailed
  <2>3. QED
    BY <1>3, <2>1, <2>2 DEF Item, SlotType
<1>6. fb' \in Knowledge /\ (fb'.item # NoItem => fb'.item.frozen = s.frozen)
  BY <1>1, <1>5 DEF Knowledge
<1>7. TypeOK'
  BY <1>1, <1>4, <1>6 DEF RankInv, TypeOK, SlotType
<1>8. SlotCounts'
  BY <1>2, <1>3, <1>4, Sizes DEF SlotCounts, Symbols, HasRepair, SlotType
<1>9. FreezeTravels'
  BY <1>1, <1>2, <1>3, <1>4, <1>6 DEF FreezeTravels, SlotType
<1>10. SampleKeeps' /\ Once'
  BY <1>1, <1>2, <1>3, <1>4 DEF SampleKeeps, RankInv, Once
<1>11. QED
  BY <1>7, <1>8, <1>9, <1>10 DEF RankInv

LEMMA ApplyFeedbackKeeps ==
    ASSUME RankInv, ApplyFeedback
    PROVE  RankInv'
<1> DEFINE done == table.done \/ fb.done
           it == IF fb.item = NoItem /\ ~done THEN table.item ELSE fb.item
<1>1. /\ table' = [done |-> done, item |-> it]
      /\ fb' = NoPacket
      /\ UNCHANGED <<slot, blk, tail, lastTwo, ended, stats>>
  BY DEF ApplyFeedback, senderVars
<1>2. fb \in Knowledge /\ table \in Knowledge /\ FreezeTravels
  BY DEF RankInv, TypeOK
<1>3. /\ it \in Item \cup {NoItem} /\ done \in BOOLEAN
      /\ it # NoItem => it.frozen \in {-1, slot.frozen}
  BY <1>2 DEF Knowledge, FreezeTravels
<1>4. table' \in Knowledge /\ fb' \in Knowledge
  BY <1>1, <1>3 DEF Knowledge, NoPacket
<1>5. TypeOK'
  BY <1>1, <1>4 DEF RankInv, TypeOK
<1>6. FreezeTravels'
  BY <1>1, <1>2, <1>3 DEF FreezeTravels, NoPacket
<1>7. SlotCounts' /\ SampleKeeps' /\ Once'
  BY <1>1 DEF RankInv, SlotCounts, SampleKeeps, Once, Symbols, HasRepair
<1>8. QED
  BY <1>5, <1>6, <1>7 DEF RankInv

-----------------------------------------------------------------------------
(* The send loop *)

BlkType == [at : {"new", "active", "wait", "flushed"}, age : 0 .. 2,
            unique : 0 .. Flight + MaxExtra, emitted : R0 .. R0 + MaxExtra,
            failed : BOOLEAN, atAge : -1 .. Flight + MaxExtra,
            atFlight : -1 .. Flight, sampled : BOOLEAN]

StatsType == [paths : SUBSET Sample, observed : Nat, flushed : Nat]

\* What the loop may make of the block: it keeps its mark and learns at most
\* the slot's freeze.
Sound(b) ==
    /\ b \in BlkType
    /\ b.atFlight \in {-1, slot.frozen}
    /\ b.sampled = blk.sampled

\* apply_open_block() learns at most the slot's freeze.
LEMMA LearnIsSound ==
    ASSUME RankInv
    PROVE  /\ Sound(Learn(blk))
           /\ Learn(blk).at = blk.at /\ Learn(blk).emitted = blk.emitted
<1> DEFINE i == table.item
<1>1. blk \in BlkType /\ i \in Item \cup {NoItem} /\ blk.atFlight \in {-1, slot.frozen}
  BY DEF RankInv, TypeOK, BlkType, Knowledge, FreezeTravels
<1>2. CASE i = NoItem
  BY <1>1, <1>2 DEF Learn, Sound
<1>3. CASE i # NoItem
  <2>1. i \in Item /\ i.frozen \in {-1, slot.frozen}
    BY <1>1, <1>3 DEF RankInv, FreezeTravels
  <2> HIDE DEF i
  <2> DEFINE n == Max({blk.unique, i.unique})
             f == blk.failed \/ i.failed
             a == IF blk.atFlight = -1 THEN i.frozen ELSE blk.atFlight
             u == [blk EXCEPT !.unique = n]
             v == [u EXCEPT !.failed = f]
             w == [v EXCEPT !.atFlight = a]
  <2>2. n \in 0 .. Flight + MaxExtra
    <3>1. /\ blk.unique \in 0 .. Flight + MaxExtra
          /\ i.unique \in 0 .. Flight + MaxExtra
      BY <1>1, <2>1 DEF BlkType, Item
    <3>2. blk.unique \in Int /\ i.unique \in Int
      BY <3>1, Sizes
    <3>3. QED
      BY <3>1, <3>2, MaxOfTwo
  <2>3. f \in BOOLEAN /\ a \in -1 .. Flight /\ a \in {-1, slot.frozen}
    BY <1>1, <2>1 DEF BlkType, Item
  <2>4. Learn(blk) = w
    BY <1>3 DEF Learn, i
  <2> HIDE DEF n, f, a
  <2>5. u \in BlkType /\ u.at = blk.at /\ u.emitted = blk.emitted /\ u.sampled = blk.sampled
    BY <1>1, <2>2 DEF BlkType
  <2> HIDE DEF u
  <2>6. v \in BlkType /\ v.at = blk.at /\ v.emitted = blk.emitted /\ v.sampled = blk.sampled
    BY <2>3, <2>5 DEF BlkType
  <2> HIDE DEF v
  <2>7. /\ w \in BlkType /\ w.at = blk.at /\ w.emitted = blk.emitted
        /\ w.sampled = blk.sampled /\ w.atFlight = a
    BY <2>3, <2>6 DEF BlkType
  <2>8. QED
    BY <2>3, <2>4, <2>7 DEF Sound
<1>4. QED
  BY <1>2, <1>3

\* A sample counts what is missing of the flight; a block is observed once.
LEMMA ObservedIsSound ==
    ASSUME RankInv, NEW b, Sound(b)
    PROVE  /\ Observed(b) \in StatsType
           /\ Observed(b).observed \in {0, 1}
           /\ Observed(b).flushed = stats.flushed
           /\ \A s \in Observed(b).paths :
                s.frozen => slot.frozen >= 0 /\ s.missing = Flight - slot.frozen
<1>1. /\ stats \in StatsType /\ SampleKeeps /\ Once
      /\ b \in BlkType /\ b.atFlight \in {-1, slot.frozen} /\ b.sampled = blk.sampled
  BY DEF RankInv, TypeOK, StatsType, Sound
<1>2. CASE b.sampled
  BY <1>1, <1>2 DEF Observed, SampleKeeps, Once
<1>3. CASE ~b.sampled
  <2> DEFINE new == [missing |-> Missing(b), frozen |-> b.atFlight >= 0]
             paths == IF Rank(b) < 0 THEN stats.paths ELSE stats.paths \cup {new}
             u == [stats EXCEPT !.observed = @ + 1]
             v == [u EXCEPT !.paths = paths]
  <2>1. stats.observed = 0
    BY <1>1, <1>3 DEF Once
  <2>2. Rank(b) \in Int /\ Flight \in Int /\ Flight - Rank(b) \in Int
    BY <1>1, Sizes DEF Rank, BlkType
  <2>3. Rank(b) >= 0 => Missing(b) \in 0 .. Flight
    <3>1. Missing(b) = IF 0 >= Flight - Rank(b) THEN 0 ELSE Flight - Rank(b)
      BY <2>2, MaxOfTwo DEF Missing
    <3>2. Flight >= 0
      BY Sizes
    <3>3. QED
      BY <2>2, <3>1, <3>2
  <2>4. b.atFlight >= 0 =>
          slot.frozen >= 0 /\ Missing(b) = Flight - slot.frozen
    BY <1>1, <2>2, MaxOfTwo, Sizes DEF Missing, Rank, BlkType
  <2>5. Rank(b) >= 0 => new \in Sample
    BY <2>3 DEF Sample
  <2>6. paths \in SUBSET Sample
    BY <1>1, <2>2, <2>5 DEF StatsType
  <2>7. \A s \in paths :
          s.frozen => slot.frozen >= 0 /\ s.missing = Flight - slot.frozen
    <3> SUFFICES ASSUME NEW s \in paths, s.frozen
                 PROVE  slot.frozen >= 0 /\ s.missing = Flight - slot.frozen
      OBVIOUS
    <3>1. CASE s \in stats.paths
      BY <1>1, <3>1 DEF SampleKeeps
    <3>2. CASE s = new
      BY <2>4, <3>2
    <3>3. QED
      BY <3>1, <3>2
  <2>8. Observed(b) = v
    BY <1>3 DEF Observed
  <2> HIDE DEF paths, new
  <2>9. u \in StatsType /\ u.observed = 1 /\ u.flushed = stats.flushed
    BY <1>1, <2>1 DEF StatsType
  <2> HIDE DEF u
  <2>10. v \in StatsType /\ v.observed = 1 /\ v.flushed = stats.flushed /\ v.paths = paths
    BY <2>6, <2>9 DEF StatsType
  <2>11. QED
    BY <2>7, <2>8, <2>10
<1>4. QED
  BY <1>2, <1>3

\* The end of a sample: the block is marked when it was observed.
LEMMA BlockMoves ==
    ASSUME RankInv, NEW b, Sound(b), b.at # "new",
           \/ stats' = stats /\ blk' = b /\ blk.at # "flushed"
           \/ stats' = Observed(b) /\ blk' = Marked(b) /\ b.at # "flushed"
                /\ blk.at # "flushed"
           \/ /\ stats' = [Observed(b) EXCEPT !.flushed = @ + 1]
              /\ blk' = Marked(b) /\ b.at = "flushed" /\ blk.at # "flushed",
           UNCHANGED <<slot, fb, table>>,
           tail' \in BOOLEAN, lastTwo' \in BOOLEAN, ended' \in BOOLEAN
    PROVE  RankInv'
<1>1. /\ stats \in StatsType /\ Once /\ SampleKeeps /\ stats.flushed = 0
      /\ b \in BlkType /\ b.atFlight \in {-1, slot.frozen} /\ b.sampled = blk.sampled
  BY DEF RankInv, TypeOK, StatsType, Sound, Once
<1>2. /\ Marked(b) \in BlkType /\ Marked(b).at = b.at /\ Marked(b).sampled
      /\ Marked(b).atFlight = b.atFlight
  BY <1>1 DEF Marked, BlkType
<1>3. /\ blk' \in BlkType /\ blk'.atFlight \in {-1, slot.frozen}
      /\ blk'.at = b.at
  BY <1>1, <1>2
<1>4. /\ stats' \in StatsType
      /\ stats'.observed \in {0, 1} /\ stats'.flushed \in {0, 1}
      /\ stats'.observed = 1 => blk'.sampled
      /\ stats'.flushed = 1 => blk'.at = "flushed"
      /\ \A s \in stats'.paths :
           s.frozen => slot.frozen >= 0 /\ s.missing = Flight - slot.frozen
  <2>1. CASE stats' = stats /\ blk' = b
    BY <1>1, <2>1 DEF Once, SampleKeeps
  <2> DEFINE o == Observed(b)
  <2>2. /\ o \in StatsType /\ o.observed \in {0, 1} /\ o.flushed = 0
        /\ \A s \in o.paths :
             s.frozen => slot.frozen >= 0 /\ s.missing = Flight - slot.frozen
    BY <1>1, ObservedIsSound
  <2> HIDE DEF o
  <2>3. CASE stats' = Observed(b) /\ blk' = Marked(b)
    <3>1. stats' = o
      BY <2>3 DEF o
    <3>2. QED
      BY <1>2, <2>2, <2>3, <3>1
  <2>4. CASE /\ stats' = [Observed(b) EXCEPT !.flushed = @ + 1]
             /\ blk' = Marked(b) /\ b.at = "flushed"
    <3>1. stats' = [o EXCEPT !.flushed = o.flushed + 1]
      BY <2>4 DEF o
    <3>2. /\ stats' \in StatsType /\ stats'.observed = o.observed
          /\ stats'.flushed = 1 /\ stats'.paths = o.paths
      BY <2>2, <3>1 DEF StatsType
    <3>3. QED
      BY <1>2, <2>2, <2>4, <3>2
  <2>5. QED
    BY <2>1, <2>3, <2>4
<1>5. TypeOK'
  BY <1>3, <1>4 DEF RankInv, TypeOK, BlkType, StatsType
<1>6. SlotCounts'
  BY DEF RankInv, SlotCounts, Symbols, HasRepair
<1>7. FreezeTravels'
  BY <1>3 DEF RankInv, FreezeTravels
<1>8. SampleKeeps' /\ Once'
  BY <1>4 DEF SampleKeeps, Once
<1>9. QED
  BY <1>5, <1>6, <1>7, <1>8 DEF RankInv

\* A flush stamps the block and samples it or not.
LEMMA StampedIsSound ==
    ASSUME RankInv, NEW b, Sound(b)
    PROVE  Sound(Stamped(b)) /\ Stamped(b).at = b.at
<1>1. b \in BlkType
  BY DEF Sound
<1>2. Flight <= Flight + MaxExtra /\ K \in 0 .. Flight + MaxExtra /\ Flight \in Int
  BY Sizes
<1>3. CASE b.atAge >= 0
  BY <1>3 DEF Stamped
<1>4. CASE ~(b.atAge >= 0) /\ b.atFlight >= 0
  <2>1. Stamped(b) = [b EXCEPT !.atAge = b.atFlight]
    BY <1>4 DEF Stamped
  <2>2. QED
    BY <1>1, <1>2, <1>4, <2>1, Sizes DEF Sound, BlkType
<1>5. CASE ~(b.atAge >= 0) /\ ~(b.atFlight >= 0) /\ b.unique > 0
  <2>1. Stamped(b) = [b EXCEPT !.atAge = b.unique]
    BY <1>5 DEF Stamped
  <2>2. QED
    BY <1>1, <1>2, <1>5, <2>1, Sizes DEF Sound, BlkType
<1>6. CASE ~(b.atAge >= 0) /\ ~(b.atFlight >= 0) /\ ~(b.unique > 0)
  <2>1. Stamped(b) = [b EXCEPT !.unique = K]
    BY <1>6 DEF Stamped
  <2>2. QED
    BY <1>1, <1>2, <1>6, <2>1 DEF Sound, BlkType
<1>7. QED
  BY <1>3, <1>4, <1>5, <1>6

LEMMA SoundAt ==
    ASSUME NEW b, Sound(b), NEW where \in {"new", "active", "wait", "flushed"}
    PROVE  Sound([b EXCEPT !.at = where]) /\ [b EXCEPT !.at = where].at = where
BY DEF Sound, BlkType

LEMMA FlushKeeps ==
    ASSUME RankInv, NEW isTail, Flush(Learn(blk), isTail),
           blk.at \in {"active", "wait"}, UNCHANGED <<slot, fb, table>>,
           tail' \in BOOLEAN, lastTwo' \in BOOLEAN, ended' \in BOOLEAN
    PROVE  RankInv'
<1> DEFINE b == Learn(blk)
<1>1. Sound(b) /\ b.at = blk.at
  BY LearnIsSound
<1> HIDE DEF b
<1>2. CASE ~Ready(b, isTail)
  <2>1. stats' = stats /\ blk' = [b EXCEPT !.at = "wait"]
    BY <1>2 DEF Flush, b
  <2>2. Sound(blk') /\ blk'.at = "wait"
    BY <1>1, <2>1, SoundAt
  <2>3. QED
    BY <2>1, <2>2, BlockMoves
<1>3. CASE Ready(b, isTail)
  <2> DEFINE s == Stamped(b)
             trains == Trains(s, isTail /\ lastTwo)
             e == [s EXCEPT !.at = "flushed"]
  <2>1. Sound(s)
    BY <1>1, StampedIsSound
  <2>2. /\ blk' = [(IF trains THEN Marked(s) ELSE s) EXCEPT !.at = "flushed"]
        /\ stats' = IF trains
                    THEN [Observed(s) EXCEPT !.flushed = @ + 1] ELSE stats
    BY <1>3 DEF Flush, b
  <2> HIDE DEF s, trains
  <2>3. Sound(e) /\ e.at = "flushed"
    BY <2>1, SoundAt
  <2>4. CASE trains
    <3>1. s \in BlkType
      BY <2>1 DEF Sound
    <3>2. blk' = Marked(e)
      BY <2>2, <2>4, <3>1 DEF Marked, BlkType
    <3>3. Observed(s) = Observed(e)
      BY <3>1 DEF Observed, Rank, Missing, BlkType
    <3>4. QED
      BY <2>2, <2>3, <2>4, <3>2, <3>3, BlockMoves
  <2>5. CASE ~trains
    BY <2>2, <2>3, <2>5, BlockMoves
  <2>6. QED
    BY <2>4, <2>5
<1>4. QED
  BY <1>2, <1>3

\* A step that leaves the block and the statistics alone.
LEMMA BlockStays ==
    ASSUME RankInv, UNCHANGED <<slot, fb, table, blk, stats>>,
           tail' \in BOOLEAN, lastTwo' \in BOOLEAN, ended' \in BOOLEAN
    PROVE  RankInv'
BY DEF RankInv, TypeOK, SlotCounts, FreezeTravels, SampleKeeps, Once, Symbols,
   HasRepair

\* select_repair_candidates() and ensure_repair() keep the freeze.
LEMMA RepairTickKeeps ==
    ASSUME RankInv, NEW n \in 0 .. MaxExtra, RepairTick(n)
    PROVE  RankInv'
<1> DEFINE l == Learn(blk)
           e == Seen(l)
           b == Grown(e, n)
           samples == n > 0 /\ ~tail /\ b.atFlight >= 0 /\ Trains(b, FALSE)
<1>1. /\ blk.at = "active" /\ n <= MaxExtra - (blk.emitted - R0)
      /\ blk' = IF samples THEN Marked(b) ELSE b
      /\ stats' = IF samples THEN Observed(b) ELSE stats
      /\ UNCHANGED <<slot, fb, table, tail, lastTwo, ended>>
  BY DEF RepairTick, Extra
<1>2. Sound(l) /\ l.at = "active" /\ l.emitted = blk.emitted
  BY <1>1, LearnIsSound
<1> HIDE DEF l
<1>3. Sound(e) /\ e.at = "active" /\ e.emitted = blk.emitted
  <2>1. CASE e = l
    BY <1>2, <2>1
  <2>2. CASE e = [l EXCEPT !.atAge = l.unique]
    BY <1>2, <2>2, Sizes DEF Sound, BlkType
  <2>3. QED
    BY <2>1, <2>2 DEF Seen
<1> HIDE DEF e
<1>4. Sound(b) /\ b.at = "active"
  <2>1. e.emitted + n \in R0 .. R0 + MaxExtra
    BY <1>1, <1>3, Sizes DEF Sound, BlkType
  <2>2. QED
    BY <1>3, <2>1 DEF Grown, Sound, BlkType
<1> HIDE DEF b
<1>5. {tail', lastTwo', ended'} \subseteq BOOLEAN
  BY <1>1 DEF RankInv, TypeOK
<1>6. CASE samples
  BY <1>1, <1>4, <1>5, <1>6, BlockMoves
<1>7. CASE ~samples
  BY <1>1, <1>4, <1>5, <1>7, BlockMoves
<1>8. QED
  BY <1>6, <1>7

LEMMA SendLoopKeeps ==
    ASSUME RankInv, SendLoop
    PROVE  RankInv'
<1>1. {tail, lastTwo, ended} \subseteq BOOLEAN /\ Sound(blk)
  BY DEF RankInv, TypeOK, Sound, BlkType, FreezeTravels
<1>2. CASE Admit
  <2>1. Sound(blk') /\ blk'.at = "active" /\ stats' = stats
    BY <1>1, <1>2, SoundAt DEF Admit
  <2>2. QED
    BY <1>1, <1>2, <2>1, BlockMoves DEF Admit
<1>3. CASE BlockAges
  <2>1. Sound(blk') /\ blk'.at = blk.at
    BY <1>1, <1>3 DEF BlockAges, Sound, BlkType
  <2>2. QED
    BY <1>1, <1>3, <2>1, BlockMoves DEF BlockAges
<1>4. CASE TailStarts
  BY <1>1, <1>4, BlockStays DEF TailStarts
<1>5. CASE Reap
  BY <1>1, <1>5, FlushKeeps DEF Reap
<1>6. CASE \E n \in 0 .. MaxExtra : RepairTick(n)
  BY <1>6, RepairTickKeeps
<1>7. CASE Finish
  <2>1. CASE blk.at = "wait"
    BY <1>1, <1>7, <2>1, FlushKeeps DEF Finish
  <2>2. CASE blk.at # "wait"
    BY <1>1, <1>7, <2>2, BlockStays DEF Finish
  <2>3. QED
    BY <2>1, <2>2
<1>8. CASE Stop
  BY <1>1, <1>8, BlockStays DEF Stop
<1>9. QED
  BY <1>2, <1>3, <1>4, <1>5, <1>6, <1>7, <1>8 DEF SendLoop

-----------------------------------------------------------------------------
(* Theorems *)

LEMMA RankStep == RankInv /\ [Next]_vars => RankInv'
<1> SUFFICES ASSUME RankInv, [Next]_vars PROVE RankInv'
  OBVIOUS
<1>1. CASE UNCHANGED vars
  <2>1. UNCHANGED <<slot, fb, table, blk, tail, lastTwo, ended, stats>>
    BY <1>1 DEF vars, senderVars
  <2>2. QED
    BY <2>1, BlockStays DEF RankInv, TypeOK
<1>2. CASE Receiver
  BY <1>2, RecvKeeps, SlotAgesKeeps, SendFeedbackKeeps DEF Receiver
<1>3. CASE ApplyFeedback
  BY <1>3, ApplyFeedbackKeeps
<1>4. CASE SendLoop
  BY <1>4, SendLoopKeeps
<1>5. QED
  BY <1>1, <1>2, <1>3, <1>4 DEF Next

\* The invariant the theorems below follow from.
THEOREM RankInvAlways == Spec => []RankInv
BY RankInit, RankStep, PTL DEF Spec

\* The counters of slots, feedback and samples stay within what a first flight
\* and the extra repair can reach.
THEOREM RankTypes == Spec => []TypeOK
<1>1. RankInv => TypeOK
  BY DEF RankInv
<1>2. QED
  BY <1>1, RankInit, RankStep, PTL DEF Spec

\* Whatever order symbols, freezes and feedback take, a rank that is called a
\* freeze counts the first flight only, and a path sample says what it missed.
THEOREM FreezeIsFirstFlight == Spec => []RankIsFirstFlight
<1>1. RankInv => RankIsFirstFlight
  BY Sizes DEF RankInv, SlotCounts, FreezeTravels, SampleKeeps, RankIsFirstFlight
<1>2. QED
  BY <1>1, RankInvAlways, PTL

\* No block is counted twice in the statistics of losses.
THEOREM SampledAtMostOnce == Spec => []SampledOnce
<1>1. RankInv => SampledOnce
  BY DEF RankInv, Once, SampledOnce
<1>2. QED
  BY <1>1, RankInvAlways, PTL

\* The receive slot's decoder has every symbol that came, a failure it
\* reports is one of the decoder, and it is dropped only with its freeze.
THEOREM SlotStaysSound == Spec => []SlotSound
<1>1. RankInv => SlotSound
  <2> SUFFICES ASSUME RankInv PROVE SlotSound
    OBVIOUS
  <2>1. slot \in SlotType /\ SlotCounts
    BY DEF RankInv, TypeOK, SlotType
  <2>2. DecodeFailed(slot) => slot.fed >= K + Margin
    BY <2>1, Sizes DEF DecodeFailed, SlotCounts, Symbols, HasRepair, SlotType
  <2>3. QED
    BY <2>1, <2>2 DEF SlotSound, SlotCounts
<1>2. QED
  BY <1>1, RankInvAlways, PTL
=============================================================================
