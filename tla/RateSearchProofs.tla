-------------------------- MODULE RateSearchProofs --------------------------
(***************************************************************************)
(* Proofs about RateSearch, for every floor, cap and start of the rate,    *)
(* every length of the windows and waits, and every weather.               *)
(***************************************************************************)
EXTENDS RateSearch, TLAPS, SequenceTheorems, FiniteSetTheorems, WellFoundedInduction

-----------------------------------------------------------------------------
(* Numbers *)

\* A finite set of integers has a greatest element: of the sets of elements
\* above an element, one is least.
LEMMA MaxOfFinite ==
    ASSUME NEW S, S \subseteq Int, S # {}, IsFiniteSet(S)
    PROVE  Max(S) \in S /\ \A y \in S : Max(S) >= y
<1> DEFINE Above(x) == {y \in S : y > x}
           F == {Above(x) : x \in S}
<1>1. F \subseteq FiniteSubsetsOf(S)
  <2> SUFFICES ASSUME NEW x \in S PROVE Above(x) \in FiniteSubsetsOf(S)
    OBVIOUS
  <2>1. IsFiniteSet(Above(x)) /\ Above(x) \subseteq S
    BY FS_Subset
  <2>2. QED
    BY <2>1 DEF FiniteSubsetsOf
<1>2. F # {}
  OBVIOUS
<1> HIDE DEF F
<1>3. PICK I \in F : \A J \in F : <<J, I>> \notin StrictSubsetOrdering(S)
  BY <1>1, <1>2, FS_StrictSubsetOrderingWellFounded, WFMin
<1>4. PICK x \in S : I = Above(x)
  BY DEF F
<1>5. ASSUME NEW y \in S, y > x
      PROVE  FALSE
  <2>1. x \in Int /\ y \in Int
    OBVIOUS
  <2>2. Above(y) \subseteq Above(x)
    <3> SUFFICES ASSUME NEW z \in Above(y) PROVE z \in Above(x)
      OBVIOUS
    <3>1. z \in S /\ z > y /\ z \in Int
      OBVIOUS
    <3>2. z > x
      BY <1>5, <2>1, <3>1
    <3>3. QED
      BY <3>1, <3>2
  <2>3. y \in Above(x) /\ y \notin Above(y)
    BY <1>5, <2>1
  <2>4. Above(y) \in SUBSET S /\ Above(x) \in SUBSET S
    OBVIOUS
  <2> HIDE DEF Above
  <2>5. <<Above(y), Above(x)>> \in StrictSubsetOrdering(S)
    BY <2>2, <2>3, <2>4 DEF StrictSubsetOrdering
  <2>6. QED
    BY <1>3, <1>4, <2>5 DEF F
<1>6. \A y \in S : x >= y
  BY <1>5
<1>7. QED
  BY <1>6 DEF Max

LEMMA MaxOfTwo ==
    ASSUME NEW a \in Int, NEW b \in Int
    PROVE  Max({a, b}) \in {a, b} /\ Max({a, b}) >= a /\ Max({a, b}) >= b
<1>1. \E x \in {a, b} : \A y \in {a, b} : x >= y
  <2>1. CASE a >= b
    BY <2>1
  <2>2. CASE b >= a
    BY <2>2
  <2>3. QED
    BY <2>1, <2>2
<1>2. QED
  BY <1>1 DEF Max

LEMMA MinOfTwo ==
    ASSUME NEW a \in Int, NEW b \in Int
    PROVE  Min({a, b}) \in {a, b} /\ Min({a, b}) <= a /\ Min({a, b}) <= b
<1>1. \E x \in {a, b} : \A y \in {a, b} : x <= y
  <2>1. CASE a <= b
    BY <2>1
  <2>2. CASE b <= a
    BY <2>2
  <2>3. QED
    BY <2>1, <2>2
<1>2. QED
  BY <1>1 DEF Min

\* The larger and the smaller of two numbers, for use in longer terms.
LEMMA Pairs ==
    /\ \A a, b \in Int : /\ Max({a, b}) = IF a >= b THEN a ELSE b
                         /\ Min({a, b}) = IF a <= b THEN a ELSE b
    /\ \A a, b \in Nat : Max({a, b}) \in Nat /\ Min({a, b}) \in Nat
<1>1. ASSUME NEW a \in Int, NEW b \in Int
      PROVE  /\ Max({a, b}) = IF a >= b THEN a ELSE b
             /\ Min({a, b}) = IF a <= b THEN a ELSE b
  <2>1. Max({a, b}) \in {a, b} /\ Max({a, b}) >= a /\ Max({a, b}) >= b
    BY MaxOfTwo
  <2>2. Min({a, b}) \in {a, b} /\ Min({a, b}) <= a /\ Min({a, b}) <= b
    BY MinOfTwo
  <2>3. QED
    BY <2>1, <2>2
<1>2. ASSUME NEW a \in Nat, NEW b \in Nat
      PROVE  Max({a, b}) \in Nat /\ Min({a, b}) \in Nat
  <2>1. a \in Int /\ b \in Int
    OBVIOUS
  <2>2. Max({a, b}) \in {a, b} /\ Min({a, b}) \in {a, b}
    BY <2>1, MaxOfTwo, MinOfTwo
  <2>3. QED
    BY <2>2
<1>3. QED
  BY <1>1, <1>2

LEMMA Triples ==
    ASSUME NEW a \in Nat, NEW b \in Nat, NEW c \in Nat
    PROVE  Max({a, b, c}) \in Nat /\ Min({a, b, c}) \in Nat
<1>1. IsFiniteSet({a, b, c})
  <2>1. {a, b, c} = {a} \cup {b} \cup {c}
    OBVIOUS
  <2>2. IsFiniteSet({a}) /\ IsFiniteSet({b}) /\ IsFiniteSet({c})
    BY FS_Singleton
  <2>3. IsFiniteSet({a} \cup {b})
    BY <2>2, FS_Union
  <2>4. IsFiniteSet(({a} \cup {b}) \cup {c})
    BY <2>2, <2>3, FS_Union
  <2>5. QED
    BY <2>1, <2>4
<1>2. Max({a, b, c}) \in {a, b, c}
  BY <1>1, MaxOfFinite
<1>3. \E x \in {a, b, c} : \A y \in {a, b, c} : x <= y
  <2>1. CASE a <= b /\ a <= c
    BY <2>1
  <2>2. CASE b <= a /\ b <= c
    BY <2>2
  <2>3. CASE c <= a /\ c <= b
    BY <2>3
  <2>4. QED
    BY <2>1, <2>2, <2>3
<1>4. Min({a, b, c}) \in {a, b, c}
  BY <1>3 DEF Min
<1>5. QED
  BY <1>2, <1>4

LEMMA TimesNat ==
    ASSUME NEW x \in Nat, NEW n \in Nat
    PROVE  Times(x, n) \in Nat
<1>1. x * n \in Nat
  OBVIOUS
<1>2. \A z \in Nat : z \div 100 \in Nat
  OBVIOUS
<1>3. QED
  BY <1>1, <1>2 DEF Times

\* The floor of the rate, the two-block shelf and the hard limit.
LEMMA Limits ==
    /\ MinBps \in Nat /\ MaxBps \in Nat /\ StartBps \in Nat /\ TwoBlocks \in Nat
    /\ 0 < MinBps /\ MinBps <= MaxBps
    /\ Fill \in Nat /\ MinBps <= Fill /\ TwoBlocks <= Fill
    /\ Hard \in Nat /\ MinBps <= Hard /\ Hard <= MaxBps
<1>1. /\ MinBps \in Nat /\ MaxBps \in Nat /\ StartBps \in Nat /\ TwoBlocks \in Nat
      /\ 0 < MinBps /\ MinBps <= MaxBps
  BY RatesAssumption
<1>2. Fill \in Nat /\ MinBps <= Fill /\ TwoBlocks <= Fill
  BY <1>1, MaxOfTwo DEF Fill
<1>3. (TwoBlocks * 128) \div 5 \in Nat
  <2>1. TwoBlocks * 128 \in Nat
    BY <1>1
  <2>2. QED
    BY <2>1
<1> DEFINE inflight == (TwoBlocks * 128) \div 5
           top == Max({MinBps, inflight})
<1> HIDE DEF inflight
<1>4. top \in Nat /\ MinBps <= top
  BY <1>1, <1>3, Pairs DEF inflight
<1>5. Hard = Min({MaxBps, top})
  BY DEF Hard, inflight
<1> HIDE DEF top
<1>6. Hard \in Nat /\ MinBps <= Hard /\ Hard <= MaxBps
  BY <1>1, <1>4, <1>5, Pairs
<1>7. QED
  BY <1>1, <1>2, <1>6

-----------------------------------------------------------------------------
(* The controller *)

\* What is read of the record: rates, samples and the state of the lock.
Fields == {"phase", "rate", "good", "knee", "sawKnee", "confirmed", "delivery",
           "sendRate", "probeBase", "bw", "sends", "kind", "kneeN"}

Typed(c) ==
    /\ Fields \subseteq DOMAIN c
    /\ c.phase \in {"startup", "drain", "cruise", "probe"}
    /\ c.rate \in Nat /\ c.good \in Nat /\ c.knee \in Nat
    /\ c.delivery \in Nat /\ c.sendRate \in Nat /\ c.probeBase \in Nat
    /\ c.bw \in Seq(Nat) /\ c.sends \in Seq(Nat \X Nat)

\* A confirmed lock is a lock above the two-block shelf, found after startup
\* and not given up for a probe.
Sure(c) == c.confirmed => /\ c.sawKnee /\ 100 * c.knee > 130 * Fill
                          /\ c.phase \in {"cruise", "drain"}

Sound(c) == Typed(c) /\ Sure(c)

\* d has the confirmed lock of c.
SameLock(c, d) == c.confirmed => d.confirmed /\ d.knee = c.knee

LEMMA SureIsFrozen ==
    ASSUME NEW c, Sound(c), c.confirmed
    PROVE  /\ c.sawKnee /\ c.knee > 0 /\ ~IsFillKnee(c) /\ Locked(c) /\ Frozen(c)
           /\ c.phase \in {"cruise", "drain"}
  BY Limits DEF Sound, Typed, Sure, IsFillKnee, OnShelf, Locked, Frozen

-----------------------------------------------------------------------------
(* Estimates are natural numbers *)

\* The values of a natural-valued function on a finite set have a maximum.
LEMMA MaxOfImage ==
    ASSUME NEW T, IsFiniteSet(T), NEW f \in [T -> Nat], NEW S, S \subseteq Nat,
           IsFiniteSet(S), S # {}
    PROVE  /\ Max(S \cup {f[i] : i \in T}) \in Nat
           /\ \A y \in S : Max(S \cup {f[i] : i \in T}) >= y
<1> DEFINE R == {f[i] : i \in T}
<1>1. f \in Surjection(T, R)
  BY DEF Surjection
<1>2. IsFiniteSet(R) /\ R \subseteq Nat
  BY <1>1, FS_Surjection
<1> HIDE DEF R
<1>3. IsFiniteSet(S \cup R)
  BY <1>2, FS_Union
<1> DEFINE B == S \cup R
<1>4. B \subseteq Int /\ B # {} /\ B \subseteq Nat
  BY <1>2
<1>5. Max(B) \in B /\ \A y \in B : Max(B) >= y
  BY <1>3, <1>4, MaxOfFinite
<1>6. QED
  BY <1>4, <1>5 DEF R

LEMMA MaxBwNat ==
    ASSUME NEW c, c.bw \in Seq(Nat)
    PROVE  MaxBw(c) \in Nat
<1> DEFINE s == c.bw
           Beaten(i) == \E j \in DOMAIN s \ {i} : s[j] >= s[i]
           K == {k \in DOMAIN s : Beaten(k)}
           beaten == {s[i] : i \in K}
<1>1. s \in Seq(Nat) /\ Len(s) \in Nat /\ DOMAIN s = 1 .. Len(s)
      /\ \A i \in DOMAIN s : s[i] \in Nat
  BY LenProperties, ElementOfSeq
<1>2. CASE Len(s) < BwMinSamples
  BY <1>2 DEF MaxBw
<1>3. CASE ~(Len(s) < BwMinSamples)
  <2>1. MaxBw(c) = Max(beaten)
    BY <1>3 DEF MaxBw
  <2>2. 1 \in DOMAIN s /\ 2 \in DOMAIN s
    BY <1>1, <1>3, HoldsAssumption
  <2>3. s[1] \in Nat /\ s[2] \in Nat
    BY <1>1, <2>2
  <2>4. Beaten(1) \/ Beaten(2)
    <3>1. CASE s[1] >= s[2]
      BY <2>2, <3>1
    <3>2. CASE s[2] >= s[1]
      BY <2>2, <3>2
    <3>3. QED
      BY <2>3, <3>1, <3>2
  <2>5. K # {} /\ K \subseteq 1 .. Len(s)
    BY <1>1, <2>2, <2>4
  <2>6. IsFiniteSet(K)
    <3>1. 1 \in Int /\ Len(s) \in Int
      BY <1>1
    <3>2. IsFiniteSet(1 .. Len(s))
      BY <3>1, FS_Interval
    <3>3. QED
      BY <2>5, <3>2, FS_Subset
  <2> DEFINE g == [i \in K |-> s[i]]
  <2>7. g \in Surjection(K, beaten)
    BY DEF Surjection
  <2> HIDE DEF K
  <2>8. beaten \subseteq Nat /\ beaten \subseteq Int /\ beaten # {}
    <3>1. \A i \in K : s[i] \in Nat
      BY <1>1, <2>5
    <3>2. beaten \subseteq Nat
      BY <3>1
    <3>3. beaten # {}
      BY <2>5
    <3>4. QED
      BY <3>2, <3>3
  <2>9. IsFiniteSet(beaten)
    BY <2>6, <2>7, FS_Surjection
  <2> HIDE DEF beaten
  <2>10. Max(beaten) \in beaten
    BY <2>8, <2>9, MaxOfFinite
  <2>11. QED
    BY <2>1, <2>8, <2>10
<1>4. QED
  BY <1>2, <1>3

\* The samples: bounded sequences of pairs of rates.
LEMMA SampleFacts ==
    ASSUME NEW s \in Seq(Nat \X Nat)
    PROVE  /\ IsFiniteSet(DOMAIN s)
           /\ \A i \in DOMAIN s : s[i][1] \in Nat /\ s[i][2] \in Nat
<1>1. Len(s) \in Int /\ 1 \in Int /\ DOMAIN s = 1 .. Len(s)
  BY LenProperties
<1>2. IsFiniteSet(DOMAIN s)
  BY <1>1, FS_Interval
<1>3. \A i \in DOMAIN s : s[i] \in Nat \X Nat
  BY <1>1, ElementOfSeq
<1>4. QED
  BY <1>2, <1>3

LEMMA KeptSeq ==
    ASSUME NEW S, NEW s \in Seq(S), NEW x \in S
    PROVE  Kept(s, x) \in Seq(S)
<1>1. CASE Len(s) < BwWindow
  BY <1>1, AppendProperties DEF Kept
<1>2. CASE ~(Len(s) < BwWindow)
  <2>1. s # <<>>
    BY <1>2, HoldsAssumption, EmptySeq
  <2>2. Tail(s) \in Seq(S)
    BY <2>1, HeadTailProperties
  <2>3. QED
    BY <1>2, <2>2, AppendProperties DEF Kept
<1>3. QED
  BY <1>1, <1>2

LEMMA DeliveryCapNat ==
    ASSUME NEW c, Typed(c)
    PROVE  DeliveryCap(c) \in Nat /\ DeliveryCap(c) >= MaxBw(c)
<1> DEFINE T == {i \in DOMAIN c.sends : /\ c.sends[i][1] > 0
                                        /\ 100 * c.sends[i][2] >= 99 * c.sends[i][1]}
           live == IF UniqueCliff(c) \/ c.recvLag THEN 0 ELSE c.delivery
           f == [i \in T |-> Min({c.sends[i][1], c.sends[i][2]})]
           S == {MaxBw(c), live}
<1>1. c.delivery \in Nat /\ c.bw \in Seq(Nat) /\ c.sends \in Seq(Nat \X Nat)
  BY DEF Typed
<1>2. /\ IsFiniteSet(DOMAIN c.sends)
      /\ \A i \in DOMAIN c.sends : c.sends[i][1] \in Nat /\ c.sends[i][2] \in Nat
  BY <1>1, SampleFacts
<1>3. T \subseteq DOMAIN c.sends
  OBVIOUS
<1>4. IsFiniteSet(T)
  BY <1>2, <1>3, FS_Subset
<1>5. MaxBw(c) \in Nat /\ live \in Nat
  BY <1>1, MaxBwNat
<1>6. DeliveryCap(c) = Max(S \cup {Min({c.sends[i][1], c.sends[i][2]}) : i \in T})
  BY DEF DeliveryCap
<1> HIDE DEF live, T
<1>7. f \in [T -> Nat]
  <2>1. \A i \in T : Min({c.sends[i][1], c.sends[i][2]}) \in Nat
    BY <1>2, <1>3, Pairs
  <2>2. QED
    BY <2>1
<1>8. {f[i] : i \in T} = {Min({c.sends[i][1], c.sends[i][2]}) : i \in T}
  OBVIOUS
<1>9. S \subseteq Nat /\ S # {} /\ IsFiniteSet(S)
  <2>1. S = {MaxBw(c)} \cup {live}
    OBVIOUS
  <2>2. IsFiniteSet({MaxBw(c)} \cup {live})
    BY FS_Singleton, FS_Union
  <2>3. QED
    BY <1>5, <2>1, <2>2
<1> HIDE DEF f, S
<1>10. Max(S \cup {f[i] : i \in T}) \in Nat /\ Max(S \cup {f[i] : i \in T}) >= MaxBw(c)
  <2>1. MaxBw(c) \in S
    BY DEF S
  <2>2. QED
    BY <1>4, <1>7, <1>9, <2>1, MaxOfImage
<1>11. QED
  BY <1>6, <1>8, <1>10

LEMMA SanitizedNat ==
    ASSUME NEW c, Typed(c), NEW knee \in Nat
    PROVE  Sanitized(c, knee) \in Nat
<1> DEFINE cap == DeliveryCap(c)
<1>1. cap \in Nat /\ Times(cap, 110) \in Nat
  BY DeliveryCapNat, TimesNat
<1>2. Sanitized(c, knee) \in {knee, Max({MinBps, Times(cap, 110)})}
  BY DEF Sanitized
<1>3. QED
  BY <1>1, <1>2, Pairs, Limits

LEMMA LastCleanSendNat ==
    ASSUME NEW c, Typed(c)
    PROVE  LastCleanSend(c) \in Nat
<1> DEFINE T == {k \in DOMAIN c.sends : 100 * c.sends[k][2] >= 99 * c.sends[k][1]}
           f == [i \in T |-> c.sends[i][1]]
<1>1. c.knee \in Nat /\ c.sends \in Seq(Nat \X Nat)
  BY DEF Typed
<1>2. /\ IsFiniteSet(DOMAIN c.sends)
      /\ \A i \in DOMAIN c.sends : c.sends[i][1] \in Nat
  BY <1>1, SampleFacts
<1>3. T \subseteq DOMAIN c.sends
  OBVIOUS
<1>4. IsFiniteSet(T)
  BY <1>2, <1>3, FS_Subset
<1>5. LastCleanSend(c) = IF c.knee > 0 THEN c.knee ELSE Max({0} \cup {c.sends[i][1] : i \in T})
  BY DEF LastCleanSend
<1> HIDE DEF T
<1>6. f \in [T -> Nat]
  BY <1>2, <1>3
<1>7. {f[i] : i \in T} = {c.sends[i][1] : i \in T}
  OBVIOUS
<1>8. {0} \subseteq Nat /\ {0} # {} /\ IsFiniteSet({0})
  BY FS_Singleton
<1> HIDE DEF f
<1>9. Max({0} \cup {f[i] : i \in T}) \in Nat
  BY <1>4, <1>6, <1>8, MaxOfImage
<1>10. QED
  BY <1>1, <1>5, <1>7, <1>9

LEMMA LockRateNat ==
    ASSUME NEW c, Typed(c)
    PROVE  LockRate(c) \in Nat
<1> DEFINE send == SendOr(c)
           extra == IF c.delivery > 0 THEN {Times(c.delivery, 110)} ELSE {}
           least == Min({send, c.rate} \cup extra)
<1>1. c.rate \in Nat /\ c.delivery \in Nat /\ send \in Nat /\ c.bw \in Seq(Nat)
  BY DEF Typed, SendOr
<1>2. LastCleanSend(c) \in Nat /\ MaxBw(c) \in Nat /\ \A k \in Nat : Sanitized(c, k) \in Nat
  BY <1>1, LastCleanSendNat, MaxBwNat, SanitizedNat
<1>3. Times(c.delivery, 110) \in Nat
  BY <1>1, TimesNat
<1> HIDE DEF send
<1>4. least \in Nat
  <2>1. CASE c.delivery > 0
    <3>1. {send, c.rate} \cup extra = {send, c.rate, Times(c.delivery, 110)}
      BY <2>1
    <3>2. QED
      BY <1>1, <1>3, <3>1, Triples
  <2>2. CASE ~(c.delivery > 0)
    <3>1. {send, c.rate} \cup extra = {send, c.rate}
      BY <2>2
    <3>2. QED
      BY <1>1, <3>1, Pairs
  <2>3. QED
    BY <2>1, <2>2
<1>5. Min({send, c.rate}) \in Nat
  BY <1>1, Pairs
<1>6. \/ LockRate(c) \in {0, c.delivery}
      \/ \E k \in {LastCleanSend(c), Min({send, c.rate}), send, least, MaxBw(c)} :
            LockRate(c) = Sanitized(c, k)
  BY DEF LockRate, send
<1> HIDE DEF least
<1>7. \A k \in {LastCleanSend(c), Min({send, c.rate}), send, least, MaxBw(c)} : k \in Nat
  BY <1>1, <1>2, <1>4, <1>5
<1>8. CASE LockRate(c) \in {0, c.delivery}
  BY <1>1, <1>8
<1>9. ASSUME NEW k \in {LastCleanSend(c), Min({send, c.rate}), send, least, MaxBw(c)},
             LockRate(c) = Sanitized(c, k)
      PROVE  LockRate(c) \in Nat
  <2>1. k \in Nat
    BY <1>7
  <2>2. QED
    BY <1>9, <2>1, SanitizedNat
<1>10. QED
  BY <1>6, <1>8, <1>9

-----------------------------------------------------------------------------
(* Noting a feedback *)

\* d differs from c in nothing that is read of the record.
Quiet(c, d) ==
    /\ Fields \subseteq DOMAIN d
    /\ d.phase = c.phase /\ d.rate = c.rate /\ d.good = c.good /\ d.knee = c.knee
    /\ d.sawKnee = c.sawKnee /\ d.confirmed = c.confirmed /\ d.delivery = c.delivery
    /\ d.sendRate = c.sendRate /\ d.probeBase = c.probeBase /\ d.bw = c.bw
    /\ d.sends = c.sends

\* From c to d the controller noted something: a confirmed lock is not touched.
Noting(c, d) ==
    /\ Sound(d)
    /\ c.confirmed => d.confirmed /\ d.knee = c.knee /\ d.rate = c.rate

LEMMA QuietNotes ==
    ASSUME NEW c, Sound(c), NEW d, Quiet(c, d)
    PROVE  Noting(c, d)
  BY DEF Sound, Typed, Sure, Quiet, Noting

LEMMA NotingChain ==
    ASSUME NEW b, NEW c, NEW d, Noting(b, c), Noting(c, d)
    PROVE  Noting(b, d)
  BY DEF Noting

\* Everything but the lock and the rates.
LEMMA QuietSteps ==
    ASSUME NEW c, Typed(c)
    PROVE  /\ Quiet(c, Aged(c)) /\ Quiet(c, PathNoted(c)) /\ Quiet(c, FatSeen(c))
           /\ Quiet(c, CliffCounted(c)) /\ Quiet(c, NoteBw(c)) /\ Quiet(c, NoteDelay(c))
           /\ Quiet(c, Classified(c)) /\ \A m : Quiet(c, Told(c, m))
<1>1. Fields \subseteq DOMAIN c
  BY DEF Typed
<1>2. Quiet(c, Aged(c))
  BY <1>1 DEF Quiet, Aged, Fields
<1>3. Quiet(c, PathNoted(c))
  BY <1>1 DEF Quiet, PathNoted, Fields
<1>4. Quiet(c, FatSeen(c))
  BY <1>1 DEF Quiet, FatSeen, Fields
<1>5. Quiet(c, CliffCounted(c))
  BY <1>1 DEF Quiet, CliffCounted, Fields
<1>6. Quiet(c, NoteBw(c))
  BY <1>1 DEF Quiet, NoteBw, Fields
<1>7. Quiet(c, NoteDelay(c))
  BY <1>1 DEF Quiet, NoteDelay, Fields
<1>8. Quiet(c, Classified(c))
  BY <1>1 DEF Quiet, Classified, OversendCounted, Fields
<1>9. \A m : Quiet(c, Told(c, m))
  BY <1>1 DEF Quiet, Told, Fields
<1>10. QED
  BY <1>2, <1>3, <1>4, <1>5, <1>6, <1>7, <1>8, <1>9

LEMMA EnterCruiseSound ==
    ASSUME NEW c, Sound(c), NEW takeRate \in BOOLEAN
    PROVE  /\ Sound(EnterCruise(c, takeRate)) /\ SameLock(c, EnterCruise(c, takeRate))
           /\ EnterCruise(c, takeRate).phase = "cruise"
<1> DEFINE d == EnterCruise(c, takeRate)
<1>1. /\ Fields \subseteq DOMAIN d /\ d.phase = "cruise"
      /\ d.good = IF takeRate THEN Max({c.good, c.rate}) ELSE c.good
      /\ d.rate = c.rate /\ d.knee = c.knee
      /\ d.sawKnee = c.sawKnee /\ d.confirmed = c.confirmed /\ d.delivery = c.delivery
      /\ d.sendRate = c.sendRate /\ d.probeBase = c.probeBase /\ d.bw = c.bw
      /\ d.sends = c.sends
  BY DEF EnterCruise, Fields, Sound, Typed
<1> HIDE DEF d
<1>2. d.good \in Nat
  BY <1>1, Pairs DEF Sound, Typed
<1>3. Typed(d)
  BY <1>1, <1>2 DEF Sound, Typed
<1>4. Sure(d)
  BY <1>1 DEF Sound, Sure
<1>5. QED
  BY <1>1, <1>3, <1>4 DEF Sound, SameLock, d

LEMMA LockedAtSound ==
    ASSUME NEW c, Sound(c), ~c.confirmed, NEW knee \in Nat
    PROVE  Sound(LockedAt(c, knee)) /\ ~LockedAt(c, knee).confirmed
<1> DEFINE d == [c EXCEPT !.knee = knee, !.rate = knee, !.good = knee, !.sawKnee = TRUE]
<1>1. /\ Fields \subseteq DOMAIN d /\ d.phase = c.phase
      /\ d.good = knee /\ d.rate = knee /\ d.knee = knee
      /\ d.confirmed = c.confirmed /\ d.delivery = c.delivery
      /\ d.sendRate = c.sendRate /\ d.probeBase = c.probeBase /\ d.bw = c.bw
      /\ d.sends = c.sends
  BY DEF Fields, Sound, Typed
<1>2. LockedAt(c, knee) = EnterCruise(d, FALSE)
  BY DEF LockedAt
<1> HIDE DEF d
<1>3. Sound(d)
  BY <1>1 DEF Sound, Typed, Sure
<1>4. EnterCruise(d, FALSE).confirmed = d.confirmed
  BY <1>3 DEF EnterCruise, Fields, Sound, Typed
<1>5. QED
  BY <1>1, <1>2, <1>3, <1>4, EnterCruiseSound

\* A soft knee: nothing is locked, and no lock is touched.
LEMMA NoteKneeSound ==
    ASSUME NEW c, Sound(c)
    PROVE  Noting(c, NoteKnee(c))
<1> DEFINE latched == Sanitized(c, Min({c.sendRate, c.delivery, c.rate}))
           d == [c EXCEPT !.knee = Max({c.knee, latched})]
<1>1. latched \in Nat
  BY Triples, SanitizedNat DEF Sound, Typed
<1>2. NoteKnee(c) = c \/ (NoteKnee(c) = d /\ ~c.sawKnee)
  BY DEF NoteKnee
<1> HIDE DEF latched
<1>3. Max({c.knee, latched}) \in Nat
  BY <1>1, Pairs DEF Sound, Typed
<1>4. /\ Fields \subseteq DOMAIN d /\ d.phase = c.phase /\ d.rate = c.rate /\ d.good = c.good
      /\ d.knee \in Nat /\ d.sawKnee = c.sawKnee /\ d.confirmed = c.confirmed
      /\ d.delivery = c.delivery /\ d.sendRate = c.sendRate /\ d.probeBase = c.probeBase
      /\ d.bw = c.bw /\ d.sends = c.sends
  BY <1>3 DEF Fields, Sound, Typed
<1> HIDE DEF d
<1>5. ~c.sawKnee => Noting(c, d)
  BY <1>4 DEF Sound, Typed, Sure, Noting
<1>6. Noting(c, c)
  BY DEF Noting
<1>7. QED
  BY <1>2, <1>5, <1>6

LEMMA LockKneeSound ==
    ASSUME NEW c, Sound(c), ~c.confirmed
    PROVE  Sound(LockKnee(c)) /\ ~LockKnee(c).confirmed
<1> DEFINE knee == LockRate(c)
           up == [c EXCEPT !.rate = Max({@, knee}), !.sinceStep = 0,
                           !.good = IF c.rate < knee THEN Max({@, knee}) ELSE @]
<1>1. knee \in Nat /\ Sanitized(c, knee) \in Nat
  BY LockRateNat, SanitizedNat DEF Sound
<1>2. LockKnee(c) \in {c, up, LockedAt(c, Sanitized(c, knee))}
  BY DEF LockKnee, LockFound
<1> HIDE DEF knee
<1>3. Sound(LockedAt(c, Sanitized(c, knee))) /\ ~LockedAt(c, Sanitized(c, knee)).confirmed
  BY <1>1, LockedAtSound
<1>4. Max({c.rate, knee}) \in Nat /\ Max({c.good, knee}) \in Nat
  BY <1>1, Pairs DEF Sound, Typed
<1>5. /\ Fields \subseteq DOMAIN up /\ up.phase = c.phase /\ up.rate \in Nat /\ up.good \in Nat
      /\ up.knee = c.knee /\ up.sawKnee = c.sawKnee /\ up.confirmed = c.confirmed
      /\ up.delivery = c.delivery /\ up.sendRate = c.sendRate /\ up.probeBase = c.probeBase
      /\ up.bw = c.bw /\ up.sends = c.sends
  BY <1>4 DEF Fields, Sound, Typed
<1> HIDE DEF up
<1>6. Sound(up) /\ ~up.confirmed
  BY <1>5 DEF Sound, Typed, Sure
<1>7. QED
  BY <1>2, <1>3, <1>6

LEMMA NoteLossKneeSound ==
    ASSUME NEW c, Sound(c)
    PROVE  Noting(c, NoteLossKnee(c))
<1> DEFINE n == IF KneeHit(c) THEN Min({c.kneeN + 1, LossHold}) ELSE 0
           d == [c EXCEPT !.kneeN = n]
<1>1. NoteLossKnee(c) \in {c, LockIfHeld(d)}
  BY DEF NoteLossKnee
<1> HIDE DEF n
<1>2. Quiet(c, d)
  BY DEF Quiet, Fields, Sound, Typed
<1> HIDE DEF d
<1>3. Sound(d) /\ Noting(c, d)
  BY <1>2, QuietNotes DEF Noting
<1>4. LockIfHeld(d) = d \/ (LockIfHeld(d) = LockKnee(d) /\ ~d.sawKnee)
  BY DEF LockIfHeld
<1>5. ~d.sawKnee => ~d.confirmed /\ ~c.confirmed
  BY <1>2, <1>3 DEF Sound, Sure, Quiet
<1>6. Noting(c, LockIfHeld(d))
  BY <1>3, <1>4, <1>5, LockKneeSound DEF Noting
<1>7. Noting(c, c)
  BY DEF Noting
<1>8. QED
  BY <1>1, <1>6, <1>7

\* What a feedback of the path measures are rates.
Measured(m) == m.send \in Nat /\ m.got \in Nat /\ m.decoded \in Nat

LEMMA ObservedSound ==
    ASSUME NEW c, Sound(c), NEW m, Measured(m)
    PROVE  Noting(c, Observed(c, m))
<1> DEFINE first == [c EXCEPT !.started = TRUE, !.sent = m.send > 0]
           seen == [c EXCEPT !.sendRate = m.send, !.sent = TRUE, !.fewSource = m.few,
                             !.unique = Min({@ + m.got, 8 * TwoBlocks})]
           stalled == [seen EXCEPT !.recvLag = TRUE]
           live == [seen EXCEPT !.delivery = m.got, !.decoded = m.decoded,
                                !.recvLag = 10 * m.decoded < 7 * m.got]
           knee == NoteKnee(live)
           bw == Kept(knee.bw, m.got)
           sends == Kept(knee.sends, <<SendOr(knee), m.got>>)
           kept == [knee EXCEPT !.bw = bw, !.sends = sends]
<1>1. Observed(c, m) \in {first, c, stalled, live, kept}
  BY DEF Observed
<1>2. Quiet(c, first)
  BY DEF Quiet, Fields, Sound, Typed
<1>3. /\ Fields \subseteq DOMAIN seen /\ seen.sendRate = m.send
      /\ seen.phase = c.phase /\ seen.rate = c.rate /\ seen.good = c.good /\ seen.knee = c.knee
      /\ seen.sawKnee = c.sawKnee /\ seen.confirmed = c.confirmed
      /\ seen.delivery = c.delivery /\ seen.probeBase = c.probeBase /\ seen.bw = c.bw
      /\ seen.sends = c.sends
  BY DEF Fields, Sound, Typed
<1> HIDE DEF first, seen
<1>4. Noting(c, seen)
  BY <1>3 DEF Sound, Typed, Sure, Noting, Measured
<1>5. /\ Quiet(seen, stalled)
      /\ Fields \subseteq DOMAIN live /\ live.delivery = m.got
      /\ live.phase = seen.phase /\ live.rate = seen.rate /\ live.good = seen.good
      /\ live.knee = seen.knee /\ live.sawKnee = seen.sawKnee
      /\ live.confirmed = seen.confirmed /\ live.sendRate = seen.sendRate
      /\ live.probeBase = seen.probeBase /\ live.bw = seen.bw /\ live.sends = seen.sends
  BY <1>3 DEF Quiet, Fields
<1> HIDE DEF stalled, live
<1>6. Noting(c, stalled)
  BY <1>4, <1>5, QuietNotes, NotingChain DEF Noting
<1>7. Noting(c, live)
  BY <1>4, <1>5 DEF Sound, Typed, Sure, Noting, Measured
<1>8. Noting(c, knee)
  BY <1>7, NoteKneeSound, NotingChain DEF Noting
<1> HIDE DEF knee
<1>9. bw \in Seq(Nat) /\ sends \in Seq(Nat \X Nat)
  <2>1. knee.bw \in Seq(Nat) /\ knee.sends \in Seq(Nat \X Nat) /\ SendOr(knee) \in Nat
    BY <1>8 DEF Noting, Sound, Typed, SendOr
  <2>2. m.got \in Nat /\ <<SendOr(knee), m.got>> \in Nat \X Nat
    BY <2>1 DEF Measured
  <2>3. bw \in Seq(Nat)
    BY <2>1, <2>2, KeptSeq
  <2>4. sends \in Seq(Nat \X Nat)
    BY <2>1, <2>2, KeptSeq
  <2>5. QED
    BY <2>3, <2>4
<1> HIDE DEF bw, sends
<1>10. /\ Fields \subseteq DOMAIN kept /\ kept.bw = bw /\ kept.sends = sends
       /\ kept.phase = knee.phase /\ kept.rate = knee.rate /\ kept.good = knee.good
       /\ kept.knee = knee.knee /\ kept.sawKnee = knee.sawKnee
       /\ kept.confirmed = knee.confirmed /\ kept.delivery = knee.delivery
       /\ kept.sendRate = knee.sendRate /\ kept.probeBase = knee.probeBase
  BY <1>8 DEF Noting, Sound, Typed, Fields
<1> HIDE DEF kept
<1>11. Noting(c, kept)
  BY <1>8, <1>9, <1>10 DEF Sound, Typed, Sure, Noting
<1>12. Noting(c, first) /\ Noting(c, c)
  BY <1>2, QuietNotes DEF Noting
<1>13. QED
  BY <1>1, <1>6, <1>7, <1>11, <1>12

\* Everything on_feedback does before the phase.
LEMMA NotedSound ==
    ASSUME NEW c, Sound(c), NEW m, Measured(m)
    PROVE  Noting(c, Noted(c, m))
<1> DEFINE told == Told(c, m)
           obs == Observed(told, m)
           path == PathNoted(obs)
           fat == FatSeen(path)
           knee == NoteLossKnee(fat)
           cliff == CliffCounted(knee)
           rate == NoteBw(cliff)
           delay == NoteDelay(rate)
<1>1. Noted(c, m) = Classified(delay)
  BY DEF Noted
<1>2. \A b, d : Sound(b) /\ Quiet(b, d) => Noting(b, d)
  BY QuietNotes
<1>3. \A b, d : Noting(b, d) => Sound(d) /\ Typed(d)
  BY DEF Noting, Sound
<1>4. Noting(c, told)
  BY <1>2, QuietSteps DEF Sound
<1> HIDE DEF told
<1>5. Noting(c, obs)
  BY <1>3, <1>4, ObservedSound, NotingChain
<1> HIDE DEF obs
<1>6. Noting(c, path)
  BY <1>2, <1>3, <1>5, QuietSteps, NotingChain
<1> HIDE DEF path
<1>7. Noting(c, fat)
  BY <1>2, <1>3, <1>6, QuietSteps, NotingChain
<1> HIDE DEF fat
<1>8. Noting(c, knee)
  BY <1>3, <1>7, NoteLossKneeSound, NotingChain
<1> HIDE DEF knee
<1>9. Noting(c, cliff)
  BY <1>2, <1>3, <1>8, QuietSteps, NotingChain
<1> HIDE DEF cliff
<1>10. Noting(c, rate)
  BY <1>2, <1>3, <1>9, QuietSteps, NotingChain
<1> HIDE DEF rate
<1>11. Noting(c, delay)
  BY <1>2, <1>3, <1>10, QuietSteps, NotingChain
<1> HIDE DEF delay
<1>12. Noting(c, Classified(delay))
  BY <1>2, <1>3, <1>11, QuietSteps, NotingChain
<1>13. QED
  BY <1>1, <1>12

-----------------------------------------------------------------------------
(* Ceilings and the clip *)

LEMMA GainNat == ASSUME NEW c PROVE StartupGain(c) \in Nat
  BY DEF StartupGain

\* A ceiling lies between the floor of the rate and the hard limit.
LEMMA Ceilings ==
    ASSUME NEW c, Typed(c)
    PROVE  /\ RateCeiling(c) \in Nat /\ MinBps <= RateCeiling(c) /\ RateCeiling(c) <= Hard
           /\ RaiseCeiling(c) \in Nat /\ MinBps <= RaiseCeiling(c) /\ RaiseCeiling(c) <= Hard
<1> DEFINE Between(x) == x \in Nat /\ MinBps <= x /\ x <= Hard
           bw == MaxBw(c)
<1>1. /\ bw \in Nat /\ c.rate \in Nat /\ c.knee \in Nat /\ c.delivery \in Nat
      /\ StartupGain(c) \in Nat
  BY MaxBwNat, GainNat DEF Typed
<1>2. /\ MinBps \in Nat /\ Hard \in Nat /\ Fill \in Nat /\ MinBps <= Fill
      /\ MinBps <= Hard /\ StartBps \in Nat
  BY Limits
<1> HIDE DEF bw
<1>3. \A x \in Nat : Between(Min({Hard, Max({MinBps, x})}))
  <2> SUFFICES ASSUME NEW x \in Nat PROVE Between(Min({Hard, Max({MinBps, x})}))
    OBVIOUS
  <2>1. Max({MinBps, x}) \in Nat /\ MinBps <= Max({MinBps, x})
    BY <1>2, Pairs
  <2>2. QED
    BY <1>2, <2>1, Pairs
<1>4. \A x \in Nat : Between(Min({Hard, Max({x, Fill})}))
  <2> SUFFICES ASSUME NEW x \in Nat PROVE Between(Min({Hard, Max({x, Fill})}))
    OBVIOUS
  <2>1. Max({x, Fill}) \in Nat /\ MinBps <= Max({x, Fill})
    BY <1>2, Pairs
  <2>2. QED
    BY <1>2, <2>1, Pairs
<1>5. Between(Hard) /\ Between(Min({Hard, Fill}))
  <2>1. Min({Hard, Fill}) = IF Hard <= Fill THEN Hard ELSE Fill
    BY <1>2, Pairs
  <2>2. QED
    BY <1>2, <2>1
<1>6. \A x, y : Between(x) /\ Between(y) => Between(Max({x, y}))
  BY Pairs
<1>7. /\ Times(StartBps, 125) \in Nat /\ Times(c.rate, 125) \in Nat /\ Times(bw, 115) \in Nat
      /\ Times(bw, StartupGain(c)) \in Nat /\ Times(Max({bw, c.delivery}), StartupGain(c)) \in Nat
  BY <1>1, <1>2, TimesNat, Pairs
<1>8. Max({c.rate, Times(bw, 115)}) \in Nat
  BY <1>1, <1>7, Pairs
<1> HIDE DEF Between
<1>9. Between(StartupSearchCap(c))
  <2>1. \E x \in Nat : StartupSearchCap(c) = Min({Hard, Max({MinBps, x})})
    BY <1>7 DEF StartupSearchCap, bw
  <2>2. QED
    BY <1>3, <2>1
<1>10. Between(RateCeiling(c))
  <2>1. \/ \E x \in Nat : RateCeiling(c) = Min({Hard, Max({MinBps, x})})
        \/ \E x \in Nat : RateCeiling(c) = Min({Hard, Max({x, Fill})})
        \/ RateCeiling(c) \in {Hard, StartupSearchCap(c), Max({StartupSearchCap(c), Min({Hard, Fill})})}
    BY <1>1, <1>7, <1>8 DEF RateCeiling, bw
  <2>2. QED
    BY <1>3, <1>4, <1>5, <1>6, <1>9, <2>1
<1>11. Between(RaiseCeiling(c))
  <2>1. \/ \E x \in Nat : RaiseCeiling(c) = Min({Hard, Max({MinBps, x})})
        \/ RaiseCeiling(c) = Hard
    BY <1>1, <1>7 DEF RaiseCeiling, bw
  <2>2. QED
    BY <1>3, <1>5, <2>1
<1>12. QED
  BY <1>10, <1>11 DEF Between

\* The rate that a frozen lock is held at.
FrozenRate(c) == Min({Hard, Max({MinBps, c.knee})})

\* Whatever rate is asked for, the clip keeps it within its limits; a frozen
\* lock leaves it no choice.
LEMMA ClipFacts ==
    ASSUME NEW c, Typed(c), NEW r \in Nat
    PROVE  /\ Clip(c, r) \in Nat /\ MinBps <= Clip(c, r) /\ Clip(c, r) <= Hard
           /\ Sure(c) /\ c.confirmed => Clip(c, r) = FrozenRate(c)
<1> DEFINE ceiling == IF c.phase = "probe" THEN RaiseCeiling(c) ELSE RateCeiling(c)
           good == Max({MinBps, Times(c.good, 90)})
           locked == IF Locked(c) THEN c.knee ELSE 0
           low == Max({good, locked})
           asked == Max({low, r})
<1>1. ceiling \in Nat /\ MinBps <= ceiling /\ ceiling <= Hard
  BY Ceilings
<1>2. c.knee \in Nat /\ Times(c.good, 90) \in Nat
  BY TimesNat DEF Typed
<1>3. MinBps \in Nat /\ Hard \in Nat
  BY Limits
<1>4. good \in Nat /\ MinBps <= good
  BY <1>2, <1>3, Pairs
<1>5. Floor(c) = low
  BY DEF Floor
<1>6. locked \in Nat
  BY <1>2
<1> HIDE DEF good, locked
<1>7. low \in Nat /\ good <= low /\ locked <= low
  BY <1>4, <1>6, Pairs
<1> HIDE DEF low
<1>8. asked \in Nat /\ low <= asked
  BY <1>7, Pairs
<1>9. Clip(c, r) = Min({ceiling, asked})
  BY <1>5 DEF Clip
<1> HIDE DEF asked, ceiling
<1>10. Clip(c, r) \in Nat /\ MinBps <= Clip(c, r) /\ Clip(c, r) <= Hard
  BY <1>1, <1>3, <1>4, <1>7, <1>8, <1>9, Pairs
<1>11. ASSUME Sure(c), c.confirmed
       PROVE  Clip(c, r) = FrozenRate(c)
  <2>1. /\ c.knee > 0 /\ ~IsFillKnee(c) /\ Locked(c) /\ c.phase \in {"cruise", "drain"}
    BY <1>11, SureIsFrozen DEF Sound
  <2>2. ceiling = FrozenRate(c)
    BY <1>11, <2>1 DEF ceiling, RateCeiling, FrozenRate
  <2>3. locked = c.knee
    BY <2>1 DEF locked
  <2> DEFINE top == Max({MinBps, c.knee})
  <2>4. top \in Nat /\ top <= asked
    BY <1>2, <1>3, <1>4, <1>7, <1>8, <2>3, Pairs
  <2>5. FrozenRate(c) = Min({Hard, top})
    BY DEF FrozenRate
  <2> HIDE DEF top
  <2>6. ceiling <= asked
    BY <1>3, <1>8, <2>2, <2>4, <2>5, Pairs
  <2>7. QED
    BY <1>1, <1>8, <1>9, <2>2, <2>6, Pairs
<1>12. QED
  BY <1>10, <1>11

-----------------------------------------------------------------------------
(* Cuts *)

LEMMA AimNat ==
    ASSUME NEW c, Typed(c)
    PROVE  AimDelivery(c) \in Nat
<1> DEFINE live == Max({MinBps, Times(c.delivery, 110)})
<1>1. /\ c.rate \in Nat /\ c.knee \in Nat /\ MaxBw(c) \in Nat /\ MinBps \in Nat /\ Fill \in Nat
      /\ Times(c.delivery, 110) \in Nat /\ Times(c.good, 75) \in Nat
  BY MaxBwNat, TimesNat, Limits DEF Typed
<1>2. Times(MaxBw(c), 110) \in Nat /\ live \in Nat
  BY <1>1, TimesNat, Pairs
<1>3. AimDelivery(c) \in {c.knee, Max({MinBps, c.knee}), Max({live, Times(c.good, 75)}),
                          Max({live, Fill}), c.rate, Max({MinBps, Times(MaxBw(c), 110)})}
  BY DEF AimDelivery
<1> HIDE DEF live
<1>4. QED
  BY <1>1, <1>2, <1>3, Pairs

LEMMA HoldLockedSound ==
    ASSUME NEW c, Sound(c)
    PROVE  /\ Sound(HoldLocked(c)) /\ SameLock(c, HoldLocked(c))
           /\ Sound([HoldLocked(c) EXCEPT !.sinceStep = 0])
           /\ SameLock(c, [HoldLocked(c) EXCEPT !.sinceStep = 0])
<1> DEFINE d == HoldLocked(c)
           e == [d EXCEPT !.sinceStep = 0]
<1>1. Max({c.good, c.knee}) \in Nat
  BY Pairs DEF Sound, Typed
<1>2. /\ Fields \subseteq DOMAIN d /\ d.phase = c.phase /\ d.rate = c.knee /\ d.good \in Nat
      /\ d.knee = c.knee /\ d.sawKnee = c.sawKnee /\ d.confirmed = c.confirmed
      /\ d.delivery = c.delivery /\ d.sendRate = c.sendRate /\ d.probeBase = c.probeBase
      /\ d.bw = c.bw /\ d.sends = c.sends
  BY <1>1 DEF HoldLocked, Fields, Sound, Typed
<1> HIDE DEF d
<1>3. Sound(d) /\ SameLock(c, d)
  BY <1>2 DEF Sound, Typed, Sure, SameLock
<1>4. Quiet(d, e)
  BY <1>2 DEF Quiet, Fields
<1>5. Sound(e) /\ SameLock(d, e)
  BY <1>3, <1>4, QuietNotes DEF Noting, SameLock
<1>6. QED
  BY <1>3, <1>5 DEF SameLock, d

LEMMA CutToDeliverySound ==
    ASSUME NEW c, Sound(c)
    PROVE  Sound(CutToDelivery(c)) /\ SameLock(c, CutToDelivery(c))
<1> DEFINE rate == Min({c.rate, AimDelivery(c)})
           d == [c EXCEPT !.rate = rate, !.sinceStep = 0,
                          !.good = IF c.knee > 0 THEN Max({@, c.knee}) ELSE Min({@, rate})]
<1>1. CutToDelivery(c) = IF Locked(c) THEN [HoldLocked(c) EXCEPT !.sinceStep = 0] ELSE d
  BY DEF CutToDelivery
<1>2. rate \in Nat
  BY AimNat, Pairs DEF Sound, Typed
<1> HIDE DEF rate
<1>3. Max({c.good, c.knee}) \in Nat /\ Min({c.good, rate}) \in Nat
  BY <1>2, Pairs DEF Sound, Typed
<1>4. /\ Fields \subseteq DOMAIN d /\ d.phase = c.phase /\ d.rate = rate /\ d.good \in Nat
      /\ d.knee = c.knee /\ d.sawKnee = c.sawKnee /\ d.confirmed = c.confirmed
      /\ d.delivery = c.delivery /\ d.sendRate = c.sendRate /\ d.probeBase = c.probeBase
      /\ d.bw = c.bw /\ d.sends = c.sends
  BY <1>3 DEF Fields, Sound, Typed
<1> HIDE DEF d
<1>5. Sound(d) /\ SameLock(c, d)
  BY <1>2, <1>4 DEF Sound, Typed, Sure, SameLock
<1>6. QED
  BY <1>1, <1>5, HoldLockedSound

LEMMA CutPolicerSound ==
    ASSUME NEW c, Sound(c)
    PROVE  Sound(CutPolicer(c)) /\ SameLock(c, CutPolicer(c))
<1>1. Sound(CutToDelivery(c)) /\ SameLock(c, CutToDelivery(c))
  BY CutToDeliverySound
<1>2. /\ Sound(EnterCruise(CutToDelivery(c), TRUE))
      /\ SameLock(CutToDelivery(c), EnterCruise(CutToDelivery(c), TRUE))
  BY <1>1, EnterCruiseSound
<1>3. QED
  BY <1>1, <1>2 DEF CutPolicer, SameLock

LEMMA BeginDrainSound ==
    ASSUME NEW c, Sound(c)
    PROVE  Sound(BeginDrain(c)) /\ SameLock(c, BeginDrain(c))
<1> DEFINE d == [c EXCEPT !.phase = "drain", !.drainAge = 0, !.drainCuts = 1, !.sinceStep = 0]
           aimed == AimDelivery(d)
           soft == Times(d.rate, 93)
           eased == IF aimed < d.rate THEN Max({soft, aimed}) ELSE soft
           rate == Clip(d, IF c.phase = "cruise" THEN eased ELSE DrainTarget(d))
           e == [d EXCEPT !.rate = rate, !.highN = IF c.phase = "cruise" THEN 0 ELSE @]
<1>1. BeginDrain(c) = e
  BY DEF BeginDrain
<1>2. /\ Fields \subseteq DOMAIN d /\ d.phase = "drain" /\ d.rate = c.rate /\ d.good = c.good
      /\ d.knee = c.knee /\ d.sawKnee = c.sawKnee /\ d.confirmed = c.confirmed
      /\ d.delivery = c.delivery /\ d.sendRate = c.sendRate /\ d.probeBase = c.probeBase
      /\ d.bw = c.bw /\ d.sends = c.sends
  BY DEF Fields, Sound, Typed
<1> HIDE DEF d
<1>3. Sound(d) /\ Typed(d)
  BY <1>2 DEF Sound, Typed, Sure
<1>4. /\ d.rate \in Nat /\ aimed \in Nat /\ soft \in Nat
  BY <1>3, AimNat, TimesNat DEF Typed
<1>5. eased \in Nat
  BY <1>4, Pairs
<1>6. DrainTarget(d) \in Nat
  BY <1>3, <1>4, TimesNat, Pairs DEF DrainTarget
<1>7. rate \in Nat
  BY <1>3, <1>5, <1>6, ClipFacts
<1> HIDE DEF aimed, soft, eased, rate
<1>8. /\ Fields \subseteq DOMAIN e /\ e.phase = "drain" /\ e.rate = rate /\ e.good = d.good
      /\ e.knee = d.knee /\ e.sawKnee = d.sawKnee /\ e.confirmed = d.confirmed
      /\ e.delivery = d.delivery /\ e.sendRate = d.sendRate /\ e.probeBase = d.probeBase
      /\ e.bw = d.bw /\ e.sends = d.sends
  BY <1>2 DEF Fields
<1> HIDE DEF e
<1>9. Sound(e) /\ SameLock(c, e)
  BY <1>2, <1>3, <1>7, <1>8 DEF Sound, Typed, Sure, SameLock
<1>10. QED
  BY <1>1, <1>9

LEMMA RecoverWreckedSound ==
    ASSUME NEW c, Sound(c)
    PROVE  Sound(RecoverWrecked(c)) /\ SameLock(c, RecoverWrecked(c))
<1> DEFINE held == Max({c.good, MaxBw(c), c.knee})
           live == IF c.delivery > 0 THEN Max({MinBps, Times(c.delivery, 110)}) ELSE Fill
           sane == Sanitized(c, c.knee)
           fatRate == Sanitized(c, Max({IF c.knee > 0 THEN c.knee ELSE Times(held, 75), Fill}))
           high == Max({live, Times(c.good, 75)})
           low == Max({Fill, live})
           fat == Max({Fill, fatRate})
           most == Max({Fill, Times(held, 75)})
           Held(rate) == [c EXCEPT !.rate = rate, !.good = Max({@, rate}), !.sinceStep = 0]
           atKnee == [Held(sane) EXCEPT !.knee = sane]
           atFat == [Held(fat) EXCEPT
                        !.knee = IF @ > 0 THEN Min({@, Max({fatRate, Fill})}) ELSE @,
                        !.holdoff = CutHoldoff]
           atMost == [Held(most) EXCEPT !.holdoff = CutHoldoff]
           Anew(aimed) == [ForgetStaleBw(c) EXCEPT !.rate = Min({@, aimed}),
                                                   !.good = Min({@, c.rate, aimed}),
                                                   !.sinceStep = 0, !.holdoff = CutHoldoff]
<1>1. CASE Locked(c)
  <2>1. RecoverWrecked(c) = [HoldLocked(c) EXCEPT !.sinceStep = 0]
    BY <1>1 DEF RecoverWrecked
  <2>2. QED
    BY <2>1, HoldLockedSound
<1>2. CASE ~Locked(c)
  <2>1. ~c.confirmed
    BY <1>2, SureIsFrozen
  <2>2. RecoverWrecked(c) \in {atKnee, atFat, atMost, Anew(high), Anew(low)}
    BY <1>2 DEF RecoverWrecked
  <2>3. /\ c.rate \in Nat /\ c.good \in Nat /\ c.knee \in Nat /\ c.delivery \in Nat
        /\ MaxBw(c) \in Nat /\ Fill \in Nat /\ MinBps \in Nat
        /\ Times(c.good, 75) \in Nat /\ Times(c.delivery, 110) \in Nat
    BY MaxBwNat, TimesNat, Limits DEF Sound, Typed
  <2>4. held \in Nat
    BY <2>3, Triples
  <2> HIDE DEF held
  <2>5. Times(held, 75) \in Nat
    BY <2>4, TimesNat
  <2>6. live \in Nat /\ sane \in Nat
    BY <2>3, Pairs, SanitizedNat DEF Sound
  <2>7. fatRate \in Nat
    <3>1. Max({IF c.knee > 0 THEN c.knee ELSE Times(held, 75), Fill}) \in Nat
      BY <2>3, <2>5, Pairs
    <3>2. QED
      BY <3>1, SanitizedNat DEF Sound
  <2> HIDE DEF live, sane, fatRate
  <2>8. high \in Nat /\ low \in Nat /\ fat \in Nat /\ most \in Nat
    BY <2>3, <2>5, <2>6, <2>7, Pairs
  <2> HIDE DEF high, low, fat, most
  <2>9. ASSUME NEW rate \in Nat
        PROVE  /\ Typed(Held(rate)) /\ ~Held(rate).confirmed
               /\ Held(rate).phase = c.phase
    <3> DEFINE d == Held(rate)
    <3>1. Max({c.good, rate}) \in Nat
      BY <2>3, Pairs
    <3>2. /\ Fields \subseteq DOMAIN d /\ d.phase = c.phase /\ d.rate = rate /\ d.good \in Nat
          /\ d.knee = c.knee /\ d.sawKnee = c.sawKnee /\ d.confirmed = c.confirmed
          /\ d.delivery = c.delivery /\ d.sendRate = c.sendRate /\ d.probeBase = c.probeBase
          /\ d.bw = c.bw /\ d.sends = c.sends
      BY <3>1 DEF Fields, Sound, Typed
    <3> HIDE DEF d
    <3>3. Typed(d) /\ ~d.confirmed /\ d.phase = c.phase
      BY <2>1, <3>2 DEF Sound, Typed
    <3>4. QED
      BY <3>3 DEF d
  <2> HIDE DEF Held
  <2>10. ASSUME NEW d, Typed(d), ~d.confirmed, NEW k \in Nat
         PROVE  Sound([d EXCEPT !.knee = k]) /\ Sound([d EXCEPT !.holdoff = CutHoldoff])
                /\ Sound([d EXCEPT !.knee = k, !.holdoff = CutHoldoff])
    <3> DEFINE e == [d EXCEPT !.knee = k]
               f == [d EXCEPT !.holdoff = CutHoldoff]
               g == [d EXCEPT !.knee = k, !.holdoff = CutHoldoff]
    <3>1. Sound(d) /\ Quiet(d, f)
      BY <2>10 DEF Quiet, Fields, Typed, Sound, Sure
    <3>2. /\ Fields \subseteq DOMAIN e /\ e.phase = d.phase /\ e.rate = d.rate /\ e.good = d.good
          /\ e.knee = k /\ e.sawKnee = d.sawKnee /\ e.confirmed = d.confirmed
          /\ e.delivery = d.delivery /\ e.sendRate = d.sendRate /\ e.probeBase = d.probeBase
          /\ e.bw = d.bw /\ e.sends = d.sends
      BY <2>10 DEF Fields, Typed
    <3>3. /\ Fields \subseteq DOMAIN g /\ g.phase = d.phase /\ g.rate = d.rate /\ g.good = d.good
          /\ g.knee = k /\ g.sawKnee = d.sawKnee /\ g.confirmed = d.confirmed
          /\ g.delivery = d.delivery /\ g.sendRate = d.sendRate /\ g.probeBase = d.probeBase
          /\ g.bw = d.bw /\ g.sends = d.sends
      BY <2>10 DEF Fields, Typed
    <3> HIDE DEF e, f, g
    <3>4. Sound(e) /\ Sound(f) /\ Sound(g)
      BY <2>10, <3>1, <3>2, <3>3, QuietNotes DEF Noting, Sound, Typed, Sure
    <3>5. QED
      BY <3>4 DEF e, f, g
  <2>11. Sound(atKnee)
    BY <2>6, <2>9, <2>10
  <2>12. Sound(atMost)
    BY <2>8, <2>9, <2>10
  <2>13. Sound(atFat)
    <3> DEFINE d == Held(fat)
               k == IF d.knee > 0 THEN Min({d.knee, Max({fatRate, Fill})}) ELSE d.knee
    <3>1. Typed(d) /\ ~d.confirmed
      BY <2>8, <2>9
    <3> HIDE DEF d
    <3>2. Max({fatRate, Fill}) \in Nat /\ d.knee \in Nat
      BY <2>3, <2>7, <3>1, Pairs DEF Typed
    <3>3. k \in Nat
      BY <3>2, Pairs
    <3>4. atFat = [d EXCEPT !.knee = k, !.holdoff = CutHoldoff]
      BY DEF d
    <3> HIDE DEF k
    <3>5. QED
      BY <2>10, <3>1, <3>3, <3>4
  <2>14. ASSUME NEW aimed \in Nat
         PROVE  Sound(Anew(aimed))
    <3> DEFINE f == ForgetStaleBw(c)
               rate == Min({f.rate, aimed})
               good == Min({f.good, c.rate, aimed})
               d == [f EXCEPT !.rate = rate, !.good = good,
                              !.sinceStep = 0, !.holdoff = CutHoldoff]
    <3>1. <<>> \in Seq(Nat) /\ <<>> \in Seq(Nat \X Nat)
      BY EmptySeq
    <3>2. /\ Fields \subseteq DOMAIN f /\ f.phase = c.phase /\ f.rate = c.rate /\ f.good = c.good
          /\ f.knee = 0 /\ ~f.confirmed /\ f.delivery = c.delivery
          /\ f.sendRate = c.sendRate /\ f.probeBase = c.probeBase
          /\ f.bw = <<>> /\ f.sends = <<>>
      BY DEF ForgetStaleBw, Fields, Sound, Typed
    <3> HIDE DEF f
    <3>3. rate \in Nat /\ good \in Nat
      BY <2>3, <3>2, Pairs, Triples
    <3> HIDE DEF rate, good
    <3>4. /\ Fields \subseteq DOMAIN d /\ d.phase = f.phase /\ d.rate = rate /\ d.good = good
          /\ d.knee = f.knee /\ d.confirmed = f.confirmed /\ d.delivery = f.delivery
          /\ d.sendRate = f.sendRate /\ d.probeBase = f.probeBase
          /\ d.bw = f.bw /\ d.sends = f.sends
      BY <3>2 DEF Fields
    <3> HIDE DEF d
    <3>5. Sound(d)
      BY <3>1, <3>2, <3>3, <3>4 DEF Sound, Typed, Sure
    <3>6. QED
      BY <3>5 DEF d, f, rate, good
  <2> HIDE DEF atKnee, atFat, atMost, Anew
  <2>15. QED
    BY <2>1, <2>2, <2>8, <2>11, <2>12, <2>13, <2>14 DEF SameLock
<1>3. QED
  BY <1>1, <1>2

\* A probe that met a dropper locks what it started from, if that was more
\* than the shelf.
LEMMA AbortProbeDropperSound ==
    ASSUME NEW c, Sound(c), ~c.confirmed
    PROVE  Sound(AbortProbeDropper(c))
<1> DEFINE base == IF c.knee > 0 THEN c.knee ELSE c.probeBase
           prior == Max({c.good, c.knee})
           onShelf == [c EXCEPT !.confirmed = FALSE, !.sawKnee = FALSE, !.knee = 0,
                                !.rate = Max({base, Fill})]
           back == [c EXCEPT !.rate = Max({base, Times(prior, 75)}), !.good = prior,
                             !.knee = IF @ = 0 THEN prior ELSE @, !.confirmed = FALSE]
           lock == [c EXCEPT !.knee = base, !.rate = base, !.good = Max({@, base}),
                             !.sawKnee = TRUE, !.confirmed = TRUE]
<1>1. \/ AbortProbeDropper(c) \in {EnterCruise(onShelf, FALSE), EnterCruise(back, FALSE)}
      \/ AbortProbeDropper(c) = EnterCruise(lock, FALSE) /\ ~(100 * base <= 130 * Fill)
  BY DEF AbortProbeDropper
<1>2. /\ c.rate \in Nat /\ c.good \in Nat /\ c.knee \in Nat /\ c.probeBase \in Nat /\ Fill \in Nat
  BY Limits DEF Sound, Typed
<1>3. base \in Nat /\ prior \in Nat
  BY <1>2, Pairs
<1> HIDE DEF base, prior
<1>4. Times(prior, 75) \in Nat
  BY <1>3, TimesNat
<1>5. /\ Max({base, Fill}) \in Nat /\ Max({base, Times(prior, 75)}) \in Nat
      /\ Max({c.good, base}) \in Nat
  BY <1>2, <1>3, <1>4, Pairs
<1>6. /\ Fields \subseteq DOMAIN onShelf /\ onShelf.phase = c.phase /\ onShelf.rate \in Nat
      /\ onShelf.good = c.good /\ onShelf.knee = 0 /\ ~onShelf.confirmed
      /\ onShelf.delivery = c.delivery /\ onShelf.sendRate = c.sendRate
      /\ onShelf.probeBase = c.probeBase /\ onShelf.bw = c.bw /\ onShelf.sends = c.sends
  BY <1>5 DEF Fields, Sound, Typed
<1>7. /\ Fields \subseteq DOMAIN back /\ back.phase = c.phase /\ back.rate \in Nat
      /\ back.good = prior /\ back.knee \in {prior, c.knee} /\ ~back.confirmed
      /\ back.delivery = c.delivery /\ back.sendRate = c.sendRate
      /\ back.probeBase = c.probeBase /\ back.bw = c.bw /\ back.sends = c.sends
  BY <1>5 DEF Fields, Sound, Typed
<1>8. Sound(onShelf) /\ Sound(back)
  <2> HIDE DEF onShelf, back
  <2>1. QED
    BY <1>2, <1>3, <1>6, <1>7 DEF Sound, Typed, Sure
<1> HIDE DEF onShelf, back
<1>9. ASSUME ~(100 * base <= 130 * Fill)
      PROVE  Sound(EnterCruise(lock, FALSE))
  <2> DEFINE d == EnterCruise(lock, FALSE)
  <2>1. /\ Fields \subseteq DOMAIN d /\ d.phase = "cruise" /\ d.rate = base
        /\ d.good = Max({c.good, base}) /\ d.knee = base /\ d.sawKnee /\ d.confirmed
        /\ d.delivery = c.delivery /\ d.sendRate = c.sendRate
        /\ d.probeBase = c.probeBase /\ d.bw = c.bw /\ d.sends = c.sends
    BY DEF EnterCruise, Fields, Sound, Typed
  <2> HIDE DEF d
  <2>2. 100 * base > 130 * Fill
    BY <1>2, <1>3, <1>9
  <2>3. Sound(d)
    BY <1>3, <1>5, <2>1, <2>2 DEF Sound, Typed, Sure
  <2>4. QED
    BY <2>3 DEF d
<1> HIDE DEF lock
<1>10. Sound(EnterCruise(onShelf, FALSE)) /\ Sound(EnterCruise(back, FALSE))
  BY <1>8, EnterCruiseSound
<1>11. QED
  BY <1>1, <1>9, <1>10

-----------------------------------------------------------------------------
(* The phases *)

LEMMA BoolFacts == TRUE \in BOOLEAN /\ FALSE \in BOOLEAN
  OBVIOUS

\* Only rate, remainder and base of a probe change.
LEMMA RateSet ==
    ASSUME NEW c, Sound(c), NEW rate \in Nat
    PROVE  /\ Sound([c EXCEPT !.rate = rate]) /\ SameLock(c, [c EXCEPT !.rate = rate])
           /\ Sound([c EXCEPT !.rate = rate, !.sinceStep = 0])
           /\ Sound([c EXCEPT !.sinceStep = 0, !.rate = rate])
           /\ SameLock(c, [c EXCEPT !.sinceStep = 0, !.rate = rate])
<1> DEFINE d == [c EXCEPT !.rate = rate]
           e == [c EXCEPT !.rate = rate, !.sinceStep = 0]
           g == [c EXCEPT !.sinceStep = 0, !.rate = rate]
           Same(h) == /\ Fields \subseteq DOMAIN h /\ h.phase = c.phase /\ h.rate = rate
                      /\ h.good = c.good /\ h.knee = c.knee /\ h.sawKnee = c.sawKnee
                      /\ h.confirmed = c.confirmed /\ h.delivery = c.delivery
                      /\ h.sendRate = c.sendRate /\ h.probeBase = c.probeBase
                      /\ h.bw = c.bw /\ h.sends = c.sends
<1>1. Same(d)
  BY DEF Fields, Sound, Typed
<1>2. Same(e)
  BY DEF Fields, Sound, Typed
<1>3. Same(g)
  BY DEF Fields, Sound, Typed
<1>4. \A h : Same(h) => Sound(h) /\ SameLock(c, h)
  BY DEF Sound, Typed, Sure, SameLock
<1> HIDE DEF d, e, g, Same
<1>5. Sound(d) /\ SameLock(c, d) /\ Sound(e) /\ Sound(g) /\ SameLock(c, g)
  BY <1>1, <1>2, <1>3, <1>4
<1>6. QED
  BY <1>5 DEF d, e, g

LEMMA RampNat ==
    ASSUME NEW c, Typed(c)
    PROVE  /\ Ramp(c) \in Nat
           /\ c.rate >= MinBps => Ramp(c) >= MinBps /\ Ramp(c) <= Hard
<1> DEFINE seen == Max({IF MaxBw(c) > 0 THEN MaxBw(c) ELSE c.rate, c.delivery})
           up == Max({c.rate, Times(seen, StartupGain(c))})
<1>1. c.rate \in Nat /\ c.delivery \in Nat /\ MaxBw(c) \in Nat /\ StartupGain(c) \in Nat
  BY MaxBwNat, GainNat DEF Typed
<1>2. seen \in Nat
  BY <1>1, Pairs
<1> HIDE DEF seen
<1>3. Times(seen, StartupGain(c)) \in Nat
  BY <1>1, <1>2, TimesNat
<1>4. up \in Nat /\ up >= c.rate
  BY <1>1, <1>3, Pairs
<1>5. Ramp(c) = Min({RateCeiling(c), up})
  BY DEF Ramp, seen
<1> HIDE DEF up
<1>6. RateCeiling(c) \in Nat /\ MinBps <= RateCeiling(c) /\ RateCeiling(c) <= Hard
  BY Ceilings
<1>7. MinBps \in Nat /\ Hard \in Nat
  BY Limits
<1>8. Ramp(c) = IF RateCeiling(c) <= up THEN RateCeiling(c) ELSE up
  BY <1>4, <1>5, <1>6, Pairs
<1>9. Ramp(c) \in Nat /\ Ramp(c) <= Hard
  BY <1>4, <1>6, <1>7, <1>8
<1>10. c.rate >= MinBps => Ramp(c) >= MinBps
  BY <1>1, <1>4, <1>6, <1>7, <1>8
<1>11. QED
  BY <1>9, <1>10

LEMMA SettleStartupSound ==
    ASSUME NEW c, Sound(c), ~c.confirmed
    PROVE  Sound(SettleStartup(c))
<1> DEFINE bw == MaxBw(c)
           aimed == Max({MinBps, IF c.wasFat THEN bw ELSE Times(bw, 110)})
           rate == Min({c.rate, aimed})
           d == [c EXCEPT !.rate = rate]
           held == Max({c.knee, bw})
           good == Max({d.good, Sanitized(d, held)})
           e == [d EXCEPT !.good = good]
<1>1. SettleStartup(c) \in {LockKnee(c), EnterCruise(e, FALSE), EnterCruise(d, FALSE)}
  BY DEF SettleStartup
<1>2. /\ bw \in Nat /\ Times(bw, 110) \in Nat /\ MinBps \in Nat
      /\ c.rate \in Nat /\ c.knee \in Nat
  BY MaxBwNat, TimesNat, Limits DEF Sound, Typed
<1>3. aimed \in Nat /\ held \in Nat
  BY <1>2, Pairs
<1> HIDE DEF aimed, held
<1>4. rate \in Nat
  BY <1>2, <1>3, Pairs
<1> HIDE DEF rate
<1>5. Sound(d) /\ d.confirmed = c.confirmed /\ d.phase = c.phase
  BY <1>4, RateSet DEF Fields, Sound, Typed
<1> HIDE DEF d
<1>6. Sanitized(d, held) \in Nat
  BY <1>3, <1>5, SanitizedNat DEF Sound
<1>7. good \in Nat
  BY <1>5, <1>6, Pairs DEF Sound, Typed
<1> HIDE DEF good
<1>8. /\ Fields \subseteq DOMAIN e /\ e.phase = d.phase /\ e.rate = d.rate /\ e.good = good
      /\ e.knee = d.knee /\ e.sawKnee = d.sawKnee /\ e.confirmed = d.confirmed
      /\ e.delivery = d.delivery /\ e.sendRate = d.sendRate /\ e.probeBase = d.probeBase
      /\ e.bw = d.bw /\ e.sends = d.sends
  BY <1>5 DEF Fields, Sound, Typed
<1> HIDE DEF e
<1>9. Sound(e)
  BY <1>5, <1>7, <1>8 DEF Sound, Typed, Sure
<1>10. QED
  BY <1>1, <1>5, <1>9, LockKneeSound, EnterCruiseSound, BoolFacts

LEMMA TickStartupSound ==
    ASSUME NEW c, Sound(c), c.phase = "startup", NEW f
    PROVE  Sound(TickStartup(c, f))
<1>1. ~c.confirmed
  BY DEF Sound, Sure
<1>2. TickStartup(c, f) \in
        {BeginDrain(c), LockKnee(c), EnterCruise(RecoverWrecked(c), FALSE), CutPolicer(c),
         EnterCruise(c, TRUE), SettleStartup(c), [c EXCEPT !.rate = Ramp(c), !.sinceStep = 0], c}
  BY DEF TickStartup
<1>3. Sound(BeginDrain(c)) /\ Sound(LockKnee(c)) /\ Sound(CutPolicer(c))
  BY <1>1, BeginDrainSound, LockKneeSound, CutPolicerSound
<1>4. Sound(EnterCruise(RecoverWrecked(c), FALSE)) /\ Sound(EnterCruise(c, TRUE))
  BY RecoverWreckedSound, EnterCruiseSound, BoolFacts
<1>5. Sound(SettleStartup(c))
  BY <1>1, SettleStartupSound
<1>6. Sound([c EXCEPT !.rate = Ramp(c), !.sinceStep = 0])
  BY RampNat, RateSet DEF Sound
<1>7. QED
  BY <1>2, <1>3, <1>4, <1>5, <1>6

LEMMA TickDrainSound ==
    ASSUME NEW c, Sound(c), c.phase = "drain", NEW f
    PROVE  Sound(TickDrain(c, f)) /\ SameLock(c, TickDrain(c, f))
<1> DEFINE cut == [c EXCEPT !.sinceStep = 0, !.drainCuts = @ + 1, !.rate = Clip(c, DrainTarget(c))]
<1>1. TickDrain(c, f) \in
        {EnterCruise(CutToDelivery(c), TRUE), EnterCruise(RecoverWrecked(c), FALSE),
         CutPolicer(c), EnterCruise(c, TRUE), cut, c}
  BY DEF TickDrain
<1>2. \A d : Sound(d) /\ SameLock(c, d) =>
          /\ Sound(EnterCruise(d, TRUE)) /\ SameLock(c, EnterCruise(d, TRUE))
          /\ Sound(EnterCruise(d, FALSE)) /\ SameLock(c, EnterCruise(d, FALSE))
  BY EnterCruiseSound, BoolFacts DEF SameLock
<1>3. /\ Sound(CutToDelivery(c)) /\ SameLock(c, CutToDelivery(c))
      /\ Sound(RecoverWrecked(c)) /\ SameLock(c, RecoverWrecked(c))
      /\ Sound(CutPolicer(c)) /\ SameLock(c, CutPolicer(c))
      /\ SameLock(c, c)
  BY CutToDeliverySound, RecoverWreckedSound, CutPolicerSound DEF SameLock
<1>4. Sound(cut) /\ SameLock(c, cut)
  <2>1. AimDelivery(c) \in Nat /\ Times(c.rate, 75) \in Nat
    BY AimNat, TimesNat DEF Sound, Typed
  <2>2. DrainTarget(c) \in Nat
    BY <2>1, Pairs DEF DrainTarget
  <2> DEFINE rate == Clip(c, DrainTarget(c))
  <2>3. rate \in Nat
    BY <2>2, ClipFacts DEF Sound
  <2> HIDE DEF rate
  <2>4. /\ Fields \subseteq DOMAIN cut /\ cut.phase = c.phase /\ cut.rate = rate
        /\ cut.good = c.good /\ cut.knee = c.knee /\ cut.sawKnee = c.sawKnee
        /\ cut.confirmed = c.confirmed /\ cut.delivery = c.delivery
        /\ cut.sendRate = c.sendRate /\ cut.probeBase = c.probeBase
        /\ cut.bw = c.bw /\ cut.sends = c.sends
    BY DEF Fields, Sound, Typed, rate
  <2> HIDE DEF cut
  <2>5. QED
    BY <2>3, <2>4 DEF Sound, Typed, Sure, SameLock
<1> HIDE DEF cut
<1>5. QED
  BY <1>1, <1>2, <1>3, <1>4

LEMMA StartProbeSound ==
    ASSUME NEW c, Sound(c), ~c.confirmed, NEW f
    PROVE  Sound(StartProbe(c, f))
<1> DEFINE d == [c EXCEPT !.phase = "probe", !.probeBase = c.rate,
                          !.probeDecoded = c.decoded, !.probeUnique = c.delivery,
                          !.probeLeft = ProbeTicks]
           Up(gain) == [d EXCEPT !.rate = Min({RaiseCeiling(d), Clip(d, Times(c.rate, gain))})]
<1>1. StartProbe(c, f) \in {c, Up(125), Up(110)}
  BY DEF StartProbe
<1>2. /\ Fields \subseteq DOMAIN d /\ d.phase = "probe" /\ d.probeBase = c.rate
      /\ d.rate = c.rate /\ d.good = c.good /\ d.knee = c.knee /\ d.sawKnee = c.sawKnee
      /\ d.confirmed = c.confirmed /\ d.delivery = c.delivery /\ d.sendRate = c.sendRate
      /\ d.bw = c.bw /\ d.sends = c.sends
  BY DEF Fields, Sound, Typed
<1> HIDE DEF d
<1>3. Sound(d) /\ Typed(d) /\ c.rate \in Nat
  BY <1>2 DEF Sound, Typed, Sure
<1>4. ASSUME NEW gain \in Nat
      PROVE  Sound(Up(gain))
  <2>1. Times(c.rate, gain) \in Nat
    BY <1>3, TimesNat
  <2>2. Clip(d, Times(c.rate, gain)) \in Nat /\ RaiseCeiling(d) \in Nat
    BY <1>3, <2>1, ClipFacts, Ceilings
  <2>3. Min({RaiseCeiling(d), Clip(d, Times(c.rate, gain))}) \in Nat
    BY <2>2, Pairs
  <2>4. QED
    BY <1>3, <2>3, RateSet
<1> HIDE DEF Up
<1>5. QED
  BY <1>1, <1>4

LEMMA FillStepSound ==
    ASSUME NEW c, Sound(c), NEW d, Sound(d), SameLock(c, d), NEW ceiling \in Nat
    PROVE  Sound(FillStep(c, d, ceiling)) /\ SameLock(c, FillStep(c, d, ceiling))
<1> DEFINE rate == Min({ceiling, Clip(d, Times(c.rate, 125))})
<1>1. FillStep(c, d, ceiling) \in {c, [d EXCEPT !.sinceStep = 0, !.rate = rate]}
  BY DEF FillStep
<1>2. Times(c.rate, 125) \in Nat
  BY TimesNat DEF Sound, Typed
<1>3. Clip(d, Times(c.rate, 125)) \in Nat
  BY <1>2, ClipFacts DEF Sound
<1>4. rate \in Nat
  BY <1>3, Pairs
<1> HIDE DEF rate
<1>5. /\ Sound([d EXCEPT !.sinceStep = 0, !.rate = rate])
      /\ SameLock(d, [d EXCEPT !.sinceStep = 0, !.rate = rate])
  BY <1>4, RateSet
<1>6. QED
  BY <1>1, <1>5 DEF SameLock

\* In cruise a frozen lock stays, as long as its rate is above the shelf.
LEMMA TickCruiseSound ==
    ASSUME NEW c, Sound(c), c.phase = "cruise", NEW f
    PROVE  /\ Sound(TickCruise(c, f))
           /\ ~OnFillShelf(c) => SameLock(c, TickCruise(c, f))
<1> DEFINE free == [c EXCEPT !.confirmed = FALSE, !.sawKnee = FALSE,
                             !.knee = IF IsFillKnee(c) THEN 0 ELSE @]
           high == Min({Hard, Max({Times(c.rate, 125), Times(Fill, 288)})})
           low == Min({Hard, Max({Times(c.rate, 125), Fill})})
<1>1. /\ c.rate \in Nat /\ Fill \in Nat /\ Hard \in Nat
      /\ Times(c.rate, 125) \in Nat /\ Times(Fill, 288) \in Nat
  BY TimesNat, Limits DEF Sound, Typed
<1>2. high \in Nat /\ low \in Nat
  <2>1. Max({Times(c.rate, 125), Times(Fill, 288)}) \in Nat /\ Max({Times(c.rate, 125), Fill}) \in Nat
    BY <1>1, Pairs
  <2>2. QED
    BY <1>1, <2>1, Pairs
<1>3. Sound(c) /\ SameLock(c, c)
  BY DEF SameLock
<1>4. CASE BufferFull(c)
  <2>1. TickCruise(c, f) = BeginDrain(c)
    BY <1>4 DEF TickCruise
  <2>2. QED
    BY <2>1, BeginDrainSound
<1>5. CASE ~BufferFull(c) /\ OnFillShelf(c) /\ ~PipeOversend(c)
  <2>1. TickCruise(c, f) = FillStep(c, free, high)
    BY <1>5 DEF TickCruise
  <2>2. /\ Fields \subseteq DOMAIN free /\ free.phase = c.phase /\ free.rate = c.rate
        /\ free.good = c.good /\ free.knee \in {0, c.knee} /\ ~free.confirmed
        /\ free.delivery = c.delivery /\ free.sendRate = c.sendRate
        /\ free.probeBase = c.probeBase /\ free.bw = c.bw /\ free.sends = c.sends
    BY DEF Fields, Sound, Typed
  <2> HIDE DEF free, high
  <2>3. Sound(free)
    BY <2>2 DEF Sound, Typed, Sure
  <2>4. FillStep(c, free, high) \in {c, [free EXCEPT !.sinceStep = 0,
                            !.rate = Min({high, Clip(free, Times(c.rate, 125))})]}
    BY DEF FillStep
  <2>5. Min({high, Clip(free, Times(c.rate, 125))}) \in Nat
    <3>1. Clip(free, Times(c.rate, 125)) \in Nat
      BY <1>1, <2>3, ClipFacts DEF Sound
    <3>2. QED
      BY <1>2, <3>1, Pairs
  <2>6. Sound([free EXCEPT !.sinceStep = 0,
                           !.rate = Min({high, Clip(free, Times(c.rate, 125))})])
    BY <2>3, <2>5, RateSet
  <2>7. QED
    BY <1>5, <2>1, <2>4, <2>6
<1>6. CASE ~BufferFull(c) /\ ~(OnFillShelf(c) /\ ~PipeOversend(c))
           /\ Locked(c) /\ ~MaySearchPastLock(c)
  <2>1. TickCruise(c, f) = HoldLocked(c)
    BY <1>6 DEF TickCruise
  <2>2. QED
    BY <2>1, HoldLockedSound
<1>7. CASE ~BufferFull(c) /\ ~(OnFillShelf(c) /\ ~PipeOversend(c))
           /\ ~(Locked(c) /\ ~MaySearchPastLock(c))
  <2>1. ASSUME c.confirmed PROVE PipeOversend(c) /\ OnFillShelf(c)
    <3>1. Locked(c) /\ Frozen(c) /\ ~IsFillKnee(c)
      BY <2>1, SureIsFrozen
    <3>2. MaySearchPastLock(c)
      BY <1>7, <3>1
    <3>3. QED
      BY <1>7, <3>1, <3>2 DEF MaySearchPastLock
  <2>2. /\ TickCruise(c, f) \in
             {FillStep(c, c, low), LockKnee(c), CutToDelivery(c), RecoverWrecked(c),
              CutPolicer(c), StartProbe(c, f), c}
        /\ TickCruise(c, f) = LockKnee(c) \/ TickCruise(c, f) = StartProbe(c, f)
             => \/ TickCruise(c, f) \in
                     {FillStep(c, c, low), CutToDelivery(c), RecoverWrecked(c), CutPolicer(c), c}
                \/ ~OnFillShelf(c) \/ MaySearch(c)
    BY <1>7 DEF TickCruise
  <2>3. /\ Sound(FillStep(c, c, low)) /\ SameLock(c, FillStep(c, c, low))
    BY <1>2, <1>3, FillStepSound
  <2>4. /\ Sound(CutToDelivery(c)) /\ SameLock(c, CutToDelivery(c))
        /\ Sound(RecoverWrecked(c)) /\ SameLock(c, RecoverWrecked(c))
        /\ Sound(CutPolicer(c)) /\ SameLock(c, CutPolicer(c))
    BY CutToDeliverySound, RecoverWreckedSound, CutPolicerSound
  <2>5. MaySearch(c) => ~PipeOversend(c)
    BY DEF MaySearch
  <2>6. ~OnFillShelf(c) \/ MaySearch(c) => ~c.confirmed
    BY <2>1, <2>5
  <2>7. ~c.confirmed => /\ Sound(LockKnee(c)) /\ SameLock(c, LockKnee(c))
                        /\ Sound(StartProbe(c, f)) /\ SameLock(c, StartProbe(c, f))
    BY LockKneeSound, StartProbeSound DEF SameLock
  <2> HIDE DEF low
  <2>8. QED
    BY <1>3, <2>2, <2>3, <2>4, <2>6, <2>7
<1>8. QED
  BY <1>4, <1>5, <1>6, <1>7

LEMMA TickProbeSound ==
    ASSUME NEW c, Sound(c), c.phase = "probe", NEW f
    PROVE  Sound(TickProbe(c, f))
<1> DEFINE lagRate == Max({Fill, Min({c.probeBase, Max({c.good, Times(c.probeBase, 75)})})})
           At(rate) == [c EXCEPT !.rate = rate]
           Back(rate) == EnterCruise([c EXCEPT !.rate = rate], FALSE)
           Held(rate) == [Back(rate) EXCEPT !.holdoff = ProbeHoldoff]
           gained == [c EXCEPT !.good = c.rate]
<1>1. ~c.confirmed
  BY DEF Sound, Sure
<1>2. TickProbe(c, f) \in
        {AbortProbeDropper(c), Held(lagRate), Held(c.probeBase), c, Back(c.probeBase),
         EnterCruise(c, FALSE), EnterCruise(gained, TRUE)}
  BY DEF TickProbe
<1>3. /\ c.probeBase \in Nat /\ c.good \in Nat /\ Fill \in Nat
      /\ Times(c.probeBase, 75) \in Nat
  BY TimesNat, Limits DEF Sound, Typed
<1>4. Max({c.good, Times(c.probeBase, 75)}) \in Nat
  BY <1>3, Pairs
<1>5. Min({c.probeBase, Max({c.good, Times(c.probeBase, 75)})}) \in Nat
  BY <1>3, <1>4, Pairs
<1>6. lagRate \in Nat
  BY <1>3, <1>5, Pairs
<1> HIDE DEF lagRate
<1>7. ASSUME NEW rate \in Nat
      PROVE  Sound(Back(rate)) /\ Sound(Held(rate))
  <2>1. Sound(At(rate))
    BY <1>7, RateSet
  <2>2. Sound(Back(rate))
    BY <2>1, EnterCruiseSound, BoolFacts
  <2> DEFINE b == Back(rate)
             h == [b EXCEPT !.holdoff = ProbeHoldoff]
  <2> HIDE DEF b
  <2>3. Sound(b)
    BY <2>2 DEF b
  <2>4. Quiet(b, h)
    BY <2>3 DEF Quiet, Fields, Sound, Typed
  <2>5. Sound(h)
    BY <2>3, <2>4, QuietNotes DEF Noting
  <2>6. QED
    BY <2>2, <2>5 DEF b
<1>8. Sound(gained)
  <2>1. /\ Fields \subseteq DOMAIN gained /\ gained.phase = c.phase /\ gained.rate = c.rate
        /\ gained.good = c.rate /\ gained.knee = c.knee /\ gained.sawKnee = c.sawKnee
        /\ gained.confirmed = c.confirmed /\ gained.delivery = c.delivery
        /\ gained.sendRate = c.sendRate /\ gained.probeBase = c.probeBase
        /\ gained.bw = c.bw /\ gained.sends = c.sends
    BY DEF Fields, Sound, Typed
  <2> HIDE DEF gained
  <2>2. QED
    BY <2>1 DEF Sound, Typed, Sure
<1>9. Sound(EnterCruise(c, FALSE)) /\ Sound(EnterCruise(gained, TRUE))
  BY <1>8, EnterCruiseSound, BoolFacts
<1> HIDE DEF Back, Held, gained
<1>10. Sound(AbortProbeDropper(c))
  BY <1>1, AbortProbeDropperSound
<1>11. QED
  BY <1>2, <1>3, <1>6, <1>7, <1>9, <1>10

-----------------------------------------------------------------------------
(* The steps *)

SearchInv ==
    /\ Sound(cc) /\ cc.rate >= MinBps /\ cc.rate <= MaxBps
    /\ cc.confirmed => cc.rate = FrozenRate(cc)
    /\ weather \in Weathers \cup {"fair"} /\ spells \in 0 .. MaxSpells /\ odd \in BOOLEAN

LEMMA TicksNat == Capacity \in Nat /\ MaxSpells \in Nat
  BY TicksAssumption

LEMMA InitEstablishes == Init => SearchInv
<1> SUFFICES ASSUME Init PROVE SearchInv
  OBVIOUS
<1> DEFINE asked == Min({MaxBps, Times(StartBps, 90)})
<1>1. /\ MinBps \in Nat /\ MaxBps \in Nat /\ MinBps <= MaxBps /\ Times(StartBps, 90) \in Nat
  BY Limits, TimesNat
<1>2. asked \in Nat /\ asked <= MaxBps
  <2>1. asked = IF MaxBps <= Times(StartBps, 90) THEN MaxBps ELSE Times(StartBps, 90)
    BY <1>1, Pairs
  <2>2. QED
    BY <1>1, <2>1
<1>3. Start = Max({MinBps, asked})
  BY DEF Start
<1> HIDE DEF asked
<1>4. Start \in Nat /\ MinBps <= Start /\ Start <= MaxBps
  BY <1>1, <1>2, <1>3, Pairs
<1>5. /\ Fields \subseteq DOMAIN InitCc /\ InitCc.phase = "startup" /\ InitCc.rate = Start
      /\ InitCc.good = Start /\ InitCc.knee = 0 /\ ~InitCc.sawKnee /\ ~InitCc.confirmed
      /\ InitCc.delivery = 0 /\ InitCc.sendRate = 0 /\ InitCc.probeBase = 0
      /\ InitCc.bw = <<>> /\ InitCc.sends = <<>>
  BY DEF InitCc, Fields
<1>6. <<>> \in Seq(Nat) /\ <<>> \in Seq(Nat \X Nat)
  BY EmptySeq
<1>7. Sound(InitCc) /\ InitCc.rate >= MinBps /\ InitCc.rate <= MaxBps /\ ~InitCc.confirmed
  BY <1>1, <1>4, <1>5, <1>6 DEF Sound, Typed, Sure
<1>8. cc = InitCc /\ weather = "fair" /\ spells = MaxSpells /\ odd = FALSE
  BY DEF Init
<1>9. spells \in 0 .. MaxSpells /\ weather \in Weathers \cup {"fair"} /\ odd \in BOOLEAN
  <2> HIDE DEF InitCc
  <2>1. MaxSpells \in 0 .. MaxSpells
    BY TicksNat
  <2>2. QED
    BY <1>8, <2>1
<1>10. Sound(cc) /\ cc.rate >= MinBps /\ cc.rate <= MaxBps /\ ~cc.confirmed
  BY <1>7, <1>8
<1>11. QED
  BY <1>9, <1>10 DEF SearchInv

\* What the path reports are rates, in every weather.
LEMMA MeasuresAreRates ==
    ASSUME cc.rate \in Nat, NEW w \in WeatherKinds \cup {"fair"}, NEW m \in Measures(w)
    PROVE  Measured(m)
<1>1. Flow \in Nat /\ Capacity \in Nat
  BY TicksNat, Pairs DEF Flow
<1>2. \A x \in Nat : x \div 10 \in Nat /\ (x * 9) \div 10 \in Nat /\ (x * 6) \div 10 \in Nat
                     /\ (x * 98) \div 100 \in Nat
  OBVIOUS
<1> DEFINE lost == Min({(cc.rate * 9) \div 10, Capacity})
           narrow == Min({cc.rate, (Capacity * 6) \div 10})
<1>3. lost \in Nat /\ narrow \in Nat
  BY <1>1, <1>2, Pairs
<1>4. CASE w = "fair"
  BY <1>1, <1>4 DEF Measures, Fair, Measured
<1>5. CASE w = "hol"
  <2>1. PICK s \in {cc.rate \div 10, cc.rate} :
           m = [Fair EXCEPT !.send = s, !.got = Flow \div 10, !.decoded = 0,
                            !.few = TRUE, !.full = TRUE, !.loss = -1]
    BY <1>5 DEF Measures
  <2>2. s \in Nat /\ Flow \div 10 \in Nat
    BY <1>1, <1>2
  <2>3. m.send = s /\ m.got = Flow \div 10 /\ m.decoded = 0
    BY <2>1 DEF Fair
  <2>4. QED
    BY <2>2, <2>3 DEF Measured
<1>6. CASE w = "stall"
  <2>1. m = [Fair EXCEPT !.send = 0, !.got = 0, !.decoded = 0, !.full = TRUE, !.loss = -1]
    BY <1>6 DEF Measures
  <2>2. m.send = 0 /\ m.got = 0 /\ m.decoded = 0
    BY <2>1 DEF Fair
  <2>3. QED
    BY <2>2 DEF Measured
<1>7. CASE w = "queue"
  BY <1>1, <1>7 DEF Measures, Fair, Measured
<1>8. CASE w = "loss"
  BY <1>3, <1>8 DEF Measures, Fair, Measured
<1>9. CASE w = "noise"
  <2>1. m = [Fair EXCEPT !.got = (Flow * 98) \div 100, !.decoded = (Flow * 98) \div 100,
                         !.loss = PathLoss + 2]
    BY <1>9 DEF Measures
  <2>2. m.send = cc.rate /\ m.got = (Flow * 98) \div 100 /\ m.decoded = (Flow * 98) \div 100
    BY <2>1 DEF Fair
  <2>3. QED
    BY <1>1, <1>2, <2>2 DEF Measured
<1>10. CASE w = "lag"
  <2>1. m = [Fair EXCEPT !.decoded = 0, !.full = TRUE]
    BY <1>10 DEF Measures
  <2>2. m.send = cc.rate /\ m.got = Flow /\ m.decoded = 0
    BY <2>1 DEF Fair
  <2>3. QED
    BY <1>1, <2>2 DEF Measured
<1>11. CASE w = "narrow"
  BY <1>3, <1>11 DEF Measures, Fair, Measured
<1>12. CASE w = "early"
  BY <1>1, <1>12 DEF Measures, Fair, Measured
<1>13. QED
  BY <1>4, <1>5, <1>6, <1>7, <1>8, <1>9, <1>10, <1>11, <1>12 DEF WeatherKinds

LEMMA HeardSound ==
    ASSUME SearchInv, NEW m \in Measures(weather)
    PROVE  Noting(cc, Heard(m))
<1>1. Sound(cc) /\ Typed(cc) /\ cc.rate \in Nat /\ weather \in WeatherKinds \cup {"fair"}
  BY WeatherAssumption DEF SearchInv, Sound, Typed
<1>2. Measured(m)
  BY <1>1, MeasuresAreRates
<1> DEFINE c == IF m.early THEN cc ELSE Aged(cc)
<1>3. Noting(cc, Aged(cc)) /\ Noting(cc, cc)
  BY <1>1, QuietSteps, QuietNotes DEF Noting
<1>4. Noting(cc, c)
  BY <1>3
<1>5. Heard(m) = Noted(c, m)
  BY DEF Heard
<1> HIDE DEF c
<1>6. Noting(c, Noted(c, m))
  BY <1>2, <1>4, NotedSound DEF Noting
<1>7. QED
  BY <1>4, <1>5, <1>6, NotingChain

\* The clip ends every feedback.
LEMMA AnswersKeep ==
    ASSUME SearchInv, NEW next, Sound(next), Answers(next)
    PROVE  SearchInv' /\ SameLock(next, cc')
<1> DEFINE d == FatNoted(next)
           rate == Clip(next, d.rate)
<1>1. cc' = [d EXCEPT !.rate = rate]
  BY DEF Answers
<1>2. Quiet(next, d)
  BY QuietSteps DEF FatNoted, Quiet, Sound, Typed
<1> HIDE DEF d
<1>3. Sound(d) /\ SameLock(next, d) /\ d.rate = next.rate /\ d.knee = next.knee
      /\ d.confirmed = next.confirmed
  BY <1>2, QuietNotes DEF Noting, SameLock, Quiet
<1>4. d.rate \in Nat
  BY <1>3 DEF Sound, Typed
<1>5. /\ rate \in Nat /\ MinBps <= rate /\ rate <= Hard
      /\ next.confirmed => rate = FrozenRate(next)
  BY <1>4, ClipFacts DEF Sound
<1> HIDE DEF rate
<1>6. Sound(cc') /\ SameLock(d, cc')
  BY <1>1, <1>3, <1>5, RateSet
<1>7. cc'.rate = rate /\ cc'.knee = d.knee /\ cc'.confirmed = d.confirmed
  BY <1>1, <1>3 DEF Sound, Typed, Fields
<1>8. cc'.rate >= MinBps /\ cc'.rate <= MaxBps
  BY <1>5, <1>7, Limits
<1>9. cc'.confirmed => cc'.rate = FrozenRate(cc)'
  BY <1>3, <1>5, <1>7 DEF FrozenRate, Hard, Fill
<1>10. odd' \in BOOLEAN /\ UNCHANGED <<weather, spells>>
  BY DEF Answers, SearchInv
<1>11. SearchInv'
  BY <1>6, <1>8, <1>9, <1>10 DEF SearchInv
<1>12. QED
  BY <1>3, <1>6, <1>11 DEF SameLock

\* With a limit above the shelf, so is the rate of a frozen lock.
LEMMA FrozenOffShelf ==
    ASSUME 100 * Hard > 130 * Fill, NEW c, Sound(c), c.confirmed, c.rate = FrozenRate(c)
    PROVE  ~OnFillShelf(c)
<1> DEFINE top == Max({MinBps, c.knee})
<1>1. c.knee \in Nat /\ 100 * c.knee > 130 * Fill
  BY DEF Sound, Typed, Sure
<1>2. MinBps \in Nat /\ Hard \in Nat /\ Fill \in Nat
  BY Limits
<1>3. top \in Nat /\ c.knee <= top
  BY <1>1, <1>2, Pairs
<1>4. c.rate = Min({Hard, top})
  BY DEF FrozenRate
<1> HIDE DEF top
<1>5. c.rate = IF Hard <= top THEN Hard ELSE top
  BY <1>2, <1>3, <1>4, Pairs
<1>6. 100 * c.rate > 130 * Fill
  BY <1>1, <1>2, <1>3, <1>5
<1>7. c.rate \in Nat
  BY DEF Sound, Typed
<1>8. QED
  BY <1>2, <1>6, <1>7 DEF OnFillShelf, OnShelf

\* One feedback, in the phase that the controller is in.
LEMMA FeedbackKeeps ==
    ASSUME SearchInv, NEW m \in Measures(weather),
           \/ Startup(Heard(m), m) \/ Drain(Heard(m), m)
           \/ Cruise(Heard(m), m) \/ Probe(Heard(m), m)
    PROVE  /\ SearchInv'
           /\ 100 * Hard > 130 * Fill => SameLock(cc, cc')
<1>1. PICK h : h = Heard(m)
  OBVIOUS
<1>2. Noting(cc, h) /\ Sound(h)
  BY <1>1, HeardSound DEF Noting
<1>3. PICK next : /\ Answers(next)
                  /\ \/ h.phase = "startup" /\ next = TickStartup(h, m)
                     \/ h.phase = "drain" /\ next = TickDrain(h, m)
                     \/ h.phase = "cruise" /\ next = TickCruise(h, m)
                     \/ h.phase = "probe" /\ next = TickProbe(h, m)
  BY <1>1 DEF Startup, Drain, Cruise, Probe, InPhase
<1>4. Sound(next)
  BY <1>2, <1>3, TickStartupSound, TickDrainSound, TickCruiseSound, TickProbeSound
<1>5. SearchInv' /\ SameLock(next, cc')
  BY <1>3, <1>4, AnswersKeep
<1>6. ASSUME 100 * Hard > 130 * Fill, cc.confirmed
      PROVE  cc'.confirmed /\ cc'.knee = cc.knee
  <2>1. h.confirmed /\ h.knee = cc.knee /\ h.rate = cc.rate
    BY <1>2, <1>6 DEF Noting
  <2>2. h.rate = FrozenRate(h)
    BY <1>6, <2>1 DEF SearchInv, FrozenRate
  <2>3. ~OnFillShelf(h)
    BY <1>2, <1>6, <2>1, <2>2, FrozenOffShelf
  <2>4. h.phase \in {"cruise", "drain"}
    BY <1>2, <2>1 DEF Sound, Sure
  <2>5. SameLock(h, next)
    BY <1>2, <1>3, <2>3, <2>4, TickDrainSound, TickCruiseSound
  <2>6. QED
    BY <1>5, <2>1, <2>5 DEF SameLock
<1>7. QED
  BY <1>5, <1>6 DEF SameLock

LEMMA OnTimerKeeps ==
    ASSUME SearchInv, OnTimer
    PROVE  SearchInv' /\ SameLock(cc, cc')
<1> DEFINE d == FatNoted(cc)
           rate == Ramp(cc)
<1>1. /\ cc.phase = "startup" /\ cc' = [d EXCEPT !.sinceStep = 0, !.rate = rate]
      /\ UNCHANGED <<weather, spells, odd>>
  BY DEF OnTimer
<1>2. Sound(cc) /\ Typed(cc) /\ cc.rate >= MinBps /\ ~cc.confirmed
  BY <1>1 DEF SearchInv, Sound, Sure
<1>3. Quiet(cc, d)
  BY <1>2, QuietSteps DEF FatNoted, Quiet, Typed
<1> HIDE DEF d
<1>4. Sound(d) /\ ~d.confirmed
  BY <1>2, <1>3, QuietNotes DEF Noting, Quiet
<1>5. rate \in Nat /\ rate >= MinBps /\ rate <= Hard
  BY <1>2, RampNat
<1> HIDE DEF rate
<1>6. Sound(cc')
  BY <1>1, <1>4, <1>5, RateSet
<1>7. cc'.rate = rate /\ cc'.confirmed = d.confirmed
  BY <1>1, <1>4 DEF Sound, Typed, Fields
<1>8. cc'.rate >= MinBps /\ cc'.rate <= MaxBps
  BY <1>5, <1>7, Limits
<1>9. QED
  BY <1>1, <1>2, <1>4, <1>6, <1>7, <1>8 DEF SearchInv, SameLock

LEMMA WeatherKeeps ==
    ASSUME SearchInv, WeatherTurns \/ UNCHANGED vars
    PROVE  SearchInv' /\ SameLock(cc, cc')
<1>1. UNCHANGED <<cc, odd>>
  BY DEF WeatherTurns, vars
<1>2. weather' \in Weathers \cup {"fair"}
  BY DEF WeatherTurns, vars, SearchInv
<1>3. spells' \in 0 .. MaxSpells
  BY TicksNat DEF WeatherTurns, vars, SearchInv
<1>4. QED
  BY <1>1, <1>2, <1>3 DEF SearchInv, SameLock, FrozenRate, Hard, Fill

LEMMA StepKeeps ==
    ASSUME SearchInv, [Next]_vars
    PROVE  /\ SearchInv'
           /\ 100 * Hard > 130 * Fill => SameLock(cc, cc')
<1>1. CASE StartupFeedback \/ DrainFeedback \/ CruiseFeedback \/ ProbeFeedback
  BY <1>1, FeedbackKeeps DEF StartupFeedback, DrainFeedback, CruiseFeedback, ProbeFeedback
<1>2. CASE OnTimer
  BY <1>2, OnTimerKeeps
<1>3. CASE WeatherTurns \/ UNCHANGED vars
  BY <1>3, WeatherKeeps
<1>4. QED
  BY <1>1, <1>2, <1>3 DEF Next

-----------------------------------------------------------------------------
(* The theorems *)

\* The estimates stay rates, and a confirmed lock is held above the shelf at
\* the one rate that the clip leaves it.
THEOREM SearchInvAlways == Spec => []SearchInv
<1>1. SearchInv /\ [Next]_vars => SearchInv'
  BY StepKeeps
<1>2. QED
  BY <1>1, InitEstablishes, PTL DEF Spec

\* The pace stays between the floor and the cap given by the user, whatever
\* estimates the gains multiply (_clip).
THEOREM RateTypes == Spec => []TypeOK
<1>1. SearchInv => TypeOK
  <2> SUFFICES ASSUME SearchInv PROVE TypeOK
    OBVIOUS
  <2>1. Typed(cc)
    BY DEF SearchInv, Sound
  <2>2. cc.rate \in MinBps .. MaxBps
    BY <2>1, Limits DEF SearchInv, Typed
  <2>3. {cc.good, cc.knee, cc.delivery, cc.probeBase} \subseteq Nat
    BY <2>1 DEF Typed
  <2>4. QED
    BY <2>1, <2>2, <2>3 DEF SearchInv, Typed, TypeOK
<1>2. QED
  BY <1>1, SearchInvAlways, PTL

\* A confirmed lock is for good, and so is its rate, on every path whose limit
\* lies above the shelf of two blocks per round trip; below, cruise takes the
\* rate of the lock for the shelf and gives the lock up (_dropper_frozen,
\* _on_fill_shelf).
THEOREM FrozenIsForGood ==
    ASSUME 100 * Hard > 130 * Fill
    PROVE  Spec => FrozenStays
<1>1. ASSUME SearchInv, [Next]_vars
      PROVE  [Frozen(cc) => Frozen(cc') /\ cc'.rate = cc.rate]_vars
  <2> SUFFICES ASSUME Frozen(cc) PROVE Frozen(cc') /\ cc'.rate = cc.rate
    OBVIOUS
  <2>1. SearchInv' /\ SameLock(cc, cc')
    BY <1>1, StepKeeps
  <2>2. cc.confirmed
    BY DEF Frozen
  <2>3. cc'.confirmed /\ cc'.knee = cc.knee /\ Sound(cc')
    BY <2>1, <2>2 DEF SameLock, SearchInv
  <2>4. Frozen(cc')
    BY <2>3, SureIsFrozen
  <2>5. cc.rate = FrozenRate(cc)
    BY <1>1, <2>2 DEF SearchInv
  <2>6. cc'.rate = FrozenRate(cc)'
    BY <2>1, <2>3 DEF SearchInv
  <2>7. FrozenRate(cc)' = FrozenRate(cc)
    BY <2>3 DEF FrozenRate, Hard, Fill
  <2>8. QED
    BY <2>4, <2>5, <2>6, <2>7
<1>2. QED
  BY <1>1, SearchInvAlways, PTL DEF Spec, FrozenStays

-----------------------------------------------------------------------------
(* What a lock was taken at *)

\* From c to d no lock was taken, and a lock that stands has its samples.
NoLock(c, d) ==
    d.sawKnee => c.sawKnee /\ d.bw = c.bw /\ d.delivery = c.delivery

\* Or one was taken, and not at a cliff.
AliveLock(c, d) ==
    d.sawKnee => /\ d.bw = c.bw /\ d.delivery = c.delivery
                 /\ c.sawKnee \/ ~UniqueCliff(c)

LEMMA CliffSamples ==
    ASSUME NEW c, NEW d, d.bw = c.bw, d.delivery = c.delivery
    PROVE  UniqueCliff(d) <=> UniqueCliff(c)
  BY DEF UniqueCliff, MaxBw

LEMMA NoLockChain ==
    ASSUME NEW b, NEW c, NEW d, AliveLock(b, c), NoLock(c, d)
    PROVE  AliveLock(b, d)
  BY DEF NoLock, AliveLock

LEMMA QuietNoLock ==
    ASSUME NEW c, NEW d, Quiet(c, d)
    PROVE  NoLock(c, d) /\ AliveLock(c, d)
  BY DEF Quiet, NoLock, AliveLock

\* The operations that take no lock.
LEMMA NoLockTaken ==
    ASSUME NEW c, Sound(c)
    PROVE  /\ NoLock(c, EnterCruise(c, TRUE)) /\ NoLock(c, EnterCruise(c, FALSE))
           /\ NoLock(c, CutToDelivery(c)) /\ NoLock(c, CutPolicer(c))
           /\ NoLock(c, RecoverWrecked(c)) /\ NoLock(c, BeginDrain(c))
           /\ NoLock(c, HoldLocked(c))
<1>1. Fields \subseteq DOMAIN c
  BY DEF Sound, Typed
<1>2. \A d, b : Fields \subseteq DOMAIN d => NoLock(d, EnterCruise(d, b))
  BY DEF NoLock, EnterCruise, Fields
<1>3. NoLock(c, CutToDelivery(c))
  BY <1>1 DEF NoLock, CutToDelivery, HoldLocked, Fields
<1>4. NoLock(c, CutPolicer(c))
  <2>1. Fields \subseteq DOMAIN CutToDelivery(c)
    BY CutToDeliverySound DEF Sound, Typed
  <2>2. NoLock(CutToDelivery(c), EnterCruise(CutToDelivery(c), TRUE))
    BY <1>2, <2>1
  <2>3. QED
    BY <1>3, <2>2 DEF NoLock, CutPolicer
<1>5. NoLock(c, RecoverWrecked(c))
  BY <1>1 DEF NoLock, RecoverWrecked, ForgetStaleBw, HoldLocked, Fields
<1>6. NoLock(c, BeginDrain(c))
  BY <1>1 DEF NoLock, BeginDrain, Fields
<1>7. NoLock(c, HoldLocked(c))
  BY <1>1 DEF NoLock, HoldLocked, Fields
<1>8. QED
  BY <1>1, <1>2, <1>3, <1>4, <1>5, <1>6, <1>7

\* The operations that take one keep the samples.
LEMMA LockTaken ==
    ASSUME NEW c, Sound(c), ~UniqueCliff(c)
    PROVE  AliveLock(c, LockKnee(c)) /\ AliveLock(c, AbortProbeDropper(c))
<1>1. Fields \subseteq DOMAIN c
  BY DEF Sound, Typed
<1>2. AliveLock(c, LockKnee(c))
  BY <1>1 DEF AliveLock, LockKnee, LockFound, LockedAt, EnterCruise, Fields
<1>3. AliveLock(c, AbortProbeDropper(c))
  BY <1>1 DEF AliveLock, AbortProbeDropper, EnterCruise, Fields
<1>4. QED
  BY <1>2, <1>3

\* Grown loss is seen at no cliff.
LEMMA LossIsAlive ==
    ASSUME NEW c, PathLossGrew(c) \/ DropperKneeSample(c) \/ LossGrew(c) \/ KneeHit(c)
    PROVE  ~UniqueCliff(c)
  BY DEF PathLossGrew, DropperKneeSample, LossGrew, KneeHit

LEMMA NoteLossKneeAlive ==
    ASSUME NEW c, Sound(c)
    PROVE  AliveLock(c, NoteLossKnee(c))
<1> DEFINE n == IF KneeHit(c) THEN Min({c.kneeN + 1, LossHold}) ELSE 0
           d == [c EXCEPT !.kneeN = n]
<1>1. NoteLossKnee(c) \in {c, LockIfHeld(d)}
  BY DEF NoteLossKnee
<1>2. Quiet(c, d)
  BY DEF Quiet, Fields, Sound, Typed
<1>3. Sound(d)
  BY <1>2, QuietNotes DEF Noting
<1>4. UniqueCliff(d) <=> UniqueCliff(c)
  BY <1>2, CliffSamples DEF Quiet
<1>5. CASE KneeHit(c)
  <2>1. ~UniqueCliff(c) /\ ~UniqueCliff(d)
    BY <1>4, <1>5, LossIsAlive
  <2> HIDE DEF d
  <2>2. AliveLock(d, LockKnee(d))
    BY <1>3, <2>1, LockTaken
  <2>3. AliveLock(c, LockKnee(d))
    BY <1>2, <2>1, <2>2 DEF AliveLock, Quiet
  <2>4. AliveLock(c, d) /\ AliveLock(c, c)
    BY <1>2, <2>1 DEF AliveLock, Quiet
  <2>5. LockIfHeld(d) \in {d, LockKnee(d)}
    BY DEF LockIfHeld
  <2>6. QED
    BY <1>1, <2>3, <2>4, <2>5
<1>6. CASE ~KneeHit(c)
  <2>1. n = 0
    BY <1>6
  <2>2. d.kneeN = n
    BY DEF Sound, Typed, Fields
  <2> HIDE DEF d, n
  <2>3. ~(d.kneeN >= LossHold)
    BY <2>1, <2>2, HoldsAssumption
  <2>4. LockIfHeld(d) = d
    BY <2>3 DEF LockIfHeld
  <2>5. AliveLock(c, d) /\ AliveLock(c, c)
    BY <1>2, QuietNoLock DEF AliveLock
  <2>6. QED
    BY <1>1, <2>4, <2>5
<1>7. QED
  BY <1>5, <1>6

\* In Noted only the knee that grown loss finds is a lock.
LEMMA NotedAlive ==
    ASSUME NEW c, Sound(c), NEW m, Measured(m)
    PROVE  LET d == Noted(c, m)
           IN  /\ ~c.sawKnee /\ d.sawKnee => ~UniqueCliff(d)
               /\ d.kind = "dropper" => ~UniqueCliff(d)
<1>1. PICK told : told = Told(c, m)
  OBVIOUS
<1>2. Quiet(c, told) /\ Sound(told)
  BY <1>1, QuietSteps, QuietNotes DEF Sound, Noting
<1>3. PICK obs : obs = Observed(told, m)
  OBVIOUS
<1>4. Sound(obs) /\ obs.sawKnee = told.sawKnee
  <2>1. Sound(obs)
    BY <1>2, <1>3, ObservedSound DEF Noting
  <2> DEFINE seen == [told EXCEPT !.sendRate = m.send, !.sent = TRUE, !.fewSource = m.few,
                                  !.unique = Min({@ + m.got, 8 * TwoBlocks})]
             live == [seen EXCEPT !.delivery = m.got, !.decoded = m.decoded,
                                  !.recvLag = 10 * m.decoded < 7 * m.got]
             knee == NoteKnee(live)
             kept == [knee EXCEPT !.bw = Kept(knee.bw, m.got),
                                  !.sends = Kept(knee.sends, <<SendOr(knee), m.got>>)]
  <2>2. obs \in {[told EXCEPT !.started = TRUE, !.sent = m.send > 0], told,
                 [seen EXCEPT !.recvLag = TRUE], live, kept}
    BY <1>3 DEF Observed
  <2>3. Fields \subseteq DOMAIN told
    BY <1>2 DEF Sound, Typed
  <2>4. Fields \subseteq DOMAIN live /\ live.sawKnee = told.sawKnee
    BY <2>3 DEF Fields
  <2>5. [told EXCEPT !.started = TRUE, !.sent = m.send > 0].sawKnee = told.sawKnee
    BY <2>3 DEF Fields
  <2>6. [seen EXCEPT !.recvLag = TRUE].sawKnee = told.sawKnee
    BY <2>3 DEF Fields
  <2> HIDE DEF seen, live
  <2>7. Fields \subseteq DOMAIN knee /\ knee.sawKnee = told.sawKnee
    BY <2>4 DEF NoteKnee, Fields
  <2> HIDE DEF knee
  <2>8. kept.sawKnee = told.sawKnee
    BY <2>7 DEF Fields
  <2> HIDE DEF kept
  <2>9. QED
    BY <2>1, <2>2, <2>4, <2>5, <2>6, <2>8
<1>5. PICK fat : fat = FatSeen(PathNoted(obs))
  OBVIOUS
<1>6. Sound(fat) /\ fat.sawKnee = obs.sawKnee
  <2>1. Quiet(obs, PathNoted(obs)) /\ Sound(PathNoted(obs))
    BY <1>4, QuietSteps, QuietNotes DEF Sound, Noting
  <2>2. Quiet(PathNoted(obs), fat) /\ Sound(fat)
    BY <1>5, <2>1, QuietSteps, QuietNotes DEF Sound, Noting
  <2>3. QED
    BY <2>1, <2>2 DEF Quiet
<1>7. PICK knee : knee = NoteLossKnee(fat)
  OBVIOUS
<1>8. Sound(knee) /\ AliveLock(fat, knee)
  BY <1>6, <1>7, NoteLossKneeSound, NoteLossKneeAlive DEF Noting
<1>9. PICK delay : delay = NoteDelay(NoteBw(CliffCounted(knee)))
  OBVIOUS
<1>10. Sound(delay) /\ AliveLock(fat, delay)
  <2>1. \A b, d : Sound(b) /\ Quiet(b, d) /\ AliveLock(fat, b) => Sound(d) /\ AliveLock(fat, d)
    BY QuietNotes, QuietNoLock, NoLockChain DEF Noting
  <2>2. Sound(CliffCounted(knee)) /\ AliveLock(fat, CliffCounted(knee))
    BY <1>8, <2>1, QuietSteps DEF Sound
  <2>3. Sound(NoteBw(CliffCounted(knee))) /\ AliveLock(fat, NoteBw(CliffCounted(knee)))
    BY <2>1, <2>2, QuietSteps DEF Sound
  <2>4. QED
    BY <1>9, <2>1, <2>3, QuietSteps DEF Sound
<1>11. PICK d : d = Classified(delay)
  OBVIOUS
<1>12. Noted(c, m) = d
  BY <1>1, <1>3, <1>5, <1>7, <1>9, <1>11 DEF Noted
<1>13. Quiet(delay, d) /\ d.kind = PathClass(delay)
  <2>1. Quiet(delay, d)
    BY <1>10, <1>11, QuietSteps DEF Sound
  <2>2. d.kind = PathClass(delay)
    <3> DEFINE e == [delay EXCEPT !.kind = PathClass(delay)]
    <3>1. Fields \subseteq DOMAIN e /\ e.kind = PathClass(delay)
      BY <1>10 DEF Sound, Typed, Fields
    <3> HIDE DEF e
    <3>2. OversendCounted(e).kind = e.kind
      BY <3>1 DEF OversendCounted, Fields
    <3>3. QED
      BY <1>11, <3>1, <3>2 DEF Classified, e
  <2>3. QED
    BY <2>1, <2>2
<1>14. d.kind = "dropper" => ~UniqueCliff(d)
  <2>1. PathClass(delay) = "dropper" => ~UniqueCliff(delay)
    BY LossIsAlive DEF PathClass
  <2>2. QED
    BY <1>13, <2>1, CliffSamples DEF Quiet
<1>15. ~c.sawKnee /\ d.sawKnee => ~UniqueCliff(d)
  <2> SUFFICES ASSUME ~c.sawKnee, d.sawKnee PROVE ~UniqueCliff(d)
    OBVIOUS
  <2>1. delay.sawKnee /\ ~fat.sawKnee
    BY <1>2, <1>4, <1>6, <1>13 DEF Quiet
  <2>2. ~UniqueCliff(fat) /\ delay.bw = fat.bw /\ delay.delivery = fat.delivery
    BY <1>10, <2>1 DEF AliveLock
  <2>3. d.bw = fat.bw /\ d.delivery = fat.delivery
    BY <1>13, <2>2 DEF Quiet
  <2>4. QED
    BY <2>2, <2>3, CliffSamples
<1>16. QED
  BY <1>12, <1>14, <1>15

\* A phase takes a lock at no cliff.
LEMMA TickStartupAlive ==
    ASSUME NEW c, Sound(c), c.phase = "startup", NEW f,
           c.kind = "dropper" => ~UniqueCliff(c)
    PROVE  AliveLock(c, TickStartup(c, f))
<1> DEFINE ramp == [c EXCEPT !.rate = Ramp(c), !.sinceStep = 0]
<1>1. \/ TickStartup(c, f) \in
           {BeginDrain(c), EnterCruise(RecoverWrecked(c), FALSE), CutPolicer(c),
            EnterCruise(c, TRUE), ramp, c}
      \/ TickStartup(c, f) = LockKnee(c) /\ c.kind = "dropper"
      \/ TickStartup(c, f) = SettleStartup(c)
  BY DEF TickStartup
<1>2. Fields \subseteq DOMAIN c
  BY DEF Sound, Typed
<1>3. \A d, b : Fields \subseteq DOMAIN d => NoLock(d, EnterCruise(d, b))
  BY DEF NoLock, EnterCruise, Fields
<1>4. \A d : NoLock(c, d) => AliveLock(c, d)
  BY DEF NoLock, AliveLock
<1>5. NoLock(c, ramp) /\ NoLock(c, c)
  BY <1>2 DEF NoLock, Fields
<1>6. NoLock(c, EnterCruise(RecoverWrecked(c), FALSE))
  <2>1. Fields \subseteq DOMAIN RecoverWrecked(c)
    BY RecoverWreckedSound DEF Sound, Typed
  <2>2. NoLock(RecoverWrecked(c), EnterCruise(RecoverWrecked(c), FALSE))
    BY <1>3, <2>1
  <2>3. QED
    BY <2>2, NoLockTaken DEF NoLock
<1>7. AliveLock(c, SettleStartup(c))
  <2>1. CASE PathLossGrew(c) \/ DropperKneeSample(c)
    <3>1. SettleStartup(c) = LockKnee(c)
      BY <2>1 DEF SettleStartup
    <3>2. QED
      BY <2>1, <3>1, LossIsAlive, LockTaken
  <2>2. CASE ~(PathLossGrew(c) \/ DropperKneeSample(c))
    <3> DEFINE aimed == Max({MinBps, IF c.wasFat THEN MaxBw(c) ELSE Times(MaxBw(c), 110)})
               d == [c EXCEPT !.rate = Min({@, aimed})]
               e == [d EXCEPT !.good = Max({@, Sanitized(d, Max({c.knee, MaxBw(c)}))})]
    <3>1. SettleStartup(c) \in {EnterCruise(d, FALSE), EnterCruise(e, FALSE)}
      BY <2>2 DEF SettleStartup
    <3>2. Fields \subseteq DOMAIN d /\ NoLock(c, d)
      BY <1>2 DEF NoLock, Fields
    <3> HIDE DEF d
    <3>3. Fields \subseteq DOMAIN e /\ NoLock(c, e)
      BY <3>2 DEF NoLock, Fields
    <3> HIDE DEF e
    <3>4. NoLock(c, EnterCruise(d, FALSE)) /\ NoLock(c, EnterCruise(e, FALSE))
      BY <1>3, <3>2, <3>3 DEF NoLock
    <3>5. QED
      BY <1>4, <3>1, <3>4
  <2>3. QED
    BY <2>1, <2>2
<1> HIDE DEF ramp
<1>8. QED
  BY <1>1, <1>4, <1>5, <1>6, <1>7, NoLockTaken, LockTaken

LEMMA TickDrainAlive ==
    ASSUME NEW c, Sound(c), NEW f
    PROVE  AliveLock(c, TickDrain(c, f))
<1> DEFINE cut == [c EXCEPT !.sinceStep = 0, !.drainCuts = @ + 1, !.rate = Clip(c, DrainTarget(c))]
<1>1. TickDrain(c, f) \in
        {EnterCruise(CutToDelivery(c), TRUE), EnterCruise(RecoverWrecked(c), FALSE),
         CutPolicer(c), EnterCruise(c, TRUE), cut, c}
  BY DEF TickDrain
<1>2. Fields \subseteq DOMAIN c
  BY DEF Sound, Typed
<1>3. \A d, b : Fields \subseteq DOMAIN d /\ NoLock(c, d) => NoLock(c, EnterCruise(d, b))
  BY DEF NoLock, EnterCruise, Fields
<1>4. NoLock(c, cut) /\ NoLock(c, c)
  BY <1>2 DEF NoLock, Fields
<1>5. Fields \subseteq DOMAIN RecoverWrecked(c) /\ Fields \subseteq DOMAIN CutToDelivery(c)
  BY RecoverWreckedSound, CutToDeliverySound DEF Sound, Typed
<1> HIDE DEF cut
<1>6. NoLock(c, TickDrain(c, f))
  BY <1>1, <1>2, <1>3, <1>4, <1>5, NoLockTaken
<1>7. QED
  BY <1>6 DEF NoLock, AliveLock

LEMMA TickCruiseAlive ==
    ASSUME NEW c, Sound(c), NEW f, c.kind = "dropper" => ~UniqueCliff(c)
    PROVE  AliveLock(c, TickCruise(c, f))
<1> DEFINE free == [c EXCEPT !.confirmed = FALSE, !.sawKnee = FALSE,
                             !.knee = IF IsFillKnee(c) THEN 0 ELSE @]
           high == Min({Hard, Max({Times(c.rate, 125), Times(Fill, 288)})})
           low == Min({Hard, Max({Times(c.rate, 125), Fill})})
<1>1. \/ TickCruise(c, f) \in
           {BeginDrain(c), FillStep(c, free, high), HoldLocked(c), FillStep(c, c, low),
            CutToDelivery(c), RecoverWrecked(c), CutPolicer(c), StartProbe(c, f), c}
      \/ /\ TickCruise(c, f) = LockKnee(c)
         /\ c.kind = "dropper" \/ PathLossGrew(c) \/ LossGrew(c)
  BY DEF TickCruise
<1>2. Fields \subseteq DOMAIN c /\ NoLock(c, c)
  BY DEF Sound, Typed, NoLock
<1>3. Fields \subseteq DOMAIN free /\ NoLock(c, free)
  BY <1>2 DEF NoLock, Fields
<1> HIDE DEF free, high, low
<1>4. ASSUME NEW d, Fields \subseteq DOMAIN d, NoLock(c, d), NEW ceiling
      PROVE  NoLock(c, FillStep(c, d, ceiling))
  <2> DEFINE rate == Min({ceiling, Clip(d, Times(c.rate, 125))})
             e == [d EXCEPT !.sinceStep = 0, !.rate = rate]
  <2>1. FillStep(c, d, ceiling) \in {c, e}
    BY DEF FillStep
  <2> HIDE DEF rate
  <2>2. NoLock(c, e)
    BY <1>4 DEF NoLock, Fields
  <2> HIDE DEF e
  <2>3. QED
    BY <1>2, <2>1, <2>2
<1>5. NoLock(c, StartProbe(c, f))
  <2> DEFINE d == [c EXCEPT !.phase = "probe", !.probeBase = c.rate,
                            !.probeDecoded = c.decoded, !.probeUnique = c.delivery,
                            !.probeLeft = ProbeTicks]
             At(rate) == [d EXCEPT !.rate = rate]
  <2>1. StartProbe(c, f) = c \/ \E rate : StartProbe(c, f) = At(rate)
    BY DEF StartProbe
  <2>2. Fields \subseteq DOMAIN d /\ NoLock(c, d)
    BY <1>2 DEF NoLock, Fields
  <2> HIDE DEF d
  <2>3. \A rate : NoLock(c, At(rate))
    BY <2>2 DEF NoLock, Fields
  <2>4. QED
    BY <1>2, <2>1, <2>3
<1>6. \A d : NoLock(c, d) => AliveLock(c, d)
  BY DEF NoLock, AliveLock
<1>7. QED
  BY <1>1, <1>2, <1>3, <1>4, <1>5, <1>6, NoLockTaken, LockTaken, LossIsAlive

LEMMA TickProbeAlive ==
    ASSUME NEW c, Sound(c), NEW f, c.kind = "dropper" => ~UniqueCliff(c)
    PROVE  AliveLock(c, TickProbe(c, f))
<1> DEFINE lagRate == Max({Fill, Min({c.probeBase, Max({c.good, Times(c.probeBase, 75)})})})
           Back(rate) == EnterCruise([c EXCEPT !.rate = rate], FALSE)
           Held(rate) == [Back(rate) EXCEPT !.holdoff = ProbeHoldoff]
           gained == [c EXCEPT !.good = c.rate]
<1>1. \/ TickProbe(c, f) \in
           {Held(lagRate), Held(c.probeBase), c, Back(c.probeBase),
            EnterCruise(c, FALSE), EnterCruise(gained, TRUE)}
      \/ /\ TickProbe(c, f) = AbortProbeDropper(c)
         /\ c.kind = "dropper" \/ PathLossGrew(c)
  BY DEF TickProbe
<1>2. Fields \subseteq DOMAIN c /\ NoLock(c, c)
  BY DEF Sound, Typed, NoLock
<1>3. \A d, b : Fields \subseteq DOMAIN d /\ NoLock(c, d) =>
          NoLock(c, EnterCruise(d, b)) /\ Fields \subseteq DOMAIN EnterCruise(d, b)
  BY DEF NoLock, EnterCruise, Fields
<1>4. Fields \subseteq DOMAIN gained /\ NoLock(c, gained)
  BY <1>2 DEF NoLock, Fields
<1>5. ASSUME NEW rate PROVE NoLock(c, Back(rate)) /\ NoLock(c, Held(rate))
  <2> DEFINE at == [c EXCEPT !.rate = rate]
  <2>1. Fields \subseteq DOMAIN at /\ NoLock(c, at)
    BY <1>2 DEF NoLock, Fields
  <2>2. NoLock(c, Back(rate)) /\ Fields \subseteq DOMAIN Back(rate)
    BY <1>3, <2>1
  <2> DEFINE b == Back(rate)
  <2> HIDE DEF b
  <2>3. NoLock(c, b) /\ Fields \subseteq DOMAIN b
    BY <2>2 DEF b
  <2>4. NoLock(c, [b EXCEPT !.holdoff = ProbeHoldoff])
    BY <2>3 DEF NoLock, Fields
  <2>5. QED
    BY <2>2, <2>4 DEF b
<1> HIDE DEF lagRate, Back, Held, gained
<1>6. NoLock(c, EnterCruise(c, FALSE)) /\ NoLock(c, EnterCruise(gained, TRUE))
  BY <1>2, <1>3, <1>4
<1>7. \A d : NoLock(c, d) => AliveLock(c, d)
  BY DEF NoLock, AliveLock
<1>8. QED
  BY <1>1, <1>2, <1>5, <1>6, <1>7, LockTaken, LossIsAlive

\* A lock taken by one feedback.
LEMMA FeedbackAlive ==
    ASSUME SearchInv, NEW m \in Measures(weather),
           \/ Startup(Heard(m), m) \/ Drain(Heard(m), m)
           \/ Cruise(Heard(m), m) \/ Probe(Heard(m), m)
    PROVE  ~cc.sawKnee /\ cc'.sawKnee => ~UniqueCliff(cc)'
<1>1. PICK h : h = Heard(m)
  OBVIOUS
<1>2. PICK next : /\ Answers(next)
                  /\ \/ h.phase = "startup" /\ next = TickStartup(h, m)
                     \/ h.phase = "drain" /\ next = TickDrain(h, m)
                     \/ h.phase = "cruise" /\ next = TickCruise(h, m)
                     \/ h.phase = "probe" /\ next = TickProbe(h, m)
  BY <1>1 DEF Startup, Drain, Cruise, Probe, InPhase
<1>3. Sound(h)
  BY <1>1, HeardSound DEF Noting
<1>4. /\ ~cc.sawKnee /\ h.sawKnee => ~UniqueCliff(h)
      /\ h.kind = "dropper" => ~UniqueCliff(h)
  <2>1. Sound(cc) /\ Typed(cc) /\ cc.rate \in Nat /\ weather \in WeatherKinds \cup {"fair"}
    BY WeatherAssumption DEF SearchInv, Sound, Typed
  <2>2. Measured(m)
    BY <2>1, MeasuresAreRates
  <2>3. PICK c : c = IF m.early THEN cc ELSE Aged(cc)
    OBVIOUS
  <2>4. Sound(c) /\ c.sawKnee = cc.sawKnee
    BY <2>1, <2>3, QuietSteps, QuietNotes DEF Noting, Quiet
  <2>5. h = Noted(c, m)
    BY <1>1, <2>3 DEF Heard
  <2>6. QED
    BY <2>2, <2>4, <2>5, NotedAlive
<1>5. AliveLock(h, next) /\ Sound(next)
  BY <1>2, <1>3, <1>4, TickStartupAlive, TickDrainAlive, TickCruiseAlive, TickProbeAlive,
     TickStartupSound, TickDrainSound, TickCruiseSound, TickProbeSound
<1>6. cc'.sawKnee = next.sawKnee /\ cc'.bw = next.bw /\ cc'.delivery = next.delivery
  <2>1. PICK d : d = FatNoted(next)
    OBVIOUS
  <2>2. Quiet(next, d)
    BY <1>5, <2>1, QuietSteps DEF FatNoted, Quiet, Sound, Typed
  <2>3. cc' = [d EXCEPT !.rate = Clip(next, d.rate)]
    BY <1>2, <2>1 DEF Answers
  <2>4. cc'.sawKnee = d.sawKnee /\ cc'.bw = d.bw /\ cc'.delivery = d.delivery
    BY <2>2, <2>3 DEF Quiet, Fields
  <2>5. QED
    BY <2>2, <2>4 DEF Quiet
<1>7. ASSUME ~cc.sawKnee, cc'.sawKnee PROVE ~UniqueCliff(cc)'
  <2>1. ~UniqueCliff(h) /\ next.bw = h.bw /\ next.delivery = h.delivery
    BY <1>4, <1>5, <1>6, <1>7 DEF AliveLock
  <2>2. cc'.bw = h.bw /\ cc'.delivery = h.delivery
    BY <1>6, <2>1
  <2>3. UniqueCliff(cc') <=> UniqueCliff(h)
    BY <2>2, CliffSamples
  <2>4. QED
    BY <2>1, <2>3 DEF UniqueCliff, MaxBw
<1>8. QED
  BY <1>7

\* A lock is never taken while delivery has fallen off a cliff ("hol: unique
\* cliff / send pause: hold, never lock the trickle", blastcc.py:11): a knee
\* that grown loss finds, a class that is a dropper and an aborted probe all
\* ask for the cliff before the lock, and no operation after it takes a sample.
THEOREM NoLockAtACliff ==
    Spec => [][~cc.sawKnee /\ cc'.sawKnee => ~UniqueCliff(cc')]_vars
<1>1. ASSUME SearchInv, [Next]_vars
      PROVE  [~cc.sawKnee /\ cc'.sawKnee => ~UniqueCliff(cc')]_vars
  <2> SUFFICES ASSUME ~cc.sawKnee, cc'.sawKnee PROVE ~UniqueCliff(cc')
    OBVIOUS
  <2>1. CASE StartupFeedback \/ DrainFeedback \/ CruiseFeedback \/ ProbeFeedback
    <3>1. PICK m \in Measures(weather) :
             \/ Startup(Heard(m), m) \/ Drain(Heard(m), m)
             \/ Cruise(Heard(m), m) \/ Probe(Heard(m), m)
      BY <2>1 DEF StartupFeedback, DrainFeedback, CruiseFeedback, ProbeFeedback
    <3>2. ~UniqueCliff(cc)'
      BY <1>1, <3>1, FeedbackAlive
    <3>3. QED
      BY <3>2 DEF UniqueCliff, MaxBw
  <2>2. CASE OnTimer
    <3>1. Fields \subseteq DOMAIN cc
      BY <1>1 DEF SearchInv, Sound, Typed
    <3>2. cc'.sawKnee = cc.sawKnee
      BY <2>2, <3>1 DEF OnTimer, FatNoted, FatSeen, Fields
    <3>3. QED
      BY <3>2
  <2>3. CASE WeatherTurns \/ UNCHANGED vars
    BY <2>3 DEF WeatherTurns, vars
  <2>4. QED
    BY <1>1, <2>1, <2>2, <2>3 DEF Next
<1>2. QED
  BY <1>1, SearchInvAlways, PTL DEF Spec

-----------------------------------------------------------------------------
(* What a lock is held at *)

\* A knee is locked only outside startup.
Away(c) == c.sawKnee => c.phase # "startup"

\* The knee lies above the shelf, or not below what the filter holds.
Backed(c) == c.sawKnee => \/ 100 * c.knee > 130 * Fill
                          \/ c.knee >= Times(MaxBw(c), 110)

\* From c to d both are kept, and so is the floor that a locked knee is.
Spares(c, d) ==
    /\ Away(c) => Away(d)
    /\ Backed(c) => Backed(d)
    /\ Away(c) /\ Floored(c) => Floored(d)

LEMMA SparesChain ==
    ASSUME NEW b, NEW c, NEW d, Spares(b, c), Spares(c, d)
    PROVE  Spares(b, d)
  BY DEF Spares

\* The filter is read of the samples alone.
LEMMA BwOfSamples ==
    ASSUME NEW c, NEW d, d.bw = c.bw
    PROVE  MaxBw(d) = MaxBw(c)
  BY DEF MaxBw

LEMMA QuietSpares ==
    ASSUME NEW c, NEW d, Quiet(c, d)
    PROVE  Spares(c, d)
  BY BwOfSamples DEF Quiet, Spares, Away, Backed, Floored, Locked, IsFillKnee, Anchor

\* The lesser of the limit and a knee.
LEMMA FloorNat ==
    ASSUME NEW k \in Nat
    PROVE  Min({Hard, k}) \in Nat /\ Min({Hard, k}) <= k /\ Min({Hard, k}) <= Hard
  BY Limits, Pairs

LEMMA TimesMonotone ==
    ASSUME NEW x \in Nat, NEW y \in Nat, x <= y
    PROVE  Times(x, 110) <= Times(y, 110)
<1>1. \A a, b \in Nat : a <= b => a \div 100 <= b \div 100
  OBVIOUS
<1>2. x * 110 \in Nat /\ y * 110 \in Nat /\ x * 110 <= y * 110
  OBVIOUS
<1>3. QED
  BY <1>1, <1>2 DEF Times

\* Sanitizing spares a knee that the filter proves.
LEMMA SanitizedBacked ==
    ASSUME NEW c, Typed(c), NEW knee \in Nat
    PROVE  Sanitized(c, knee) = knee \/ Sanitized(c, knee) >= Times(MaxBw(c), 110)
<1> DEFINE cap == DeliveryCap(c)
<1>1. cap \in Nat /\ cap >= MaxBw(c) /\ MaxBw(c) \in Nat
  BY DeliveryCapNat, MaxBwNat DEF Typed
<1>2. Sanitized(c, knee) \in {knee, Max({MinBps, Times(cap, 110)})}
  BY DEF Sanitized
<1> HIDE DEF cap
<1>3. Times(cap, 110) \in Nat /\ Times(MaxBw(c), 110) \in Nat /\ MinBps \in Nat
  BY <1>1, TimesNat, Limits
<1>4. Times(MaxBw(c), 110) <= Times(cap, 110)
  BY <1>1, TimesMonotone
<1>5. Max({MinBps, Times(cap, 110)}) >= Times(cap, 110) /\ Max({MinBps, Times(cap, 110)}) \in Nat
  BY <1>3, Pairs
<1>6. Max({MinBps, Times(cap, 110)}) >= Times(MaxBw(c), 110)
  BY <1>3, <1>4, <1>5
<1>7. QED
  BY <1>2, <1>6

\* Two ways to spare a lock: the knee stays and the rate does not fall below
\* it, or the rate becomes the knee.
LEMMA SameKneeSpares ==
    ASSUME NEW c, NEW d, d.bw = c.bw, d.knee = c.knee, d.sawKnee = c.sawKnee,
           d.phase \in {"cruise", "drain"} \/ d.phase = c.phase, c.phase # "probe",
           ~Locked(c) \/ d.rate = c.rate \/ (Floored(c) /\ Away(c) => d.rate >= Min({Hard, c.knee}))
    PROVE  Spares(c, d)
<1>1. Locked(d) <=> Locked(c)
  BY DEF Locked, IsFillKnee
<1>2. Away(c) => Away(d)
  BY DEF Away
<1>3. Backed(c) => Backed(d)
  BY BwOfSamples DEF Backed
<1>4. Away(c) /\ Floored(c) => Floored(d)
  BY <1>1 DEF Floored, Anchor
<1>5. QED
  BY <1>2, <1>3, <1>4 DEF Spares

LEMMA AtKneeSpares ==
    ASSUME NEW c, NEW d, d.rate \in Nat, d.knee \in Nat, d.rate >= d.knee,
           Backed(c) => Backed(d), d.phase \in {"cruise", "drain"} \/ (d.phase = c.phase /\ c.phase # "probe"),
           d.sawKnee => c.sawKnee \/ d.phase # "startup"
    PROVE  Spares(c, d)
<1>1. Away(c) => Away(d)
  BY DEF Away
<1>2. Floored(d)
  BY FloorNat, Limits DEF Floored, Anchor
<1>3. QED
  BY <1>1, <1>2 DEF Spares

-----------------------------------------------------------------------------
(* Ceilings leave room for a locked knee *)

\* Outside startup a ceiling is not below the rate, or is the confirmed knee.
LEMMA CeilingSpares ==
    ASSUME NEW c, Typed(c), Locked(c), c.phase \in {"cruise", "drain"},
           c.rate >= Min({Hard, c.knee})
    PROVE  RateCeiling(c) >= Min({Hard, c.knee})
<1> DEFINE bw == MaxBw(c)
           low == Min({Hard, c.knee})
           steps == Max({Times(c.rate, 125), Fill})
           top == Max({c.rate, Times(bw, 115)})
<1>1. /\ c.rate \in Nat /\ c.knee \in Nat /\ bw \in Nat /\ Hard \in Nat /\ Fill \in Nat
      /\ MinBps \in Nat /\ Times(c.rate, 125) \in Nat
  BY MaxBwNat, TimesNat, Limits DEF Typed
<1>2. Times(bw, 115) \in Nat
  BY <1>1, TimesNat
<1>3. low \in Nat /\ low <= Hard /\ low <= c.knee /\ low <= c.rate
  BY <1>1, FloorNat
<1>4. \A x \in Nat : x >= low => Min({Hard, x}) >= low
  BY <1>1, <1>3, Pairs
<1>5. \A x, y \in Nat : y >= low => Max({x, y}) \in Nat /\ Max({x, y}) >= low
  BY <1>1, <1>3, Pairs
<1>6. c.rate <= Times(c.rate, 125)
  <2>1. \A r \in Nat : r <= (r * 125) \div 100
    OBVIOUS
  <2>2. QED
    BY <1>1, <2>1 DEF Times
<1> HIDE DEF low, bw
<1>7. steps \in Nat /\ steps >= low
  <2>1. steps \in Nat /\ steps >= Times(c.rate, 125)
    BY <1>1, Pairs
  <2>2. QED
    BY <1>1, <1>3, <1>6, <2>1
<1>8. top \in Nat /\ top >= low
  <2>1. top \in Nat /\ top >= c.rate
    BY <1>1, <1>2, Pairs
  <2>2. QED
    BY <1>1, <1>3, <2>1
<1> HIDE DEF steps, top
<1>9. RateCeiling(c) \in {Min({Hard, Max({MinBps, c.knee})}), Min({Hard, steps}), Hard,
                          Min({Hard, Max({MinBps, top})})}
  BY DEF RateCeiling, bw, steps, top
<1>10. /\ Max({MinBps, c.knee}) \in Nat /\ Max({MinBps, c.knee}) >= low
       /\ Max({MinBps, top}) \in Nat /\ Max({MinBps, top}) >= low
  BY <1>1, <1>3, <1>5, <1>8
<1>11. RateCeiling(c) >= low
  BY <1>3, <1>4, <1>7, <1>9, <1>10
<1>12. QED
  BY <1>11 DEF low

\* Whatever rate is asked for, the clip does not go below a locked knee.
LEMMA ClipSpares ==
    ASSUME NEW c, Typed(c), Locked(c), c.phase \in {"cruise", "drain"},
           c.rate >= Min({Hard, c.knee}), NEW r \in Nat
    PROVE  Clip(c, r) >= Min({Hard, c.knee})
<1> DEFINE low == Min({Hard, c.knee})
           good == Max({MinBps, Times(c.good, 90)})
           bottom == Max({good, c.knee})
           asked == Max({bottom, r})
<1>1. c.knee \in Nat /\ MinBps \in Nat /\ Times(c.good, 90) \in Nat
  BY TimesNat, Limits DEF Typed
<1>2. good \in Nat
  BY <1>1, Pairs
<1>3. Floor(c) = bottom
  BY DEF Floor
<1> HIDE DEF good
<1>4. bottom \in Nat /\ bottom >= c.knee
  BY <1>1, <1>2, Pairs
<1> HIDE DEF bottom
<1>5. asked \in Nat /\ asked >= c.knee
  BY <1>1, <1>4, Pairs
<1>6. Clip(c, r) = Min({RateCeiling(c), asked})
  BY <1>3 DEF Clip
<1>7. low \in Nat /\ low <= c.knee
  BY <1>1, FloorNat
<1> HIDE DEF asked
<1>8. RateCeiling(c) \in Nat /\ RateCeiling(c) >= low
  BY Ceilings, CeilingSpares
<1> HIDE DEF low
<1>9. Clip(c, r) >= low
  <2>1. Clip(c, r) = IF RateCeiling(c) <= asked THEN RateCeiling(c) ELSE asked
    BY <1>5, <1>6, <1>8, Pairs
  <2>2. asked >= low
    BY <1>1, <1>5, <1>7
  <2>3. QED
    BY <1>8, <2>1, <2>2
<1>10. QED
  BY <1>9 DEF low

-----------------------------------------------------------------------------
(* The operations spare a lock *)

LEMMA EnterCruiseSpares ==
    ASSUME NEW c, Sound(c), c.phase # "probe", NEW b \in BOOLEAN
    PROVE  Spares(c, EnterCruise(c, b))
<1> DEFINE d == EnterCruise(c, b)
<1>1. /\ d.bw = c.bw /\ d.knee = c.knee /\ d.sawKnee = c.sawKnee
      /\ d.phase = "cruise" /\ d.rate = c.rate
  BY DEF EnterCruise, Fields, Sound, Typed
<1> HIDE DEF d
<1>2. Spares(c, d)
  BY <1>1, SameKneeSpares
<1>3. QED
  BY <1>2 DEF d

LEMMA HoldLockedSpares ==
    ASSUME NEW c, Sound(c), c.phase # "probe"
    PROVE  Spares(c, HoldLocked(c)) /\ Spares(c, [HoldLocked(c) EXCEPT !.sinceStep = 0])
<1> DEFINE d == HoldLocked(c)
           e == [d EXCEPT !.sinceStep = 0]
<1>1. /\ d.bw = c.bw /\ d.knee = c.knee /\ d.sawKnee = c.sawKnee
      /\ d.phase = c.phase /\ d.rate = c.knee /\ Fields \subseteq DOMAIN d
  BY DEF HoldLocked, Fields, Sound, Typed
<1> HIDE DEF d
<1>2. /\ e.bw = c.bw /\ e.knee = c.knee /\ e.sawKnee = c.sawKnee
      /\ e.phase = c.phase /\ e.rate = c.knee
  BY <1>1 DEF Fields
<1> HIDE DEF e
<1>3. c.knee >= Min({Hard, c.knee})
  BY FloorNat, Limits DEF Sound, Typed
<1>4. Spares(c, d) /\ Spares(c, e)
  BY <1>1, <1>2, <1>3, SameKneeSpares
<1>5. QED
  BY <1>4 DEF d, e

LEMMA CutToDeliverySpares ==
    ASSUME NEW c, Sound(c), c.phase # "probe"
    PROVE  Spares(c, CutToDelivery(c)) /\ CutToDelivery(c).phase = c.phase
<1> DEFINE rate == Min({c.rate, AimDelivery(c)})
           d == [c EXCEPT !.rate = rate, !.sinceStep = 0,
                          !.good = IF c.knee > 0 THEN Max({@, c.knee}) ELSE Min({@, rate})]
<1>1. CutToDelivery(c) = IF Locked(c) THEN [HoldLocked(c) EXCEPT !.sinceStep = 0] ELSE d
  BY DEF CutToDelivery
<1> HIDE DEF rate
<1>2. /\ d.bw = c.bw /\ d.knee = c.knee /\ d.sawKnee = c.sawKnee /\ d.phase = c.phase
  BY DEF Fields, Sound, Typed
<1> HIDE DEF d
<1>3. ~Locked(c) => Spares(c, d)
  BY <1>2, SameKneeSpares
<1>4. [HoldLocked(c) EXCEPT !.sinceStep = 0].phase = c.phase
  BY DEF HoldLocked, Fields, Sound, Typed
<1>5. QED
  BY <1>1, <1>2, <1>3, <1>4, HoldLockedSpares

LEMMA CutPolicerSpares ==
    ASSUME NEW c, Sound(c), c.phase # "probe"
    PROVE  Spares(c, CutPolicer(c)) /\ Spares(c, EnterCruise(CutToDelivery(c), TRUE))
<1>1. Sound(CutToDelivery(c)) /\ Spares(c, CutToDelivery(c)) /\ CutToDelivery(c).phase # "probe"
  BY CutToDeliverySound, CutToDeliverySpares
<1>2. Spares(CutToDelivery(c), EnterCruise(CutToDelivery(c), TRUE))
  BY <1>1, EnterCruiseSpares, BoolFacts
<1>3. Spares(c, EnterCruise(CutToDelivery(c), TRUE))
  BY <1>1, <1>2, SparesChain
<1>4. QED
  BY <1>1, <1>3 DEF CutPolicer

\* A drain is clipped in its own phase, at the rate it starts from.
LEMMA BeginDrainSpares ==
    ASSUME NEW c, Sound(c), c.phase # "probe"
    PROVE  Spares(c, BeginDrain(c))
<1> DEFINE d == [c EXCEPT !.phase = "drain", !.drainAge = 0, !.drainCuts = 1, !.sinceStep = 0]
           aimed == AimDelivery(d)
           soft == Times(d.rate, 93)
           eased == IF aimed < d.rate THEN Max({soft, aimed}) ELSE soft
           want == IF c.phase = "cruise" THEN eased ELSE DrainTarget(d)
           rate == Clip(d, want)
           e == [d EXCEPT !.rate = rate, !.highN = IF c.phase = "cruise" THEN 0 ELSE @]
<1>1. BeginDrain(c) = e
  BY DEF BeginDrain
<1>2. /\ Fields \subseteq DOMAIN d /\ d.phase = "drain" /\ d.rate = c.rate /\ d.good = c.good
      /\ d.knee = c.knee /\ d.sawKnee = c.sawKnee /\ d.confirmed = c.confirmed
      /\ d.delivery = c.delivery /\ d.sendRate = c.sendRate /\ d.probeBase = c.probeBase
      /\ d.bw = c.bw /\ d.sends = c.sends
  BY DEF Fields, Sound, Typed
<1> HIDE DEF d
<1>3. Sound(d) /\ Typed(d)
  BY <1>2 DEF Sound, Typed, Sure
<1>4. /\ d.rate \in Nat /\ aimed \in Nat /\ soft \in Nat
  BY <1>3, AimNat, TimesNat DEF Typed
<1>5. eased \in Nat
  BY <1>4, Pairs
<1>6. DrainTarget(d) \in Nat
  BY <1>3, <1>4, TimesNat, Pairs DEF DrainTarget
<1>7. want \in Nat
  BY <1>5, <1>6
<1> HIDE DEF aimed, soft, eased, want
<1>8. /\ e.phase = "drain" /\ e.rate = rate
      /\ e.knee = c.knee /\ e.sawKnee = c.sawKnee /\ e.bw = c.bw
  BY <1>2 DEF Fields
<1>9. Locked(c) /\ Floored(c) => rate >= Min({Hard, c.knee})
  <2> SUFFICES ASSUME Locked(c), Floored(c) PROVE rate >= Min({Hard, c.knee})
    OBVIOUS
  <2>1. Locked(d) /\ d.rate >= Min({Hard, d.knee})
    BY <1>2 DEF Locked, IsFillKnee, Floored, Anchor
  <2>2. QED
    BY <1>2, <1>3, <1>7, <2>1, ClipSpares
<1> HIDE DEF rate
<1> HIDE DEF e
<1>10. Spares(c, e)
  BY <1>8, <1>9, SameKneeSpares
<1>11. QED
  BY <1>1, <1>10

\* A lock is taken at its knee, and a knee on the shelf only raises the rate.
LEMMA LockKneeSpares ==
    ASSUME NEW c, Sound(c)
    PROVE  /\ Backed(c) => Backed(LockKnee(c))
           /\ Away(c) => Away(LockKnee(c))
           /\ c.phase # "probe" => Spares(c, LockKnee(c))
           /\ ~c.sawKnee => /\ Backed(LockKnee(c)) /\ Floored(LockKnee(c))
                            /\ LockKnee(c).phase \in {c.phase, "cruise"}
                            /\ LockKnee(c).sawKnee => LockKnee(c).phase = "cruise"
<1> DEFINE knee == LockRate(c)
           rate == Max({c.rate, knee})
           up == [c EXCEPT !.rate = Max({@, knee}), !.sinceStep = 0,
                           !.good = IF c.rate < knee THEN Max({@, knee}) ELSE @]
           sane == Sanitized(c, knee)
           lock == LockedAt(c, sane)
<1>1. /\ knee \in Nat /\ sane \in Nat /\ c.rate \in Nat /\ c.knee \in Nat
      /\ Fill \in Nat /\ Hard \in Nat /\ Times(MaxBw(c), 110) \in Nat
  BY LockRateNat, SanitizedNat, MaxBwNat, TimesNat, Limits DEF Sound, Typed
<1>2. \/ LockKnee(c) \in {c, up}
      \/ LockKnee(c) = lock /\ ~(100 * knee <= 130 * Fill)
  BY DEF LockKnee, LockFound
<1>3. sane = knee \/ sane >= Times(MaxBw(c), 110)
  BY <1>1, SanitizedBacked DEF Sound
<1> HIDE DEF knee
<1>4. rate \in Nat /\ rate >= c.rate
  BY <1>1, Pairs
<1>5. /\ up.bw = c.bw /\ up.knee = c.knee /\ up.sawKnee = c.sawKnee
      /\ up.phase = c.phase /\ up.rate = rate
  BY DEF Fields, Sound, Typed
<1> HIDE DEF sane, up, rate
<1>6. /\ lock.bw = c.bw /\ lock.knee = sane /\ lock.sawKnee
      /\ lock.phase = "cruise" /\ lock.rate = sane
  BY DEF LockedAt, EnterCruise, Fields, Sound, Typed
<1> HIDE DEF lock
<1>7. /\ Backed(c) => Backed(up)
      /\ Away(c) => Away(up)
      /\ c.phase # "probe" => Spares(c, up)
  <2>1. Backed(c) => Backed(up)
    BY <1>5, BwOfSamples DEF Backed
  <2>2. Away(c) => Away(up)
    BY <1>5 DEF Away
  <2>3. Min({Hard, c.knee}) \in Nat
    BY <1>1, FloorNat
  <2>4. Floored(c) /\ c.phase # "probe" => Floored(up)
    BY <1>1, <1>4, <1>5, <2>3 DEF Floored, Anchor, Locked, IsFillKnee
  <2>5. QED
    BY <2>1, <2>2, <2>4 DEF Spares
<1>8. /\ Backed(c) => Backed(c)
      /\ Away(c) => Away(c)
      /\ Spares(c, c)
  BY DEF Spares
<1>9. ASSUME ~(100 * knee <= 130 * Fill)
      PROVE  Backed(lock) /\ Away(lock) /\ Floored(lock) /\ Spares(c, lock)
  <2>1. 100 * knee > 130 * Fill
    BY <1>1, <1>9
  <2>2. Backed(lock)
    BY <1>3, <1>6, <2>1, BwOfSamples DEF Backed
  <2>3. Away(lock)
    BY <1>6 DEF Away
  <2>4. sane >= Min({Hard, sane})
    BY <1>1, FloorNat
  <2>5. Floored(lock)
    BY <1>6, <2>4 DEF Floored, Anchor
  <2>6. QED
    BY <2>2, <2>3, <2>5 DEF Spares
<1>10. ~c.sawKnee => /\ Backed(c) /\ Backed(up) /\ Floored(c) /\ Floored(up)
                     /\ ~up.sawKnee /\ up.phase = c.phase
  BY <1>5 DEF Backed, Floored, Locked
<1>11. QED
  BY <1>2, <1>6, <1>7, <1>8, <1>9, <1>10

\* A wreck: a knee that was not locked may become one, at the rate it brings.
LEMMA RecoverWreckedSpares ==
    ASSUME NEW c, Sound(c), c.phase # "probe"
    PROVE  Spares(c, RecoverWrecked(c)) /\ RecoverWrecked(c).phase = c.phase
<1> DEFINE held == Max({c.good, MaxBw(c), c.knee})
           live == IF c.delivery > 0 THEN Max({MinBps, Times(c.delivery, 110)}) ELSE Fill
           sane == Sanitized(c, c.knee)
           want == Max({IF c.knee > 0 THEN c.knee ELSE Times(held, 75), Fill})
           fatRate == Sanitized(c, want)
           high == Max({live, Times(c.good, 75)})
           low == Max({Fill, live})
           fat == Max({Fill, fatRate})
           most == Max({Fill, Times(held, 75)})
           cap == IF c.knee > 0 THEN Min({c.knee, Max({fatRate, Fill})}) ELSE c.knee
           Held(rate) == [c EXCEPT !.rate = rate, !.good = Max({@, rate}), !.sinceStep = 0]
           atKnee == [Held(sane) EXCEPT !.knee = sane]
           atFat == [Held(fat) EXCEPT
                        !.knee = IF @ > 0 THEN Min({@, Max({fatRate, Fill})}) ELSE @,
                        !.holdoff = CutHoldoff]
           atMost == [Held(most) EXCEPT !.holdoff = CutHoldoff]
           Anew(aimed) == [ForgetStaleBw(c) EXCEPT !.rate = Min({@, aimed}),
                                                   !.good = Min({@, c.rate, aimed}),
                                                   !.sinceStep = 0, !.holdoff = CutHoldoff]
<1>1. CASE Locked(c)
  <2>1. RecoverWrecked(c) = [HoldLocked(c) EXCEPT !.sinceStep = 0]
    BY <1>1 DEF RecoverWrecked
  <2>2. [HoldLocked(c) EXCEPT !.sinceStep = 0].phase = c.phase
    BY DEF HoldLocked, Fields, Sound, Typed
  <2>3. QED
    BY <2>1, <2>2, HoldLockedSpares
<1>2. CASE ~Locked(c)
  <2>1. \/ RecoverWrecked(c) \in {atKnee, atMost, Anew(high), Anew(low)}
        \/ RecoverWrecked(c) = atFat
    BY <1>2 DEF RecoverWrecked
  <2>2. /\ c.rate \in Nat /\ c.good \in Nat /\ c.knee \in Nat /\ c.delivery \in Nat
        /\ MaxBw(c) \in Nat /\ Fill \in Nat /\ MinBps \in Nat /\ Hard \in Nat
        /\ Times(MaxBw(c), 110) \in Nat
    BY MaxBwNat, TimesNat, Limits DEF Sound, Typed
  <2>3. held \in Nat
    BY <2>2, Triples
  <2> HIDE DEF held
  <2>4. Times(held, 75) \in Nat
    BY <2>3, TimesNat
  <2>5. want \in Nat /\ (c.knee > 0 => want >= c.knee)
    BY <2>2, <2>4, Pairs
  <2>6. sane \in Nat /\ (sane = c.knee \/ sane >= Times(MaxBw(c), 110))
    BY <2>2, SanitizedNat, SanitizedBacked DEF Sound
  <2>7. fatRate \in Nat /\ (fatRate = want \/ fatRate >= Times(MaxBw(c), 110))
    BY <2>5, SanitizedNat, SanitizedBacked DEF Sound
  <2> HIDE DEF sane, want, fatRate, live, high, low
  <2>8. fat \in Nat /\ fat >= fatRate /\ Max({fatRate, Fill}) = fat
    BY <2>2, <2>7, Pairs
  <2> HIDE DEF fat
  <2>9. /\ cap = IF c.knee > 0 THEN (IF c.knee <= fat THEN c.knee ELSE fat) ELSE c.knee
        /\ cap \in Nat /\ cap <= fat
    <3> HIDE DEF cap
    <3>0. c.knee \in Int /\ fat \in Int
      BY <2>2, <2>8
    <3>1. Min({c.knee, fat}) = IF c.knee <= fat THEN c.knee ELSE fat
      BY <3>0, Pairs
    <3>2. cap = IF c.knee > 0 THEN Min({c.knee, fat}) ELSE c.knee
      BY <2>8 DEF cap
    <3>3. QED
      BY <2>2, <2>8, <3>1, <3>2
  <2>10. cap = c.knee \/ cap >= Times(MaxBw(c), 110)
    <3>1. CASE c.knee > 0
      <4>1. cap = IF c.knee <= fat THEN c.knee ELSE fat
        BY <2>9, <3>1
      <4>2. c.knee <= fat \/ fat >= Times(MaxBw(c), 110)
        BY <2>2, <2>5, <2>7, <2>8, <3>1
      <4>3. QED
        BY <4>1, <4>2
    <3>2. QED
      BY <2>2, <3>1
  <2>11. ASSUME NEW rate
         PROVE  /\ Fields \subseteq DOMAIN Held(rate)
                /\ Held(rate).bw = c.bw /\ Held(rate).knee = c.knee
                /\ Held(rate).sawKnee = c.sawKnee /\ Held(rate).phase = c.phase
                /\ Held(rate).rate = rate
    BY DEF Fields, Sound, Typed
  <2>12. /\ atFat.bw = c.bw /\ atFat.knee = cap /\ atFat.sawKnee = c.sawKnee
         /\ atFat.phase = c.phase /\ atFat.rate = fat
    <3> DEFINE g == Held(fat)
    <3> HIDE DEF g, Held
    <3>1. /\ Fields \subseteq DOMAIN g /\ g.bw = c.bw /\ g.knee = c.knee
          /\ g.sawKnee = c.sawKnee /\ g.phase = c.phase /\ g.rate = fat
      BY <2>11 DEF g
    <3>2. atFat = [g EXCEPT !.knee = IF @ > 0 THEN Min({@, Max({fatRate, Fill})}) ELSE @,
                            !.holdoff = CutHoldoff]
      BY DEF g
    <3> HIDE DEF atFat
    <3>3. QED
      BY <3>1, <3>2 DEF Fields
  <2> HIDE DEF cap
  <2>13. Spares(c, atKnee) /\ atKnee.phase = c.phase
    <3>1. /\ atKnee.bw = c.bw /\ atKnee.knee = sane /\ atKnee.sawKnee = c.sawKnee
          /\ atKnee.phase = c.phase /\ atKnee.rate = sane
      <4> DEFINE g == Held(sane)
      <4> HIDE DEF g, Held
      <4>1. /\ Fields \subseteq DOMAIN g /\ g.bw = c.bw /\ g.knee = c.knee
            /\ g.sawKnee = c.sawKnee /\ g.phase = c.phase /\ g.rate = sane
        BY <2>11 DEF g
      <4>2. atKnee = [g EXCEPT !.knee = sane]
        BY DEF g
      <4> HIDE DEF atKnee
      <4>3. QED
        BY <4>1, <4>2 DEF Fields
    <3> HIDE DEF atKnee
    <3>2. Backed(c) => Backed(atKnee)
      BY <2>6, <3>1, BwOfSamples DEF Backed
    <3>3. QED
      BY <2>6, <3>1, <3>2, AtKneeSpares
  <2>14. Spares(c, atFat) /\ atFat.phase = c.phase
    <3> HIDE DEF atFat
    <3>1. Backed(c) => Backed(atFat)
      BY <2>10, <2>12, BwOfSamples DEF Backed
    <3>2. cap \in Nat /\ fat >= cap
      BY <2>8, <2>9
    <3>3. QED
      BY <2>8, <2>12, <3>1, <3>2, AtKneeSpares
  <2>15. Spares(c, atMost) /\ atMost.phase = c.phase
    <3>1. /\ atMost.bw = c.bw /\ atMost.knee = c.knee /\ atMost.sawKnee = c.sawKnee
          /\ atMost.phase = c.phase
      BY DEF Fields, Sound, Typed
    <3> HIDE DEF atMost
    <3>2. QED
      BY <1>2, <3>1, SameKneeSpares
  <2>16. ASSUME NEW aimed
         PROVE  Spares(c, Anew(aimed)) /\ Anew(aimed).phase = c.phase
    <3> DEFINE g == Anew(aimed)
    <3>1. ~g.sawKnee /\ g.phase = c.phase
      BY DEF ForgetStaleBw, Fields, Sound, Typed
    <3> HIDE DEF g
    <3>2. Spares(c, g)
      BY <3>1 DEF Spares, Away, Backed, Floored, Locked
    <3>3. QED
      BY <3>1, <3>2 DEF g
  <2> HIDE DEF atKnee, atFat, atMost, Anew
  <2>17. QED
    BY <2>1, <2>13, <2>14, <2>15, <2>16
<1>3. QED
  BY <1>1, <1>2

LEMMA SettleStartupSpares ==
    ASSUME NEW c, Sound(c), c.phase = "startup"
    PROVE  Spares(c, SettleStartup(c))
<1> DEFINE aimed == Max({MinBps, IF c.wasFat THEN MaxBw(c) ELSE Times(MaxBw(c), 110)})
           d == [c EXCEPT !.rate = Min({@, aimed})]
           e == [d EXCEPT !.good = Max({@, Sanitized(d, Max({c.knee, MaxBw(c)}))})]
<1>1. SettleStartup(c) \in {LockKnee(c), EnterCruise(d, FALSE), EnterCruise(e, FALSE)}
  BY DEF SettleStartup
<1>2. /\ Fields \subseteq DOMAIN d /\ d.bw = c.bw /\ d.knee = c.knee
      /\ d.sawKnee = c.sawKnee /\ d.phase = c.phase
  BY DEF Fields, Sound, Typed
<1> HIDE DEF d
<1>3. /\ Fields \subseteq DOMAIN e /\ e.bw = c.bw /\ e.knee = c.knee
      /\ e.sawKnee = c.sawKnee /\ e.phase = c.phase
  BY <1>2 DEF Fields
<1> HIDE DEF e
<1>4. ASSUME NEW g, Fields \subseteq DOMAIN g, g.bw = c.bw, g.knee = c.knee,
             g.sawKnee = c.sawKnee
      PROVE  Spares(c, EnterCruise(g, FALSE))
  <2> DEFINE h == EnterCruise(g, FALSE)
  <2>1. h.bw = c.bw /\ h.knee = c.knee /\ h.sawKnee = c.sawKnee
    BY <1>4 DEF EnterCruise, Fields
  <2> HIDE DEF h
  <2>2. Backed(c) => Backed(h)
    BY <2>1, BwOfSamples DEF Backed
  <2>3. Away(c) => ~h.sawKnee
    BY <2>1 DEF Away
  <2>4. QED
    BY <2>2, <2>3 DEF h, Spares, Away, Floored, Locked
<1>5. QED
  BY <1>1, <1>2, <1>3, <1>4, LockKneeSpares

LEMMA TickStartupSpares ==
    ASSUME NEW c, Sound(c), c.phase = "startup", NEW f
    PROVE  Spares(c, TickStartup(c, f))
<1> DEFINE ramp == [c EXCEPT !.rate = Ramp(c), !.sinceStep = 0]
<1>1. TickStartup(c, f) \in
        {BeginDrain(c), LockKnee(c), EnterCruise(RecoverWrecked(c), FALSE), CutPolicer(c),
         EnterCruise(c, TRUE), SettleStartup(c), ramp, c}
  BY DEF TickStartup
<1>2. Spares(c, ramp)
  <2>1. ramp.bw = c.bw /\ ramp.knee = c.knee /\ ramp.sawKnee = c.sawKnee /\ ramp.phase = c.phase
    BY DEF Fields, Sound, Typed
  <2> HIDE DEF ramp
  <2>2. Backed(c) => Backed(ramp)
    BY <2>1, BwOfSamples DEF Backed
  <2>3. Away(c) => ~ramp.sawKnee
    BY <2>1 DEF Away
  <2>4. QED
    BY <2>2, <2>3 DEF Spares, Away, Floored, Locked
<1> HIDE DEF ramp
<1>3. Spares(c, EnterCruise(RecoverWrecked(c), FALSE))
  <2>1. /\ Sound(RecoverWrecked(c)) /\ Spares(c, RecoverWrecked(c))
        /\ RecoverWrecked(c).phase # "probe"
    BY RecoverWreckedSound, RecoverWreckedSpares
  <2>2. QED
    BY <2>1, EnterCruiseSpares, BoolFacts, SparesChain
<1>4. Spares(c, c)
  BY DEF Spares
<1>5. c.phase # "probe"
  OBVIOUS
<1>6. QED
  BY <1>1, <1>2, <1>3, <1>4, <1>5, BeginDrainSpares, LockKneeSpares, CutPolicerSpares,
     EnterCruiseSpares, SettleStartupSpares, BoolFacts

LEMMA TickDrainSpares ==
    ASSUME NEW c, Sound(c), c.phase = "drain", NEW f
    PROVE  Spares(c, TickDrain(c, f))
<1> DEFINE rate == Clip(c, DrainTarget(c))
           cut == [c EXCEPT !.sinceStep = 0, !.drainCuts = @ + 1, !.rate = rate]
<1>1. TickDrain(c, f) \in
        {EnterCruise(CutToDelivery(c), TRUE), EnterCruise(RecoverWrecked(c), FALSE),
         CutPolicer(c), EnterCruise(c, TRUE), cut, c}
  BY DEF TickDrain
<1>2. Locked(c) /\ Floored(c) => rate >= Min({Hard, c.knee})
  <2>1. AimDelivery(c) \in Nat /\ Times(c.rate, 75) \in Nat
    BY AimNat, TimesNat DEF Sound, Typed
  <2>2. DrainTarget(c) \in Nat
    BY <2>1, Pairs DEF DrainTarget
  <2>3. Locked(c) /\ Floored(c) => c.rate >= Min({Hard, c.knee})
    BY DEF Floored, Anchor
  <2>4. QED
    BY <2>2, <2>3, ClipSpares DEF Sound
<1> HIDE DEF rate
<1>3. Spares(c, cut)
  <2>1. /\ cut.bw = c.bw /\ cut.knee = c.knee /\ cut.sawKnee = c.sawKnee
        /\ cut.phase = c.phase /\ cut.rate = rate
    BY DEF Fields, Sound, Typed
  <2> HIDE DEF cut
  <2>2. QED
    BY <1>2, <2>1, SameKneeSpares
<1> HIDE DEF cut
<1>4. Spares(c, EnterCruise(RecoverWrecked(c), FALSE))
  <2>1. /\ Sound(RecoverWrecked(c)) /\ Spares(c, RecoverWrecked(c))
        /\ RecoverWrecked(c).phase # "probe"
    BY RecoverWreckedSound, RecoverWreckedSpares
  <2>2. QED
    BY <2>1, EnterCruiseSpares, BoolFacts, SparesChain
<1>5. Spares(c, c)
  BY DEF Spares
<1>6. c.phase # "probe"
  OBVIOUS
<1>7. QED
  BY <1>1, <1>3, <1>4, <1>5, <1>6, CutPolicerSpares, EnterCruiseSpares, BoolFacts

\* A probe may start anywhere: the rate it goes back to is held against the knee.
LEMMA StartProbeSpares ==
    ASSUME NEW c, Sound(c), c.phase = "cruise", NEW f
    PROVE  Spares(c, StartProbe(c, f))
<1> DEFINE d == [c EXCEPT !.phase = "probe", !.probeBase = c.rate,
                          !.probeDecoded = c.decoded, !.probeUnique = c.delivery,
                          !.probeLeft = ProbeTicks]
           At(rate) == [d EXCEPT !.rate = rate]
<1>1. StartProbe(c, f) = c \/ \E rate : StartProbe(c, f) = At(rate)
  BY DEF StartProbe
<1>2. /\ Fields \subseteq DOMAIN d /\ d.phase = "probe" /\ d.probeBase = c.rate
      /\ d.knee = c.knee /\ d.sawKnee = c.sawKnee /\ d.bw = c.bw
  BY DEF Fields, Sound, Typed
<1> HIDE DEF d
<1>3. ASSUME NEW rate PROVE Spares(c, At(rate))
  <2> DEFINE e == At(rate)
  <2>1. /\ e.phase = "probe" /\ e.probeBase = c.rate
        /\ e.knee = c.knee /\ e.sawKnee = c.sawKnee /\ e.bw = c.bw
    BY <1>2 DEF Fields
  <2> HIDE DEF e
  <2>2. Backed(c) => Backed(e)
    BY <2>1, BwOfSamples DEF Backed
  <2>3. Away(e)
    BY <2>1 DEF Away
  <2>4. Floored(c) => Floored(e)
    BY <2>1 DEF Floored, Anchor, Locked, IsFillKnee
  <2>5. Spares(c, e)
    BY <2>2, <2>3, <2>4 DEF Spares
  <2>6. QED
    BY <2>5 DEF e
<1>4. Spares(c, c)
  BY DEF Spares
<1>5. QED
  BY <1>1, <1>3, <1>4

\* A step up in cruise.
LEMMA FillUpSpares ==
    ASSUME NEW c, Sound(c), c.phase = "cruise", NEW x \in Nat
    PROVE  Spares(c, FillStep(c, c, Min({Hard, Max({Times(c.rate, 125), x})})))
<1> DEFINE top == Max({Times(c.rate, 125), x})
           ceiling == Min({Hard, top})
           rate == Min({ceiling, Clip(c, Times(c.rate, 125))})
           d == [c EXCEPT !.sinceStep = 0, !.rate = rate]
           low == Min({Hard, c.knee})
<1>1. /\ c.rate \in Nat /\ c.knee \in Nat /\ Hard \in Nat /\ Times(c.rate, 125) \in Nat
  BY TimesNat, Limits DEF Sound, Typed
<1>2. c.rate <= Times(c.rate, 125)
  <2>1. \A r \in Nat : r <= (r * 125) \div 100
    OBVIOUS
  <2>2. QED
    BY <1>1, <2>1 DEF Times
<1>3. top \in Nat /\ top >= Times(c.rate, 125)
  BY <1>1, Pairs
<1> HIDE DEF top
<1>4. ceiling \in Nat /\ ceiling = IF Hard <= top THEN Hard ELSE top
  <2>1. Hard \in Int /\ top \in Int
    BY <1>1, <1>3
  <2>2. ceiling = IF Hard <= top THEN Hard ELSE top
    BY <2>1, Pairs
  <2> HIDE DEF ceiling
  <2>3. QED
    BY <1>1, <1>3, <2>2
<1>5. Clip(c, Times(c.rate, 125)) \in Nat
  BY <1>1, ClipFacts DEF Sound
<1> HIDE DEF ceiling
<1>6. rate = IF ceiling <= Clip(c, Times(c.rate, 125)) THEN ceiling ELSE Clip(c, Times(c.rate, 125))
  <2>1. ceiling \in Int /\ Clip(c, Times(c.rate, 125)) \in Int
    BY <1>4, <1>5
  <2>2. QED
    BY <2>1, Pairs
<1>7. low \in Nat /\ low <= Hard
  BY <1>1, FloorNat
<1>8. Locked(c) /\ Floored(c) => rate >= low
  <2> SUFFICES ASSUME Locked(c), Floored(c) PROVE rate >= low
    OBVIOUS
  <2>1. c.rate >= low
    BY DEF Floored, Anchor
  <2>2. Clip(c, Times(c.rate, 125)) >= low
    BY <1>1, <2>1, ClipSpares DEF Sound
  <2> HIDE DEF low, rate
  <2>3. ceiling >= low
    BY <1>1, <1>2, <1>3, <1>4, <1>7, <2>1
  <2>4. QED
    BY <1>6, <2>2, <2>3
<1>9. FillStep(c, c, ceiling) \in {c, d}
  BY DEF FillStep
<1> HIDE DEF rate
<1>10. /\ d.bw = c.bw /\ d.knee = c.knee /\ d.sawKnee = c.sawKnee
       /\ d.phase = c.phase /\ d.rate = rate
  BY DEF Fields, Sound, Typed
<1> HIDE DEF d
<1>11. Spares(c, d)
  BY <1>8, <1>10, SameKneeSpares
<1>12. Spares(c, c)
  BY DEF Spares
<1>13. QED
  BY <1>9, <1>11, <1>12 DEF ceiling, top

LEMMA TickCruiseSpares ==
    ASSUME NEW c, Sound(c), c.phase = "cruise", NEW f
    PROVE  Spares(c, TickCruise(c, f))
<1> DEFINE free == [c EXCEPT !.confirmed = FALSE, !.sawKnee = FALSE,
                             !.knee = IF IsFillKnee(c) THEN 0 ELSE @]
           high == Min({Hard, Max({Times(c.rate, 125), Times(Fill, 288)})})
           low == Min({Hard, Max({Times(c.rate, 125), Fill})})
<1>1. TickCruise(c, f) \in
        {BeginDrain(c), FillStep(c, free, high), HoldLocked(c), FillStep(c, c, low),
         LockKnee(c), CutToDelivery(c), RecoverWrecked(c), CutPolicer(c), StartProbe(c, f), c}
  BY DEF TickCruise
<1>2. Spares(c, FillStep(c, free, high))
  <2> DEFINE rate == Min({high, Clip(free, Times(c.rate, 125))})
             e == [free EXCEPT !.sinceStep = 0, !.rate = rate]
  <2>1. FillStep(c, free, high) \in {c, e}
    BY DEF FillStep
  <2>2. Fields \subseteq DOMAIN free /\ ~free.sawKnee
    BY DEF Fields, Sound, Typed
  <2> HIDE DEF free, rate
  <2>3. ~e.sawKnee
    BY <2>2 DEF Fields
  <2> HIDE DEF e
  <2>4. Spares(c, e) /\ Spares(c, c)
    BY <2>3 DEF Spares, Away, Backed, Floored, Locked
  <2>5. QED
    BY <2>1, <2>4
<1>3. Spares(c, FillStep(c, c, low))
  BY FillUpSpares, Limits
<1>4. Spares(c, c) /\ c.phase # "probe"
  BY DEF Spares
<1>5. /\ Spares(c, BeginDrain(c)) /\ Spares(c, HoldLocked(c)) /\ Spares(c, LockKnee(c))
      /\ Spares(c, CutToDelivery(c)) /\ Spares(c, RecoverWrecked(c))
      /\ Spares(c, CutPolicer(c)) /\ Spares(c, StartProbe(c, f))
  <2>1. Spares(c, BeginDrain(c)) /\ Spares(c, HoldLocked(c)) /\ Spares(c, LockKnee(c))
    BY <1>4, BeginDrainSpares, HoldLockedSpares, LockKneeSpares
  <2>2. /\ Spares(c, CutToDelivery(c)) /\ Spares(c, RecoverWrecked(c))
        /\ Spares(c, CutPolicer(c)) /\ Spares(c, StartProbe(c, f))
    BY <1>4, CutToDeliverySpares, RecoverWreckedSpares, CutPolicerSpares, StartProbeSpares
  <2>3. QED
    BY <2>1, <2>2
<1> HIDE DEF free, high, low
<1>6. QED
  BY <1>1, <1>2, <1>3, <1>4, <1>5

\* A probe goes on, or leaves for cruise.
LEMMA TickProbeSpares ==
    ASSUME NEW c, Sound(c), c.phase = "probe", NEW f
    PROVE  LET d == TickProbe(c, f)
           IN  /\ d = c \/ d.phase = "cruise"
               /\ Away(d)
               /\ Backed(c) => Backed(d)
<1> DEFINE lagRate == Max({Fill, Min({c.probeBase, Max({c.good, Times(c.probeBase, 75)})})})
           At(rate) == [c EXCEPT !.rate = rate]
           Back(rate) == EnterCruise(At(rate), FALSE)
           Held(rate) == [Back(rate) EXCEPT !.holdoff = ProbeHoldoff]
           gained == [c EXCEPT !.good = c.rate]
           Keeps(d) == /\ d.phase = "cruise" /\ d.bw = c.bw
                       /\ d.knee = c.knee /\ d.sawKnee = c.sawKnee
<1>1. TickProbe(c, f) \in
        {AbortProbeDropper(c), Held(lagRate), Held(c.probeBase), c, Back(c.probeBase),
         EnterCruise(c, FALSE), EnterCruise(gained, TRUE)}
  BY DEF TickProbe
<1>2. Fields \subseteq DOMAIN c
  BY DEF Sound, Typed
<1>3. ASSUME NEW d, Fields \subseteq DOMAIN d, d.bw = c.bw, d.knee = c.knee,
             d.sawKnee = c.sawKnee, NEW b
      PROVE  Keeps(EnterCruise(d, b)) /\ Fields \subseteq DOMAIN EnterCruise(d, b)
  BY <1>3 DEF EnterCruise, Fields
<1>4. ASSUME NEW rate PROVE Keeps(Back(rate)) /\ Keeps(Held(rate))
  <2> DEFINE a == At(rate)
  <2>1. Fields \subseteq DOMAIN a /\ a.bw = c.bw /\ a.knee = c.knee /\ a.sawKnee = c.sawKnee
    BY <1>2 DEF Fields
  <2> HIDE DEF a, Keeps
  <2> DEFINE b == EnterCruise(a, FALSE)
  <2>2. Keeps(b) /\ Fields \subseteq DOMAIN b
    BY <1>3, <2>1
  <2> HIDE DEF b
  <2>3. Keeps([b EXCEPT !.holdoff = ProbeHoldoff])
    BY <2>2 DEF Keeps, Fields
  <2>4. QED
    BY <2>2, <2>3 DEF a, b
<1>5. Keeps(EnterCruise(c, FALSE)) /\ Keeps(EnterCruise(gained, TRUE))
  <2>1. /\ Fields \subseteq DOMAIN gained /\ gained.bw = c.bw /\ gained.knee = c.knee
        /\ gained.sawKnee = c.sawKnee
    BY <1>2 DEF Fields
  <2> HIDE DEF gained, Keeps
  <2>2. QED
    BY <1>2, <1>3, <2>1
<1>6. \A d : Keeps(d) => d.phase = "cruise" /\ Away(d) /\ (Backed(c) => Backed(d))
  BY BwOfSamples DEF Away, Backed
<1>7. LET d == AbortProbeDropper(c)
      IN  d.phase = "cruise" /\ Away(d) /\ (Backed(c) => Backed(d))
  <2> DEFINE base == IF c.knee > 0 THEN c.knee ELSE c.probeBase
             prior == Max({c.good, c.knee})
             onShelf == [c EXCEPT !.confirmed = FALSE, !.sawKnee = FALSE, !.knee = 0,
                                  !.rate = Max({base, Fill})]
             back == [c EXCEPT !.rate = Max({base, Times(prior, 75)}), !.good = prior,
                               !.knee = IF @ = 0 THEN prior ELSE @, !.confirmed = FALSE]
             lock == [c EXCEPT !.knee = base, !.rate = base, !.good = Max({@, base}),
                               !.sawKnee = TRUE, !.confirmed = TRUE]
  <2>1. \/ AbortProbeDropper(c) = EnterCruise(onShelf, FALSE)
        \/ AbortProbeDropper(c) = EnterCruise(back, FALSE)
             /\ ~(100 * base <= 130 * Fill) /\ 100 * base < 85 * prior
        \/ AbortProbeDropper(c) = EnterCruise(lock, FALSE) /\ ~(100 * base <= 130 * Fill)
    BY DEF AbortProbeDropper
  <2>2. base \in Nat /\ prior \in Nat /\ Fill \in Nat
    BY Limits, Pairs DEF Sound, Typed
  <2> HIDE DEF base, prior
  <2>3. ASSUME NEW d, Fields \subseteq DOMAIN d
        PROVE  LET e == EnterCruise(d, FALSE)
               IN  /\ e.phase = "cruise" /\ e.sawKnee = d.sawKnee
                   /\ e.knee = d.knee /\ e.bw = d.bw
    BY <2>3 DEF EnterCruise, Fields
  <2>4. /\ Fields \subseteq DOMAIN onShelf /\ ~onShelf.sawKnee
        /\ Fields \subseteq DOMAIN back /\ back.sawKnee = c.sawKnee /\ back.bw = c.bw
        /\ back.knee = (IF c.knee = 0 THEN prior ELSE c.knee)
        /\ Fields \subseteq DOMAIN lock /\ lock.knee = base
    BY <1>2 DEF Fields
  <2> HIDE DEF onShelf, back, lock
  <2> DEFINE d == AbortProbeDropper(c)
  <2>5. CASE d = EnterCruise(onShelf, FALSE)
    <3>1. d.phase = "cruise" /\ ~d.sawKnee
      BY <2>3, <2>4, <2>5
    <3> HIDE DEF d
    <3>2. QED
      BY <3>1 DEF Away, Backed, d
  <2>6. CASE d = EnterCruise(back, FALSE) /\ ~(100 * base <= 130 * Fill) /\ 100 * base < 85 * prior
    <3>1. /\ d.phase = "cruise" /\ d.sawKnee = c.sawKnee /\ d.bw = c.bw
          /\ d.knee = (IF c.knee = 0 THEN prior ELSE c.knee)
      BY <2>3, <2>4, <2>6
    <3>2. 100 * prior > 130 * Fill
      BY <2>2, <2>6
    <3> HIDE DEF d
    <3>3. Backed(c) => Backed(d)
      BY <3>1, <3>2, BwOfSamples DEF Backed
    <3>4. QED
      BY <3>1, <3>3 DEF Away, d
  <2>7. CASE d = EnterCruise(lock, FALSE) /\ ~(100 * base <= 130 * Fill)
    <3>1. d.phase = "cruise" /\ d.knee = base
      BY <2>3, <2>4, <2>7
    <3>2. 100 * base > 130 * Fill
      BY <2>2, <2>7
    <3> HIDE DEF d
    <3>3. QED
      BY <3>1, <3>2 DEF Away, Backed, d
  <2>8. QED
    BY <2>1, <2>5, <2>6, <2>7
<1>8. Away(c)
  BY DEF Away
<1> HIDE DEF Keeps, Back, Held, gained, lagRate
<1>9. QED
  BY <1>1, <1>4, <1>5, <1>6, <1>7, <1>8

-----------------------------------------------------------------------------
(* Feedback spares a lock *)

\* What noting may do before a lock: nothing that a locked knee is held against.
Heeds(c, d) ==
    /\ d.sawKnee = c.sawKnee /\ d.phase = c.phase /\ d.rate = c.rate
    /\ d.probeBase = c.probeBase
    /\ c.sawKnee => d.knee = c.knee

LEMMA ObservedHeeds ==
    ASSUME NEW c, Sound(c), NEW m
    PROVE  Heeds(c, Observed(c, m))
<1> DEFINE first == [c EXCEPT !.started = TRUE, !.sent = m.send > 0]
           seen == [c EXCEPT !.sendRate = m.send, !.sent = TRUE, !.fewSource = m.few,
                             !.unique = Min({@ + m.got, 8 * TwoBlocks})]
           stalled == [seen EXCEPT !.recvLag = TRUE]
           live == [seen EXCEPT !.delivery = m.got, !.decoded = m.decoded,
                                !.recvLag = 10 * m.decoded < 7 * m.got]
           knee == NoteKnee(live)
           kept == [knee EXCEPT !.bw = Kept(knee.bw, m.got),
                                !.sends = Kept(knee.sends, <<SendOr(knee), m.got>>)]
           Same(d) == /\ Fields \subseteq DOMAIN d /\ d.sawKnee = c.sawKnee /\ d.phase = c.phase
                      /\ d.rate = c.rate /\ d.probeBase = c.probeBase
                      /\ c.sawKnee => d.knee = c.knee
<1>1. Observed(c, m) \in {first, c, stalled, live, kept}
  BY DEF Observed
<1>2. Same(first) /\ Same(seen) /\ Same(c)
  BY DEF Fields, Sound, Typed
<1> HIDE DEF first, seen
<1>3. Same(stalled) /\ Same(live)
  BY <1>2 DEF Fields
<1> HIDE DEF stalled, live
<1>4. Same(knee)
  BY <1>3 DEF NoteKnee, Fields
<1> HIDE DEF knee
<1>5. Same(kept)
  BY <1>4 DEF Fields
<1> HIDE DEF kept
<1>6. QED
  BY <1>1, <1>2, <1>3, <1>4, <1>5 DEF Heeds

LEMMA NotedSpares ==
    ASSUME NEW c, Sound(c), NEW m, Measured(m)
    PROVE  LET d == Noted(c, m)
           IN  /\ Away(c) => Away(d)
               /\ Away(c) /\ Floored(c) => Floored(d)
               /\ ~c.sawKnee => Backed(d)
               /\ d.phase \in {c.phase, "cruise"}
<1> DEFINE Good(d) == /\ Away(c) => Away(d)
                      /\ Away(c) /\ Floored(c) => Floored(d)
                      /\ ~c.sawKnee => Backed(d)
                      /\ d.phase \in {c.phase, "cruise"}
<1>1. \A b, d : Sound(b) /\ Quiet(b, d) => Sound(d)
  BY QuietNotes DEF Noting
<1>2. \A b, d : Good(b) /\ Quiet(b, d) => Good(d)
  BY QuietSpares DEF Spares, Quiet
<1>3. PICK told : told = Told(c, m)
  OBVIOUS
<1>4. Quiet(c, told) /\ Sound(told)
  BY <1>1, <1>3, QuietSteps DEF Sound
<1>5. PICK obs : obs = Observed(told, m)
  OBVIOUS
<1>6. Sound(obs) /\ Heeds(told, obs)
  BY <1>4, <1>5, ObservedSound, ObservedHeeds DEF Noting
<1>7. Good(obs) /\ obs.sawKnee = c.sawKnee
  <2>1. Heeds(c, obs)
    BY <1>4, <1>6 DEF Quiet, Heeds
  <2>2. QED
    BY <2>1 DEF Heeds, Away, Backed, Floored, Anchor, Locked, IsFillKnee
<1>8. PICK fat : fat = FatSeen(PathNoted(obs))
  OBVIOUS
<1>9. Sound(fat) /\ Good(fat) /\ fat.sawKnee = c.sawKnee
  <2>1. Quiet(obs, PathNoted(obs))
    BY <1>6, QuietSteps DEF Sound
  <2>2. Sound(PathNoted(obs))
    BY <1>1, <1>6, <2>1
  <2>3. Quiet(PathNoted(obs), fat)
    BY <1>8, <2>2, QuietSteps DEF Sound
  <2>4. Sound(fat) /\ fat.sawKnee = c.sawKnee
    BY <1>1, <1>7, <2>1, <2>2, <2>3 DEF Quiet
  <2> HIDE DEF Good
  <2>5. Good(fat)
    BY <1>2, <1>7, <2>1, <2>3
  <2>6. QED
    BY <2>4, <2>5
<1>10. PICK knee : knee = NoteLossKnee(fat)
  OBVIOUS
<1>11. Sound(knee) /\ Good(knee)
  <2> DEFINE d == [fat EXCEPT !.kneeN = IF KneeHit(fat) THEN Min({@ + 1, LossHold}) ELSE 0]
  <2>1. Quiet(fat, d)
    BY <1>9 DEF Quiet, Fields, Sound, Typed
  <2>2. knee \in {fat, LockIfHeld(d)}
    BY <1>10 DEF NoteLossKnee
  <2> HIDE DEF d
  <2>3. Sound(d)
    BY <1>1, <1>9, <2>1
  <2>4. Good(d) /\ d.sawKnee = c.sawKnee
    <3> HIDE DEF Good
    <3>1. Good(d)
      BY <1>2, <1>9, <2>1
    <3>2. QED
      BY <1>9, <2>1, <3>1 DEF Quiet
  <2>5. LockIfHeld(d) = d \/ (LockIfHeld(d) = LockKnee(d) /\ ~d.sawKnee)
    BY DEF LockIfHeld
  <2>6. ~d.sawKnee => Good(LockKnee(d))
    <3> SUFFICES ASSUME ~d.sawKnee PROVE Good(LockKnee(d))
      OBVIOUS
    <3>1. /\ Away(d) => Away(LockKnee(d))
          /\ Backed(LockKnee(d)) /\ Floored(LockKnee(d))
          /\ LockKnee(d).phase \in {d.phase, "cruise"}
      BY <2>3, LockKneeSpares
    <3>2. QED
      BY <2>4, <3>1
  <2>7. Sound(knee)
    BY <1>9, <1>10, NoteLossKneeSound DEF Noting
  <2> HIDE DEF Good
  <2>8. QED
    BY <1>9, <2>2, <2>4, <2>5, <2>6, <2>7
<1>12. PICK delay : delay = NoteDelay(NoteBw(CliffCounted(knee)))
  OBVIOUS
<1> HIDE DEF Good
<1>13. Sound(delay) /\ Good(delay)
  <2>1. Sound(CliffCounted(knee)) /\ Good(CliffCounted(knee))
    BY <1>1, <1>2, <1>11, QuietSteps DEF Sound
  <2>2. Sound(NoteBw(CliffCounted(knee))) /\ Good(NoteBw(CliffCounted(knee)))
    BY <1>1, <1>2, <2>1, QuietSteps DEF Sound
  <2>3. QED
    BY <1>1, <1>2, <1>12, <2>2, QuietSteps DEF Sound
<1>14. Good(Classified(delay))
  BY <1>2, <1>13, QuietSteps DEF Sound
<1>15. Noted(c, m) = Classified(delay)
  BY <1>3, <1>5, <1>8, <1>10, <1>12 DEF Noted
<1>16. Good(Noted(c, m))
  BY <1>14, <1>15
<1>17. QED
  BY <1>16 DEF Good

\* The clip that ends a feedback.
LEMMA AnswersSpare ==
    ASSUME NEW next, Sound(next), Answers(next), NEW d, d = cc'
    PROVE  Spares(next, d) /\ d.sawKnee = next.sawKnee /\ d.phase = next.phase
<1>1. PICK fat : fat = FatNoted(next)
  OBVIOUS
<1>2. Quiet(next, fat)
  BY <1>1, QuietSteps DEF FatNoted, Quiet, Sound, Typed
<1>3. PICK rate : rate = Clip(next, fat.rate)
  OBVIOUS
<1>4. d = [fat EXCEPT !.rate = rate]
  BY <1>1, <1>3 DEF Answers
<1>5. /\ d.bw = next.bw /\ d.knee = next.knee /\ d.sawKnee = next.sawKnee
      /\ d.phase = next.phase /\ d.probeBase = next.probeBase /\ d.rate = rate
  BY <1>2, <1>4 DEF Quiet, Fields
<1>6. fat.rate \in Nat /\ Typed(next)
  BY <1>2 DEF Quiet, Sound, Typed
<1>7. CASE next.phase = "probe"
  <2>1. Backed(next) => Backed(d)
    BY <1>5, BwOfSamples DEF Backed
  <2>2. QED
    BY <1>5, <1>7, <2>1 DEF Spares, Away, Floored, Anchor, Locked, IsFillKnee
<1>8. CASE next.phase # "probe"
  <2>1. next.phase = "startup" => (Away(next) => ~Locked(next))
    BY DEF Away, Locked
  <2>2. Floored(next) /\ Away(next) /\ Locked(next) => rate >= Min({Hard, next.knee})
    <3> SUFFICES ASSUME Floored(next), Away(next), Locked(next)
                 PROVE  rate >= Min({Hard, next.knee})
      OBVIOUS
    <3>1. next.phase \in {"cruise", "drain"}
      BY <1>6, <1>8, <2>1 DEF Typed
    <3>2. next.rate >= Min({Hard, next.knee})
      BY <1>8 DEF Floored, Anchor
    <3>3. QED
      BY <1>3, <1>6, <3>1, <3>2, ClipSpares
  <2>3. QED
    BY <1>5, <1>8, <2>2, SameKneeSpares
<1>9. QED
  BY <1>5, <1>7, <1>8

\* One feedback: a lock it takes is backed, one that stands is spared, unless
\* the feedback ends a probe.
LEMMA FeedbackSpares ==
    ASSUME SearchInv, Away(cc), NEW m \in Measures(weather),
           \/ Startup(Heard(m), m) \/ Drain(Heard(m), m)
           \/ Cruise(Heard(m), m) \/ Probe(Heard(m), m),
           NEW d, d = cc'
    PROVE  /\ Away(d)
           /\ ~cc.sawKnee => Backed(d)
           /\ Floored(cc) => Floored(d) \/ (cc.phase = "probe" /\ d.phase = "cruise")
<1>1. PICK h : h = Heard(m)
  OBVIOUS
<1>2. PICK next : /\ Answers(next)
                  /\ \/ h.phase = "startup" /\ next = TickStartup(h, m)
                     \/ h.phase = "drain" /\ next = TickDrain(h, m)
                     \/ h.phase = "cruise" /\ next = TickCruise(h, m)
                     \/ h.phase = "probe" /\ next = TickProbe(h, m)
  BY <1>1 DEF Startup, Drain, Cruise, Probe, InPhase
<1>3. Sound(h)
  BY <1>1, HeardSound DEF Noting
<1>4. /\ Away(h)
      /\ Floored(cc) => Floored(h)
      /\ ~cc.sawKnee => Backed(h)
      /\ h.phase \in {cc.phase, "cruise"}
  <2>1. Sound(cc) /\ Typed(cc) /\ cc.rate \in Nat /\ weather \in WeatherKinds \cup {"fair"}
    BY WeatherAssumption DEF SearchInv, Sound, Typed
  <2>2. Measured(m)
    BY <2>1, MeasuresAreRates
  <2>3. PICK c : c = IF m.early THEN cc ELSE Aged(cc)
    OBVIOUS
  <2>4. Quiet(cc, Aged(cc)) /\ Quiet(cc, cc)
    BY <2>1, QuietSteps DEF Quiet, Typed
  <2>5. Quiet(cc, c)
    BY <2>3, <2>4
  <2>6. Sound(c) /\ Spares(cc, c) /\ c.sawKnee = cc.sawKnee /\ c.phase = cc.phase
    BY <2>1, <2>5, QuietNotes, QuietSpares DEF Noting, Quiet
  <2>7. h = Noted(c, m)
    BY <1>1, <2>3 DEF Heard
  <2>8. /\ Away(c) => Away(h)
        /\ Away(c) /\ Floored(c) => Floored(h)
        /\ ~c.sawKnee => Backed(h)
        /\ h.phase \in {c.phase, "cruise"}
    BY <2>2, <2>6, <2>7, NotedSpares
  <2>9. QED
    BY <2>6, <2>8 DEF Spares
<1>5. Sound(next)
  BY <1>2, <1>3, TickStartupSound, TickDrainSound, TickCruiseSound, TickProbeSound
<1>6. /\ Away(next)
      /\ Backed(h) => Backed(next)
      /\ Floored(h) => Floored(next) \/ (h.phase = "probe" /\ next.phase = "cruise")
  <2>1. h.phase # "probe" => Spares(h, next)
    BY <1>2, <1>3, TickStartupSpares, TickDrainSpares, TickCruiseSpares
  <2>2. h.phase = "probe" => /\ next = h \/ next.phase = "cruise"
                             /\ Away(next)
                             /\ Backed(h) => Backed(next)
    BY <1>2, <1>3, TickProbeSpares
  <2>3. QED
    BY <1>4, <2>1, <2>2 DEF Spares
<1>7. Spares(next, d) /\ d.phase = next.phase
  BY <1>2, <1>5, AnswersSpare
<1>8. QED
  BY <1>4, <1>6, <1>7 DEF Spares

\* The steps without feedback.
LEMMA QuietStepSpares ==
    ASSUME SearchInv, Away(cc), OnTimer \/ WeatherTurns \/ UNCHANGED vars, NEW d, d = cc'
    PROVE  Spares(cc, d) /\ d.sawKnee = cc.sawKnee
<1>1. CASE OnTimer
  <2>1. Fields \subseteq DOMAIN cc /\ cc.phase = "startup" /\ ~cc.sawKnee
    BY <1>1 DEF SearchInv, Sound, Typed, OnTimer, Away
  <2>2. d.sawKnee = cc.sawKnee
    BY <1>1, <2>1 DEF OnTimer, FatNoted, FatSeen, Fields
  <2>3. QED
    BY <2>1, <2>2 DEF Spares, Away, Backed, Floored, Locked
<1>2. CASE WeatherTurns \/ UNCHANGED vars
  <2>1. d = cc
    BY <1>2 DEF WeatherTurns, vars
  <2>2. QED
    BY <2>1 DEF Spares
<1>3. QED
  BY <1>1, <1>2

LEMMA StepSpares ==
    ASSUME SearchInv, Away(cc), [Next]_vars, NEW d, d = cc'
    PROVE  /\ Away(d)
           /\ ~cc.sawKnee => Backed(d)
           /\ Floored(cc) => Floored(d) \/ (cc.phase = "probe" /\ d.phase = "cruise")
<1>1. CASE StartupFeedback \/ DrainFeedback \/ CruiseFeedback \/ ProbeFeedback
  <2>1. PICK m \in Measures(weather) :
           \/ Startup(Heard(m), m) \/ Drain(Heard(m), m)
           \/ Cruise(Heard(m), m) \/ Probe(Heard(m), m)
    BY <1>1 DEF StartupFeedback, DrainFeedback, CruiseFeedback, ProbeFeedback
  <2>2. QED
    BY <2>1, FeedbackSpares
<1>2. CASE OnTimer \/ WeatherTurns \/ UNCHANGED vars
  <2>1. Spares(cc, d) /\ d.sawKnee = cc.sawKnee
    BY <1>2, QuietStepSpares
  <2>2. QED
    BY <2>1 DEF Spares, Backed
<1>3. QED
  BY <1>1, <1>2 DEF Next

\* A knee is locked only outside startup: what finds one enters cruise, and
\* nothing goes back.
THEOREM LocksLeaveStartup == Spec => [](cc.sawKnee => cc.phase # "startup")
<1>1. Init => (cc.sawKnee => cc.phase # "startup")
  BY DEF Init, InitCc
<1>2. SearchInv /\ (cc.sawKnee => cc.phase # "startup") /\ [Next]_vars
        => (cc.sawKnee => cc.phase # "startup")'
  <2> SUFFICES ASSUME SearchInv, Away(cc), [Next]_vars
               PROVE  cc'.sawKnee => cc'.phase # "startup"
    BY DEF Away
  <2>1. PICK d : d = cc'
    OBVIOUS
  <2>2. Away(d)
    BY <2>1, StepSpares
  <2>3. QED
    BY <2>1, <2>2 DEF Away
<1>3. QED
  BY <1>1, <1>2, SearchInvAlways, PTL DEF Spec

\* No cut takes the rate below a locked knee, on any path and in any weather:
\* neither a drain, nor a policer, nor a wreck, nor the ceilings that end every
\* feedback.  Only a probe may end below the knee it started from.
THEOREM CutsSpareLocks == Spec => CutsSpareTheLock
<1>1. ASSUME SearchInv, cc.sawKnee => cc.phase # "startup", [Next]_vars
      PROVE  [Floored(cc) => Floored(cc') \/ (cc.phase = "probe" /\ cc'.phase = "cruise")]_vars
  <2>1. PICK d : d = cc'
    OBVIOUS
  <2>2. Floored(cc) => Floored(d) \/ (cc.phase = "probe" /\ d.phase = "cruise")
    BY <1>1, <2>1, StepSpares DEF Away
  <2>3. QED
    BY <2>1, <2>2
<1>2. QED
  BY <1>1, SearchInvAlways, LocksLeaveStartup, PTL DEF Spec, CutsSpareTheLock

\* What is locked was delivered: at no cliff, and on the shelf of two blocks per
\* round trip only what the filter itself does not hold to be more.
THEOREM LocksAreAlive == Spec => LockIsAlive
<1>1. ASSUME SearchInv, cc.sawKnee => cc.phase # "startup", [Next]_vars
      PROVE  ~cc.sawKnee /\ cc'.sawKnee =>
                 100 * cc'.knee > 130 * Fill \/ cc'.knee >= Times(MaxBw(cc'), 110)
  <2>1. PICK d : d = cc'
    OBVIOUS
  <2>2. ~cc.sawKnee => Backed(d)
    BY <1>1, <2>1, StepSpares DEF Away
  <2>3. ~cc.sawKnee /\ d.sawKnee =>
            100 * d.knee > 130 * Fill \/ d.knee >= Times(MaxBw(d), 110)
    BY <2>2 DEF Backed
  <2>4. QED
    BY <2>1, <2>3
<1>2. ASSUME SearchInv, cc.sawKnee => cc.phase # "startup", [Next]_vars,
             [~cc.sawKnee /\ cc'.sawKnee => ~UniqueCliff(cc')]_vars
      PROVE  [~cc.sawKnee /\ cc'.sawKnee =>
                  /\ ~UniqueCliff(cc')
                  /\ 100 * cc'.knee > 130 * Fill \/ cc'.knee >= Times(MaxBw(cc'), 110)]_vars
  BY <1>1, <1>2 DEF vars
<1>3. QED
  BY <1>2, SearchInvAlways, LocksLeaveStartup, NoLockAtACliff, PTL DEF Spec, LockIsAlive
=============================================================================
