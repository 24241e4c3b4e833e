------------------------- MODULE BlockTransferProofs -------------------------
(***************************************************************************)
(* Proofs about BlockTransfer, for every file size, block size, window,    *)
(* limit and fault set.                                                    *)
(***************************************************************************)
EXTENDS BlockTransfer, TLAPS, FiniteSetTheorems, SequenceTheorems, WellFoundedInduction

-----------------------------------------------------------------------------
(* Facts about the data the model is built from *)

\* Sets of blocks and of symbols are finite; a set of blocks as large as the
\* file is the whole file.
LEMMA BlockSets ==
    /\ \A S \in SUBSET Block : IsFiniteSet(S) /\ Cardinality(S) \in Nat
    /\ \A S \in SUBSET Block : Cardinality(S) >= TotalBlocks => S = Block
<1>1. IsFiniteSet(Block) /\ Cardinality(Block) = TotalBlocks
  <2>1. 0 \in Int /\ TotalBlocks \in Int /\ TotalBlocks - 1 \in Int /\ TotalBlocks >= 1
    BY ConstantsAssumption
  <2>2. QED
    <3>1. Cardinality(0 .. TotalBlocks - 1)
             = IF 0 > TotalBlocks - 1 THEN 0 ELSE TotalBlocks - 1 - 0 + 1
      BY <2>1, FS_Interval
    <3>2. IsFiniteSet(0 .. TotalBlocks - 1)
      BY <2>1, FS_Interval
    <3>3. QED
      BY <2>1, <3>1, <3>2 DEF Block
<1>2. ASSUME NEW S \in SUBSET Block
      PROVE  /\ IsFiniteSet(S) /\ Cardinality(S) \in Nat
             /\ Cardinality(S) >= TotalBlocks => S = Block
  <2>1. IsFiniteSet(S) /\ Cardinality(S) <= Cardinality(Block)
    BY <1>1, FS_Subset
  <2>2. Cardinality(S) \in Nat
    BY <2>1, FS_CardinalityType
  <2>3. Cardinality(S) = Cardinality(Block) => S = Block
    BY <1>1, FS_Subset
  <2>4. QED
    BY <1>1, <2>1, <2>2, <2>3, ConstantsAssumption
<1>3. QED
  BY <1>2

LEMMA SymbolSets == \A S \in SUBSET Esi : Cardinality(S) \in Nat
<1>1. IsFiniteSet(Esi)
  <2>1. 0 \in Int /\ MaxEsi - 1 \in Int
    BY ConstantsAssumption
  <2>2. QED
    BY <2>1, FS_Interval DEF Esi
<1>2. QED
  BY <1>1, FS_Subset, FS_CardinalityType

\* Removing one element of a sequence leaves a sequence of the others.
LEMMA RemoveAtKeeps ==
    ASSUME NEW S, NEW s \in Seq(S), NEW i \in 1 .. Len(s)
    PROVE  /\ RemoveAt(s, i) \in Seq(S)
           /\ Len(RemoveAt(s, i)) = Len(s) - 1
           /\ \A j \in 1 .. Len(RemoveAt(s, i)) :
                 \E k \in 1 .. Len(s) : RemoveAt(s, i)[j] = s[k]
<1> DEFINE left == SubSeq(s, 1, i - 1)
           right == SubSeq(s, i + 1, Len(s))
<1>1. /\ left \in Seq(S) /\ Len(left) = i - 1
      /\ \A j \in 1 .. i - 1 : left[j] = s[j]
  OBVIOUS
<1>2. /\ right \in Seq(S) /\ Len(right) = Len(s) - i
      /\ \A j \in 1 .. Len(s) - i : right[j] = s[i + j]
  OBVIOUS
<1>3. RemoveAt(s, i) = left \o right
  BY DEF RemoveAt
<1> HIDE DEF left, right
<1>4. /\ left \o right \in Seq(S)
      /\ Len(left \o right) = Len(s) - 1
  <2>1. left \o right \in Seq(S) /\ Len(left \o right) = Len(left) + Len(right)
    BY <1>1, <1>2, ConcatProperties, Zenon
  <2>2. Len(s) \in Nat /\ i - 1 + (Len(s) - i) = Len(s) - 1
    BY LenProperties
  <2>3. QED
    BY <1>1, <1>2, <2>1, <2>2, Zenon
<1>5. ASSUME NEW j \in 1 .. Len(s) - 1
      PROVE  \E k \in 1 .. Len(s) : (left \o right)[j] = s[k]
  <2>1. CASE j <= i - 1
    BY <1>1, <1>2, <2>1, ConcatProperties
  <2>2. CASE j > i - 1
    <3>1. (left \o right)[j] = right[j - (i - 1)]
      BY <1>1, <1>2, <2>2, ConcatProperties
    <3>2. right[j - (i - 1)] = s[j + 1]
      BY <1>2, <2>2
    <3>3. j + 1 \in 1 .. Len(s)
      OBVIOUS
    <3>4. QED
      BY <3>1, <3>2, <3>3
  <2>3. j <= i - 1 \/ j > i - 1
    OBVIOUS
  <2>4. QED
    BY <2>1, <2>2, <2>3
<1>6. QED
  BY <1>3, <1>4, <1>5

-----------------------------------------------------------------------------
(* Type correctness *)

LEMMA NoItemType == NoItem \in Item /\ NoItems \in [Block -> Item]
BY DEF NoItem, NoItems, Item

\* A feedback only reports blocks as done that are.
LEMMA ReportedAreDone == \A rot : ReportedDone(rot) \subseteq done
BY DEF ReportedDone, DoneRanges

LEMMA PacketType ==
    ASSUME TypeOK, NEW rot
    PROVE  FeedbackPacket(rot) \in Packet
<1>1. \A b \in Block : ItemOf(b) \in Item
  <2>1. \A b \in Block : Cardinality(rx[b]) \in Nat
    BY SymbolSets DEF TypeOK
  <2>2. QED
    BY <2>1 DEF ItemOf, Item
<1>2. ReportedDone(rot) \in SUBSET Block
  BY ReportedAreDone DEF TypeOK
<1>3. QED
  BY <1>1, <1>2, NoItemType DEF FeedbackPacket, Packet

\* The feedback channel after a datagram entered it or left it.
LEMMA InFlightFrom ==
    ASSUME NEW t \in Seq(Packet), fbNet' = t, NEW P,
           \A j \in 1 .. Len(t) :
              \/ \E k \in 1 .. Len(fbNet) : t[j] = fbNet[k]
              \/ t[j] \in P
    PROVE  InFlight' \subseteq InFlight \cup P
BY DEF InFlight

LEMMA TransmitKeeps ==
    ASSUME fbNet \in Seq(Packet), fbStale \in 0 .. Len(fbNet),
           NEW p \in Packet, Transmit(p)
    PROVE  /\ fbNet' \in Seq(Packet) /\ fbStale' \in 0 .. Len(fbNet')
           /\ InFlight' \subseteq InFlight \cup {p}
<1>0. MaxFeedback \in Nat \ {0} /\ Len(fbNet) \in Nat
  BY ConstantsAssumption, LenProperties
<1>1. CASE Len(fbNet) < MaxFeedback
  <2>1. fbNet' = Append(fbNet, p) /\ fbStale' = fbStale
    BY <1>1 DEF Transmit
  <2>2. /\ Append(fbNet, p) \in Seq(Packet)
        /\ Len(Append(fbNet, p)) = Len(fbNet) + 1
        /\ Append(fbNet, p)[Len(fbNet) + 1] = p
        /\ \A j \in 1 .. Len(fbNet) : Append(fbNet, p)[j] = fbNet[j]
    BY AppendProperties
  <2>3. \A j \in 1 .. Len(fbNet) + 1 : j = Len(fbNet) + 1 \/ j \in 1 .. Len(fbNet)
    BY <1>0
  <2>4. InFlight' \subseteq InFlight \cup {p}
    <3>1. \A j \in 1 .. Len(Append(fbNet, p)) :
             \/ \E k \in 1 .. Len(fbNet) : Append(fbNet, p)[j] = fbNet[k]
             \/ Append(fbNet, p)[j] \in {p}
      BY <2>2, <2>3, Zenon
    <3>2. QED
      BY <2>1, <2>2, <3>1, InFlightFrom, Zenon
  <2>5. QED
    BY <1>0, <2>1, <2>2, <2>4
<1>2. CASE ~(Len(fbNet) < MaxFeedback)
  <2>1. /\ fbNet' = Append(Tail(fbNet), p)
        /\ fbStale' = IF fbStale > 0 THEN fbStale - 1 ELSE 0
    BY <1>2 DEF Transmit
  <2>2. fbNet # <<>>
    BY <1>0, <1>2
  <2>3. /\ Tail(fbNet) \in Seq(Packet)
        /\ Len(Tail(fbNet)) = Len(fbNet) - 1
        /\ \A j \in 1 .. Len(Tail(fbNet)) : Tail(fbNet)[j] = fbNet[j + 1]
    BY <2>2, HeadTailProperties
  <2>4. /\ Append(Tail(fbNet), p) \in Seq(Packet)
        /\ Len(Append(Tail(fbNet), p)) = Len(Tail(fbNet)) + 1
        /\ Append(Tail(fbNet), p)[Len(Tail(fbNet)) + 1] = p
        /\ \A j \in 1 .. Len(Tail(fbNet)) : Append(Tail(fbNet), p)[j] = Tail(fbNet)[j]
    BY <2>3, AppendProperties
  <2>5. /\ Len(Tail(fbNet)) + 1 = Len(fbNet)
        /\ \A j \in 1 .. Len(fbNet) : \/ j = Len(fbNet)
                                      \/ j \in 1 .. Len(Tail(fbNet))
        /\ \A j \in 1 .. Len(Tail(fbNet)) : j + 1 \in 1 .. Len(fbNet)
    <3>1. \A m \in Nat : \A n : n = m - 1 =>
             /\ n + 1 = m
             /\ \A j \in 1 .. m : j = m \/ j \in 1 .. n
             /\ \A j \in 1 .. n : j + 1 \in 1 .. m
      OBVIOUS
    <3>2. QED
      BY <1>0, <2>3, <3>1, Zenon
  <2>6. InFlight' \subseteq InFlight \cup {p}
    <3>1. \A j \in 1 .. Len(Append(Tail(fbNet), p)) :
             \/ \E k \in 1 .. Len(fbNet) : Append(Tail(fbNet), p)[j] = fbNet[k]
             \/ Append(Tail(fbNet), p)[j] \in {p}
      BY <2>3, <2>4, <2>5, Zenon
    <3>2. QED
      BY <2>1, <2>4, <3>1, InFlightFrom, Zenon
  <2>7. fbNet' \in Seq(Packet) /\ Len(fbNet') = Len(fbNet)
    BY <2>1, <2>4, <2>5, Zenon
  <2>8. QED
    BY <1>0, <2>1, <2>6, <2>7
<1>3. QED
  BY <1>1, <1>2

LEMMA LoseKeeps ==
    ASSUME fbNet \in Seq(Packet), fbStale \in 0 .. Len(fbNet),
           NEW i \in 1 .. Len(fbNet), LoseFeedback(i)
    PROVE  /\ fbNet' \in Seq(Packet) /\ fbStale' \in 0 .. Len(fbNet')
           /\ InFlight' \subseteq InFlight
<1>0. Len(fbNet) \in Nat
  BY LenProperties
<1>1. /\ fbNet' = RemoveAt(fbNet, i)
      /\ fbStale' = IF i <= fbStale THEN fbStale - 1 ELSE fbStale
  BY DEF LoseFeedback
<1>2. /\ RemoveAt(fbNet, i) \in Seq(Packet)
      /\ Len(RemoveAt(fbNet, i)) = Len(fbNet) - 1
      /\ \A j \in 1 .. Len(RemoveAt(fbNet, i)) :
            \E k \in 1 .. Len(fbNet) : RemoveAt(fbNet, i)[j] = fbNet[k]
  BY RemoveAtKeeps, Zenon
<1>3. InFlight' \subseteq InFlight \cup {}
  BY <1>1, <1>2, InFlightFrom, Zenon
<1>4. QED
  BY <1>0, <1>1, <1>2, <1>3

\* Learning from an item keeps the type of what the loop knows.
LEMMA LearnType ==
    ASSUME NEW k \in [unique : Nat, failed : BOOLEAN], NEW item \in Item
    PROVE  Learn(k, item) \in [unique : Nat, failed : BOOLEAN]
BY DEF Learn, Item

\* A number of a window that is still open is a block of the file.
LEMMA NextIsBlock == ASSUME TypeOK, WindowOpen PROVE next \in Block
BY ConstantsAssumption DEF TypeOK, WindowOpen, Block

\* Every step, and every stutter, keeps the types of all variables.
LEMMA TypeStep == TypeOK /\ [Next]_vars => TypeOK'
<1> SUFFICES ASSUME TypeOK, [Next]_vars PROVE TypeOK'
  OBVIOUS
<1> USE ConstantsAssumption
<1>1. CASE LoopTop
  BY <1>1 DEF LoopTop, TypeOK, threadVars, receiverVars, netVars
<1>2. CASE AdmitSource
  <2>1. K + InitialRepair \in 0 .. MaxEsi /\ next + 1 \in 0 .. TotalBlocks
    BY <1>2 DEF AdmitSource, WindowOpen, TypeOK
  <2>2. next \in Block
    BY <1>2, NextIsBlock DEF AdmitSource
  <2>3. QED
    BY <1>2, <2>1, <2>2 DEF AdmitSource, TypeOK, threadVars, receiverVars, netVars
<1>3. ASSUME NEW more \in [Block -> 0 .. MaxEsi - K],
             RepairTick(more) \/ CancelWhileRepairing(more)
      PROVE  TypeOK'
  <2>0. Repair(more) /\ pc' \in {pc, "end"} /\ sender' \in {sender, "aborted"}
    BY <1>3 DEF RepairTick, CancelWhileRepairing
  <2>1. known' \in [Block -> [unique : Nat, failed : BOOLEAN]]
    <3>1. \A b \in Block : Learn(known[b], snap.open[b]) \in [unique : Nat, failed : BOOLEAN]
      BY LearnType DEF TypeOK
    <3>2. QED
      BY <2>0, <3>1 DEF Repair, TypeOK
  <2>2. sent' \in [Block -> 0 .. MaxEsi]
    BY <2>0 DEF Repair, TypeOK
  <2>3. QED
    BY <2>0, <2>1, <2>2
    DEF Repair, TypeOK, Outcome, threadVars, receiverVars, netVars
<1>4. CASE NoRepair
  BY <1>4 DEF NoRepair, TypeOK, threadVars, receiverVars, netVars
<1>5. CASE LoopEnd
  <2>1. NoSnap \in [completed : SUBSET Block, open : [Block -> Item], tail : BOOLEAN]
    BY NoItemType DEF NoSnap
  <2>2. QED
    BY <1>5, <2>1 DEF LoopEnd, TypeOK, Outcome, threadVars, receiverVars, netVars
<1>6. CASE SenderExitFin
  BY <1>6 DEF SenderExitFin, TypeOK, Outcome, threadVars, receiverVars, netVars
<1>7. CASE SenderAbort
  BY <1>7 DEF SenderAbort, TypeOK, Outcome, threadVars, receiverVars, netVars
<1>8. ASSUME NEW n \in 0 .. K + InitialRepair, CancelWhileSending(n)
      PROVE  TypeOK'
  <2>1. n \in 0 .. MaxEsi
    OBVIOUS
  <2>2. next \in Block
    BY <1>8, NextIsBlock DEF CancelWhileSending
  <2>3. QED
    BY <1>8, <2>1, <2>2
    DEF CancelWhileSending, TypeOK, Outcome, threadVars, receiverVars, netVars
<1>9. ASSUME NEW i \in 1 .. Len(fbNet), ApplyFeedback(i)
      PROVE  TypeOK'
  <2>1. fbNet[i] \in Packet
    BY DEF TypeOK
  <2>2. \A b \in Block : MergedOpen(fbNet[i])[b] \in Item
    BY <2>1, NoItemType DEF MergedOpen, TypeOK, Packet
  <2>3. openRx' \in [Block -> Item]
    BY <1>9, <2>2, NoItemType DEF ApplyFeedback
  <2>4. completed' \subseteq Block
    BY <1>9, <2>1 DEF ApplyFeedback, TypeOK, Packet
  <2>5. fbNet' = fbNet /\ fbStale' \in 0 .. Len(fbNet')
    BY <1>9, LenProperties DEF ApplyFeedback, TypeOK
  <2>6. QED
    BY <1>9, <2>3, <2>4, <2>5 DEF ApplyFeedback, TypeOK, loopVars, receiverVars
<1>10. CASE RecvFin
  BY <1>10 DEF RecvFin, TypeOK, loopVars, receiverVars, netVars
<1>11. CASE SenderHello
  BY <1>11 DEF SenderHello, TypeOK, loopVars, receiverVars, netVars
<1>12. ASSUME NEW b \in Block, NEW e \in Esi, DeliverData(b, e)
       PROVE  TypeOK'
  BY <1>12 DEF DeliverData, TypeOK, loopVars, threadVars, netVars
<1>13. ASSUME NEW rot, SendFeedback(rot)
       PROVE  TypeOK'
  <2>1. fbNet' \in Seq(Packet) /\ fbStale' \in 0 .. Len(fbNet')
    BY <1>13, PacketType, TransmitKeeps DEF SendFeedback, TypeOK
  <2>2. QED
    BY <1>13, <2>1 DEF SendFeedback, TypeOK, loopVars, threadVars
<1>14. ASSUME NEW rot, ReceiverFinish(rot)
       PROVE  TypeOK'
  <2>1. fbNet' \in Seq(Packet) /\ fbStale' \in 0 .. Len(fbNet')
    BY <1>14, PacketType, TransmitKeeps DEF ReceiverFinish, TypeOK
  <2>2. QED
    BY <1>14, <2>1 DEF ReceiverFinish, TypeOK, Outcome, loopVars, threadVars
<1>15. CASE ReceiverHello
  BY <1>15 DEF ReceiverHello, TypeOK, loopVars, threadVars, netVars
<1>16. CASE ReceiverAbort
  BY <1>16 DEF ReceiverAbort, TypeOK, Outcome, loopVars, threadVars, netVars
<1>17. ASSUME NEW i \in 1 .. Len(fbNet), LoseFeedback(i)
       PROVE  TypeOK'
  <2>1. fbNet' \in Seq(Packet) /\ fbStale' \in 0 .. Len(fbNet')
    BY <1>17, LoseKeeps DEF TypeOK
  <2>2. QED
    BY <1>17, <2>1 DEF LoseFeedback, TypeOK, loopVars, threadVars, receiverVars
<1>18. CASE SenderCrash
  BY <1>18 DEF SenderCrash, TypeOK, Outcome, threadVars, receiverVars, netVars
<1>19. CASE ReceiverCrash
  BY <1>19 DEF ReceiverCrash, TypeOK, Outcome, loopVars, threadVars, netVars
<1>20. CASE UNCHANGED vars
  BY <1>20 DEF vars, TypeOK, loopVars, threadVars, receiverVars, netVars
<1>21. QED
  BY <1>1, <1>2, <1>3, <1>4, <1>5, <1>6, <1>7, <1>8, <1>9, <1>10, <1>11, <1>12,
     <1>13, <1>14, <1>15, <1>16, <1>17, <1>18, <1>19, <1>20, Zenon
     DEF Next, SendLoop, FeedbackThread, Receiver, Environment

LEMMA TypeInit == Init => TypeOK
<1>1. <<>> \in Seq(Packet) /\ Len(<<>>) = 0
  BY EmptySeq
<1>2. NoSnap \in [completed : SUBSET Block, open : [Block -> Item], tail : BOOLEAN]
  BY NoItemType DEF NoSnap
<1>3. 0 \in 0 .. TotalBlocks /\ 0 \in 0 .. MaxEsi /\ 0 \in 0 .. 0
  BY ConstantsAssumption
<1> SUFFICES ASSUME Init PROVE TypeOK
  OBVIOUS
<1>4. fbNet \in Seq(Packet) /\ fbStale \in 0 .. Len(fbNet)
  BY <1>1, <1>3, Zenon DEF Init, SenderInit, ReceiverInit, NetInit
<1>5. QED
  BY <1>2, <1>3, <1>4, NoItemType DEF Init, SenderInit, ReceiverInit, NetInit, TypeOK, Outcome

\* Every variable keeps its type in every run of the transfer.
THEOREM TypeCorrect == Spec => []TypeOK
BY TypeInit, TypeStep, PTL DEF Spec

-----------------------------------------------------------------------------
(* The inductive invariant, one lemma per part.  Each splits on the actions  *)
(* that change what the part speaks of; the others leave it unchanged.       *)

\* What the sender, its snapshot and the datagrams in flight hold of done
\* blocks is true: it was put there from `done', and `done' only grows.
LEMMA SoundnessStep ==
    ASSUME TypeOK, Soundness, [Next]_vars
    PROVE  Soundness'
<1>1. CASE UNCHANGED <<completed, snap, done, fbNet>>
  BY <1>1 DEF Soundness, InFlight
<1>2. CASE LoopTop
  BY <1>2 DEF LoopTop, Soundness, InFlight, threadVars, receiverVars, netVars
<1>3. CASE LoopEnd
  BY <1>3 DEF LoopEnd, NoSnap, Soundness, InFlight, threadVars, receiverVars, netVars
<1>4. ASSUME NEW i \in 1 .. Len(fbNet), ApplyFeedback(i)
      PROVE  Soundness'
  <2>1. fbNet[i].done \subseteq done
    BY DEF Soundness, InFlight
  <2>2. QED
    BY <1>4, <2>1 DEF ApplyFeedback, Soundness, InFlight, loopVars, receiverVars
<1>5. ASSUME NEW b \in Block, NEW e \in Esi, DeliverData(b, e)
      PROVE  Soundness'
  <2>1. done \subseteq done'
    BY <1>5 DEF DeliverData
  <2>2. QED
    BY <1>5, <2>1 DEF DeliverData, Soundness, InFlight, loopVars, threadVars, netVars
<1>6. ASSUME NEW rot, Transmit(FeedbackPacket(rot)),
             UNCHANGED <<completed, snap, done>>
      PROVE  Soundness'
  <2>1. FeedbackPacket(rot).done \subseteq done
    BY ReportedAreDone DEF FeedbackPacket
  <2>2. InFlight' \subseteq InFlight \cup {FeedbackPacket(rot)}
    BY <1>6, PacketType, TransmitKeeps DEF TypeOK
  <2>3. QED
    BY <1>6, <2>1, <2>2 DEF Soundness
<1>7. ASSUME NEW i \in 1 .. Len(fbNet), LoseFeedback(i)
      PROVE  Soundness'
  <2>1. InFlight' \subseteq InFlight
    BY <1>7, LoseKeeps DEF TypeOK
  <2>2. QED
    BY <1>7, <2>1 DEF LoseFeedback, Soundness, loopVars, threadVars, receiverVars
<1>8. QED
  <2>1. CASE SendLoop
    BY <2>1, <1>1, <1>2, <1>3
    DEF SendLoop, AdmitSource, RepairTick, CancelWhileRepairing, Repair,
        NoRepair, SenderExitFin, SenderAbort,
        CancelWhileSending, threadVars, receiverVars, netVars
  <2>2. CASE FeedbackThread
    BY <2>2, <1>1, <1>4
    DEF FeedbackThread, RecvFin, SenderHello, loopVars, receiverVars, netVars
  <2>3. CASE Receiver
    BY <2>3, <1>1, <1>5, <1>6
    DEF Receiver, SendFeedback, ReceiverFinish, ReceiverHello, ReceiverAbort,
        loopVars, threadVars, netVars
  <2>4. CASE Environment
    BY <2>4, <1>1, <1>7
    DEF Environment, SenderCrash, ReceiverCrash, loopVars, threadVars,
        receiverVars, netVars
  <2>5. CASE UNCHANGED vars
    BY <2>5, <1>1 DEF vars, loopVars, threadVars, receiverVars, netVars
  <2>6. QED
    BY <2>1, <2>2, <2>3, <2>4, <2>5 DEF Next

\* A set of blocks grows by at most one with one more element.
LEMMA OneMoreBlock ==
    ASSUME NEW S \in SUBSET Block, NEW b \in Block
    PROVE  Cardinality(S \cup {b}) <= Cardinality(S) + 1
<1>1. IsFiniteSet(S) /\ Cardinality(S) \in Nat
  BY BlockSets
<1>2. Cardinality(S \cup {b}) = IF b \in S THEN Cardinality(S) ELSE Cardinality(S) + 1
  BY <1>1, FS_AddElement
<1>3. QED
  BY <1>1, <1>2

LEMMA SmallerSet ==
    ASSUME NEW S \in SUBSET Block, NEW T \in SUBSET S
    PROVE  Cardinality(T) <= Cardinality(S)
BY BlockSets, FS_Subset

\* The block that enters an open window, in AdmitSource and in a cancelled
\* burst, keeps the window within its bound.
LEMMA AdmitKeeps ==
    ASSUME TypeOK, WindowOpen, active' = active \cup {next}
    PROVE  Cardinality(active') <= ActiveBlocks
<1>1. next \in Block /\ active \in SUBSET Block /\ Cardinality(active) \in Nat
  BY NextIsBlock, BlockSets DEF TypeOK
<1>2. Cardinality(active) < ActiveBlocks
  BY DEF WindowOpen
<1>3. Cardinality(active \cup {next}) <= Cardinality(active) + 1
  BY <1>1, OneMoreBlock
<1>4. Cardinality(active \cup {next}) \in Nat
  BY <1>1, BlockSets
<1>5. QED
  BY <1>1, <1>2, <1>3, <1>4, ConstantsAssumption

\* What was put on the wire stays in the window until it is completed.
LEMMA WindowShapeStep ==
    ASSUME TypeOK, WindowShape, [Next]_vars
    PROVE  WindowShape'
<1> USE ConstantsAssumption
<1>1. CASE UNCHANGED <<pc, sender, snap, next, active, completed, sent, slots>>
  BY <1>1 DEF WindowShape
<1>2. CASE LoopTop
  <2>1. Cardinality(active') <= ActiveBlocks
    <3>1. Cardinality(active \ Reaped) <= Cardinality(active)
      BY SmallerSet DEF TypeOK
    <3>2. Cardinality(active) \in Nat /\ Cardinality(active \ Reaped) \in Nat
      BY BlockSets DEF TypeOK
    <3>3. QED
      BY <1>2, <3>1, <3>2 DEF LoopTop, WindowShape
  <2>2. active' \cup completed' = active \cup completed /\ active' \subseteq active
    BY <1>2 DEF LoopTop, Reaped, threadVars
  <2>3. \A b \in 0 .. next' - 1 : b \in active' \cup snap'.completed
    BY <1>2, <2>2 DEF LoopTop, Reaped, WindowShape, threadVars
  <2>4. QED
    BY <1>2, <2>1, <2>2, <2>3 DEF LoopTop, WindowShape, receiverVars
<1>3. CASE AdmitSource
  <2>1. Cardinality(active') <= ActiveBlocks
    BY <1>3, AdmitKeeps DEF AdmitSource
  <2>2. \A b \in 0 .. next' - 1 : b = next \/ b \in 0 .. next - 1
    BY <1>3 DEF AdmitSource, TypeOK
  <2>3. \A b \in Block : sent'[b] > 0 => b = next \/ sent[b] > 0
    BY <1>3 DEF AdmitSource, TypeOK
  <2>4. \A b \in slots : sent'[b] > 0
    BY <1>3 DEF AdmitSource, TypeOK, WindowShape
  <2>5. \A b \in Block : b \in active' \/ sent'[b] > 0 => b < next'
    <3>1. \A b \in Block : b \in active' \/ sent'[b] > 0 => b = next \/ b < next
      BY <1>3, <2>3 DEF AdmitSource, SenderAt, WindowShape
    <3>2. next' = next + 1 /\ next \in Int /\ \A b \in Block : b \in Int
      BY <1>3 DEF AdmitSource, TypeOK, Block
    <3>3. QED
      BY <3>1, <3>2
  <2>6. QED
    BY <1>3, <2>1, <2>2, <2>3, <2>4, <2>5
    DEF AdmitSource, SenderAt, WindowShape, threadVars, receiverVars
<1>4. ASSUME NEW more \in [Block -> 0 .. MaxEsi - K],
             RepairTick(more) \/ CancelWhileRepairing(more)
      PROVE  WindowShape'
  <2>0. /\ Repair(more) /\ SenderAt("admit")
        /\ sender' = sender \/ sender' = "aborted"
    BY <1>4 DEF RepairTick, CancelWhileRepairing, Repair
  <2>1. \A b \in Block : sent'[b] > 0 => sent[b] > 0 \/ b \in active
    BY <2>0 DEF Repair, Candidates, TypeOK
  <2>2. \A b \in slots : sent'[b] > 0
    BY <2>0 DEF Repair, WindowShape, TypeOK
  <2>3. sender' = "run" => \A b \in Block : b \in active' \/ sent'[b] > 0 => b < next'
    BY <2>0, <2>1 DEF Repair, WindowShape
  <2>4. QED
    BY <2>0, <2>1, <2>2, <2>3 DEF Repair, SenderAt, WindowShape, threadVars, receiverVars
<1>5. ASSUME NEW n \in 0 .. K + InitialRepair, CancelWhileSending(n)
      PROVE  WindowShape'
  <2>1. Cardinality(active') <= ActiveBlocks
    BY <1>5, AdmitKeeps DEF CancelWhileSending
  <2>2. \A b \in Block : sent'[b] > 0 => b = next \/ sent[b] > 0
    BY <1>5 DEF CancelWhileSending, TypeOK
  <2>3. next \notin slots /\ \A b \in slots : sent'[b] > 0
    BY <1>5 DEF CancelWhileSending, SenderAt, WindowShape, TypeOK
  <2>4. QED
    BY <1>5, <2>1, <2>2, <2>3
    DEF CancelWhileSending, SenderAt, WindowShape, threadVars, receiverVars
<1>6. ASSUME NEW i \in 1 .. Len(fbNet), ApplyFeedback(i)
      PROVE  WindowShape'
  BY <1>6 DEF ApplyFeedback, WindowShape, loopVars, receiverVars
<1>7. ASSUME NEW b \in Block, NEW e \in Esi, DeliverData(b, e)
      PROVE  WindowShape'
  <2>1. sent[b] > 0
    BY <1>7 DEF DeliverData, Esi, TypeOK
  <2>2. QED
    BY <1>7, <2>1 DEF DeliverData, WindowShape, loopVars, threadVars
<1>8. ASSUME NEW rot, SendFeedback(rot)
      PROVE  WindowShape'
  BY <1>8 DEF SendFeedback, WindowShape, loopVars, threadVars
<1>9. CASE NoRepair \/ LoopEnd \/ SenderExitFin \/ SenderAbort \/ SenderCrash
  BY <1>9
  DEF NoRepair, LoopEnd, SenderExitFin, SenderAbort, SenderCrash, SenderAt, WindowShape,
      threadVars, receiverVars
<1>10. QED
  <2>1. CASE SendLoop
    BY <2>1, <1>2, <1>3, <1>4, <1>5, <1>9 DEF SendLoop
  <2>2. CASE FeedbackThread
    BY <2>2, <1>1, <1>6
    DEF FeedbackThread, RecvFin, SenderHello, loopVars, receiverVars
  <2>3. CASE Receiver
    BY <2>3, <1>1, <1>7, <1>8
    DEF Receiver, ReceiverFinish, ReceiverHello, ReceiverAbort, loopVars, threadVars
  <2>4. CASE Environment
    BY <2>4, <1>1, <1>9
    DEF Environment, LoseFeedback, ReceiverCrash, loopVars,
        threadVars, receiverVars
  <2>5. CASE UNCHANGED vars
    BY <2>5, <1>1 DEF vars, loopVars, threadVars, receiverVars
  <2>6. QED
    BY <2>1, <2>2, <2>3, <2>4, <2>5 DEF Next

\* Each sign of success is given by a step that finds the last block done.
LEMMA EndShapeStep ==
    ASSUME TypeOK, Soundness, WindowShape, EndShape, [Next]_vars
    PROVE  EndShape'
<1>1. CASE UNCHANGED <<finNet, clientFin, receiver, sender, done>>
  BY <1>1 DEF EndShape
<1>2. CASE LoopEnd
  <2>1. ASSUME AllCompleted \/ TailIdle
        PROVE  done = Block
    <3>1. snap.completed = Block
      <4>1. CASE AllCompleted
        BY <4>1, BlockSets DEF AllCompleted, TypeOK
      <4>2. CASE TailIdle
        <5>1. next = TotalBlocks /\ active = {}
          BY <4>2, ConstantsAssumption DEF TailIdle, TypeOK
        <5>2. \A b \in 0 .. next - 1 : b \in active \cup snap.completed
          BY <1>2 DEF LoopEnd, SenderAt, WindowShape
        <5>3. QED
          BY <5>1, <5>2 DEF Block, TypeOK
      <4>3. QED
        BY <2>1, <4>1, <4>2
    <3>2. QED
      BY <3>1 DEF Soundness, TypeOK
  <2>2. QED
    BY <1>2, <2>1 DEF LoopEnd, EndShape, threadVars, receiverVars, netVars
<1>3. CASE SenderExitFin
  BY <1>3 DEF SenderExitFin, EndShape, threadVars, receiverVars, netVars
<1>4. CASE \/ SenderAbort \/ SenderCrash
           \/ \E n \in 0 .. K + InitialRepair : CancelWhileSending(n)
           \/ \E more \in [Block -> 0 .. MaxEsi - K] : CancelWhileRepairing(more)
  BY <1>4
  DEF SenderAbort, SenderCrash, CancelWhileSending, CancelWhileRepairing, Repair,
      EndShape, threadVars, receiverVars, netVars
<1>5. CASE RecvFin
  BY <1>5 DEF RecvFin, EndShape, loopVars, receiverVars, netVars
<1>6. ASSUME NEW b \in Block, NEW e \in Esi, DeliverData(b, e)
      PROVE  EndShape'
  BY <1>6 DEF DeliverData, EndShape, TypeOK, loopVars, threadVars, netVars
<1>7. ASSUME NEW rot, ReceiverFinish(rot)
      PROVE  EndShape'
  BY <1>7 DEF ReceiverFinish, BlocksMissing, EndShape, loopVars, threadVars
<1>8. CASE ReceiverAbort
  BY <1>8 DEF ReceiverAbort, BlocksMissing, EndShape, loopVars, threadVars, netVars
<1>9. CASE ReceiverCrash
  BY <1>9 DEF ReceiverCrash, EndShape, loopVars, threadVars, netVars
<1>10. QED
  <2>1. CASE SendLoop
    BY <2>1, <1>1, <1>2, <1>3, <1>4
    DEF SendLoop, LoopTop, AdmitSource, RepairTick, CancelWhileRepairing, Repair,
        NoRepair, threadVars,
        receiverVars, netVars
  <2>2. CASE FeedbackThread
    BY <2>2, <1>1, <1>5
    DEF FeedbackThread, ApplyFeedback, SenderHello, loopVars, receiverVars, netVars
  <2>3. CASE Receiver
    BY <2>3, <1>1, <1>6, <1>7, <1>8
    DEF Receiver, SendFeedback, ReceiverHello, loopVars, threadVars, netVars
  <2>4. CASE Environment
    BY <2>4, <1>1, <1>4, <1>9
    DEF Environment, LoseFeedback, loopVars, threadVars, receiverVars
  <2>5. CASE UNCHANGED vars
    BY <2>5, <1>1 DEF vars, loopVars, threadVars, receiverVars, netVars
  <2>6. QED
    BY <2>1, <2>2, <2>3, <2>4, <2>5 DEF Next

\* Honesty of an item survives being learned, and says nothing when absent.
LEMMA LearnHonest ==
    ASSUME NEW b, NEW k \in [unique : Nat, failed : BOOLEAN], NEW item \in Item,
           Honest(b, k), Honest(b, item)
    PROVE  Honest(b, Learn(k, item))
BY ConstantsAssumption DEF Honest, Learn, Item

LEMMA NoItemHonest == \A b : Honest(b, NoItem)
BY ConstantsAssumption DEF Honest, NoItem

\* A slot with K + RepairMargin symbols of an undecoded block reports that
\* decoding failed: the margin of the sender is not below the receiver's,
\* and the source symbols alone are fewer than the margin asks for.
LEMMA ItemOfHonest ==
    ASSUME TypeOK, NEW b \in Block
    PROVE  Honest(b, ItemOf(b))
<1>1. Cardinality(rx[b]) \in Nat
  BY SymbolSets DEF TypeOK
<1>2. Cardinality(Source) = K
  <2>1. 0 \in Int /\ K - 1 \in Int
    BY ConstantsAssumption
  <2>2. Cardinality(0 .. K - 1) = IF 0 > K - 1 THEN 0 ELSE K - 1 - 0 + 1
    BY <2>1, FS_Interval
  <2>3. QED
    BY <2>2, ConstantsAssumption DEF Source
<1>3. CASE b \in done \/ Cardinality(rx[b]) < K + RepairMargin
  BY <1>3 DEF Honest, ItemOf
<1>4. CASE b \notin done /\ ~(Cardinality(rx[b]) < K + RepairMargin)
  <2>1. Cardinality(rx[b]) >= K + FailMargin /\ Cardinality(rx[b]) # K
    BY <1>1, <1>4, ConstantsAssumption
  <2>2. DecodeFailed(rx[b])
    BY <1>2, <2>1 DEF DecodeFailed
  <2>3. QED
    BY <1>4, <2>2 DEF Honest, ItemOf
<1>5. QED
  BY <1>3, <1>4

LEMMA PacketHonest ==
    ASSUME TypeOK, NEW rot, NEW b \in Block
    PROVE  Honest(b, FeedbackPacket(rot).open[b])
BY ItemOfHonest, NoItemHonest DEF FeedbackPacket

\* Whatever the loop, the thread and the network hold of an open block says
\* that it needs repair.
LEMMA HonestStep ==
    ASSUME TypeOK, ItemsHonest, [Next]_vars
    PROVE  ItemsHonest'
<1> SUFFICES ASSUME NEW b \in Block
             PROVE  /\ Honest(b, openRx[b])' /\ Honest(b, snap.open[b])'
                    /\ Honest(b, known[b])'
                    /\ \A p \in InFlight' : Honest(b, p.open[b])'
  BY DEF ItemsHonest
<1>0. /\ Honest(b, openRx[b]) /\ Honest(b, snap.open[b]) /\ Honest(b, known[b])
      /\ \A p \in InFlight : Honest(b, p.open[b])
  BY DEF ItemsHonest
<1>1. CASE UNCHANGED <<openRx, snap, known, fbNet, done>>
  BY <1>0, <1>1 DEF Honest, InFlight
<1>2. CASE LoopTop
  BY <1>0, <1>2 DEF LoopTop, Honest, InFlight, threadVars, receiverVars, netVars
<1>3. CASE LoopEnd
  <2>1. NoSnap.open[b] = NoItem
    BY DEF NoSnap, NoItems
  <2>2. Honest(b, NoItem)
    BY NoItemHonest
  <2>3. QED
    BY <1>0, <1>3, <2>1, <2>2
    DEF LoopEnd, Honest, InFlight, threadVars, receiverVars, netVars
<1>4. ASSUME NEW more \in [Block -> 0 .. MaxEsi - K], Repair(more)
      PROVE  /\ Honest(b, openRx[b])' /\ Honest(b, snap.open[b])'
             /\ Honest(b, known[b])'
             /\ \A p \in InFlight' : Honest(b, p.open[b])'
  <2>1. Honest(b, Learn(known[b], snap.open[b]))
    BY <1>0, LearnHonest DEF TypeOK
  <2>2. known'[b] = Learn(known[b], snap.open[b]) \/ known'[b] = known[b]
    BY <1>4 DEF Repair
  <2>3. QED
    BY <1>0, <1>4, <2>1, <2>2
    DEF Repair, Honest, InFlight, threadVars, receiverVars, netVars
<1>5. ASSUME NEW i \in 1 .. Len(fbNet), ApplyFeedback(i)
      PROVE  /\ Honest(b, openRx[b])' /\ Honest(b, snap.open[b])'
             /\ Honest(b, known[b])'
             /\ \A p \in InFlight' : Honest(b, p.open[b])'
  <2>1. Honest(b, fbNet[i].open[b])
    BY <1>0 DEF InFlight
  <2>2. openRx'[b] \in {NoItem, fbNet[i].open[b], openRx[b]}
    BY <1>5 DEF ApplyFeedback, MergedOpen
  <2>3. Honest(b, openRx'[b])
    BY <1>0, <2>1, <2>2, NoItemHonest
  <2>4. QED
    BY <1>0, <1>5, <2>3 DEF ApplyFeedback, Honest, InFlight, loopVars, receiverVars
<1>6. ASSUME NEW c \in Block, NEW e \in Esi, DeliverData(c, e)
      PROVE  /\ Honest(b, openRx[b])' /\ Honest(b, snap.open[b])'
             /\ Honest(b, known[b])'
             /\ \A p \in InFlight' : Honest(b, p.open[b])'
  <2>1. done \subseteq done'
    BY <1>6 DEF DeliverData
  <2>2. QED
    BY <1>0, <1>6, <2>1 DEF DeliverData, Honest, InFlight, loopVars, threadVars, netVars
<1>7. ASSUME NEW rot, Transmit(FeedbackPacket(rot)),
             UNCHANGED <<openRx, snap, known, done>>
      PROVE  /\ Honest(b, openRx[b])' /\ Honest(b, snap.open[b])'
             /\ Honest(b, known[b])'
             /\ \A p \in InFlight' : Honest(b, p.open[b])'
  <2>1. InFlight' \subseteq InFlight \cup {FeedbackPacket(rot)}
    BY <1>7, PacketType, TransmitKeeps DEF TypeOK
  <2>2. Honest(b, FeedbackPacket(rot).open[b])
    BY PacketHonest
  <2>3. \A p \in InFlight' : Honest(b, p.open[b])
    BY <1>0, <2>1, <2>2
  <2>4. QED
    BY <1>0, <1>7, <2>3 DEF Honest
<1>8. ASSUME NEW i \in 1 .. Len(fbNet), LoseFeedback(i)
      PROVE  /\ Honest(b, openRx[b])' /\ Honest(b, snap.open[b])'
             /\ Honest(b, known[b])'
             /\ \A p \in InFlight' : Honest(b, p.open[b])'
  <2>1. InFlight' \subseteq InFlight
    BY <1>8, LoseKeeps DEF TypeOK
  <2>2. \A p \in InFlight' : Honest(b, p.open[b])
    BY <1>0, <2>1
  <2>3. QED
    BY <1>0, <1>8, <2>2 DEF LoseFeedback, Honest, loopVars, threadVars, receiverVars
<1>9. QED
  <2>1. CASE SendLoop
    BY <2>1, <1>1, <1>2, <1>3, <1>4
    DEF SendLoop, AdmitSource, NoRepair, SenderExitFin, SenderAbort,
        CancelWhileSending, RepairTick, CancelWhileRepairing, threadVars, receiverVars, netVars
  <2>2. CASE FeedbackThread
    BY <2>2, <1>1, <1>5
    DEF FeedbackThread, RecvFin, SenderHello, loopVars, receiverVars, netVars
  <2>3. CASE Receiver
    BY <2>3, <1>1, <1>6, <1>7
    DEF Receiver, SendFeedback, ReceiverFinish, ReceiverHello, ReceiverAbort,
        loopVars, threadVars, netVars
  <2>4. CASE Environment
    BY <2>4, <1>1, <1>8
    DEF Environment, SenderCrash, ReceiverCrash, loopVars, threadVars,
        receiverVars, netVars
  <2>5. CASE UNCHANGED vars
    BY <2>5, <1>1 DEF vars, loopVars, threadVars, receiverVars, netVars
  <2>6. QED
    BY <2>1, <2>2, <2>3, <2>4, <2>5 DEF Next

\* The invariant holds at the start: nothing is sent, done or in flight.
LEMMA ConsistentInit == Init => Consistent
<1> SUFFICES ASSUME Init PROVE Consistent
  OBVIOUS
<1>1. InFlight = {}
  BY DEF Init, SenderInit, ReceiverInit, NetInit, InFlight
<1>2. Soundness
  BY <1>1 DEF Init, SenderInit, ReceiverInit, NetInit, NoSnap, Soundness
<1>3. WindowShape
  <2>1. Cardinality(active) = 0
    BY FS_EmptySet DEF Init, SenderInit, ReceiverInit, NetInit
  <2>2. QED
    BY <2>1, ConstantsAssumption DEF Init, SenderInit, ReceiverInit, NetInit, WindowShape
<1>4. EndShape
  BY DEF Init, SenderInit, ReceiverInit, NetInit, EndShape
<1>5. ItemsHonest
  <2>1. \A b \in Block : Honest(b, [unique |-> 0, failed |-> FALSE])
    BY ConstantsAssumption DEF Honest
  <2>2. QED
    BY <1>1, <2>1, NoItemHonest DEF Init, SenderInit, ReceiverInit, NetInit, NoSnap, NoItems, ItemsHonest
<1>6. QED
  BY <1>2, <1>3, <1>4, <1>5 DEF Consistent

\* The inductive invariant of the transfer.
THEOREM Invariance == Spec => [](TypeOK /\ Consistent)
<1>1. Init => TypeOK /\ Consistent
  BY TypeInit, ConsistentInit
<1>2. TypeOK /\ Consistent /\ [Next]_vars => (TypeOK /\ Consistent)'
  BY TypeStep, SoundnessStep, WindowShapeStep, EndShapeStep, HonestStep DEF Consistent
<1>3. QED
  BY <1>1, <1>2, PTL DEF Spec

\* Spec => []Consistent, the invariant the runs check.
THEOREM ConsistentAlways == Spec => []Consistent
BY Invariance, PTL

-----------------------------------------------------------------------------
(* What the invariant implies *)

\* The sender never takes a block for completed that the receiver lacks.
THEOREM NoFalseCompletion == Spec => []CompletedIsDecoded
<1>1. Consistent => CompletedIsDecoded
  BY DEF Consistent, Soundness, CompletedIsDecoded
<1>2. QED
  BY <1>1, Invariance, PTL

\* No admitted block leaves the window undelivered.
THEOREM NothingLost == Spec => []NoBlockLost
<1>1. Consistent => NoBlockLost
  BY DEF Consistent, WindowShape, NoBlockLost
<1>2. QED
  BY <1>1, Invariance, PTL

\* The receiver's memory for open blocks is bounded by the sender's window.
THEOREM ReceiverMemoryBounded == Spec => []UndecodedSlotsBounded
<1>1. TypeOK /\ Consistent => UndecodedSlotsBounded
  <2> SUFFICES ASSUME TypeOK, Consistent PROVE UndecodedSlotsBounded
    OBVIOUS
  <2>1. slots \ done \subseteq active
    BY DEF TypeOK, Consistent, WindowShape, Soundness
  <2>2. active \in SUBSET Block /\ slots \ done \in SUBSET Block
    BY DEF TypeOK
  <2>3. Cardinality(slots \ done) <= Cardinality(active)
    BY <2>1, <2>2, SmallerSet
  <2>4. Cardinality(slots \ done) \in Nat /\ Cardinality(active) \in Nat
    BY <2>2, BlockSets
  <2>5. Cardinality(active) <= ActiveBlocks
    BY DEF Consistent, WindowShape
  <2>6. QED
    BY <2>3, <2>4, <2>5, ConstantsAssumption DEF UndecodedSlotsBounded
<1>2. QED
  BY <1>1, Invariance, PTL

\* A sender that reports success has delivered the whole file.
THEOREM SuccessIsDelivery == Spec => []DoneMeansDelivered
<1>1. Consistent => DoneMeansDelivered
  BY DEF Consistent, EndShape, DoneMeansDelivered
<1>2. QED
  BY <1>1, Invariance, PTL

\* The repair loop never stops serving an undecoded block of the window.
THEOREM RepairGoesOn == Spec => []RepairNeverStarves
<1>1. TypeOK /\ Consistent => RepairNeverStarves
  <2> SUFFICES ASSUME TypeOK, Consistent, NEW b \in active \ done
               PROVE  NeedsRepair(Learn(known[b], snap.open[b]))
    BY DEF RepairNeverStarves
  <2>1. /\ known[b] \in [unique : Nat, failed : BOOLEAN]
        /\ snap.open[b] \in Item
        /\ Honest(b, known[b]) /\ Honest(b, snap.open[b])
    BY DEF TypeOK, Consistent, ItemsHonest
  <2>2. Honest(b, Learn(known[b], snap.open[b]))
    BY <2>1, LearnHonest
  <2>3. QED
    BY <2>2 DEF Honest, NeedsRepair
<1>2. QED
  BY <1>1, Invariance, PTL

\* Blocks leave the window only after the receiver decoded them.
THEOREM ReapIsSafe == Spec => ReapOnlyDecoded
<1>1. TypeOK /\ Consistent /\ [Next]_vars => [active \ active' \subseteq done]_active
  <2> SUFFICES ASSUME Consistent, Next
               PROVE  active \ active' \subseteq done
    BY DEF vars, loopVars
  <2>1. active \ active' \subseteq Reaped
    BY DEF Next, SendLoop, LoopTop, AdmitSource, RepairTick, CancelWhileRepairing, Repair,
        NoRepair, LoopEnd,
           SenderExitFin, SenderAbort, CancelWhileSending, FeedbackThread,
           ApplyFeedback, RecvFin, SenderHello, Receiver, DeliverData,
           SendFeedback, ReceiverFinish, ReceiverHello, ReceiverAbort,
           Environment, LoseFeedback, SenderCrash, ReceiverCrash,
           loopVars, threadVars, receiverVars, netVars
  <2>2. QED
    BY <2>1 DEF Reaped, Consistent, Soundness
<1>2. QED
  BY <1>1, Invariance, PTL DEF Spec, ReapOnlyDecoded

\* The sender's table of open blocks stays under its cap: the entries above
\* it are evicted in the step that merges a datagram.
THEOREM OpenTableStaysBounded == Spec => []OpenTableBounded
<1>1. Init => OpenTableBounded
  <2>1. Listed(NoItems) = {}
    BY DEF Listed, NoItems
  <2>2. Cardinality(Listed(NoItems)) = 0
    BY <2>1, FS_EmptySet, Zenon
  <2>3. OpenCap \in Nat
    BY ConstantsAssumption
  <2>4. QED
    BY <2>2, <2>3 DEF Init, SenderInit, ReceiverInit, NetInit, OpenTableBounded
<1>2. TypeOK /\ OpenTableBounded /\ [Next]_vars => OpenTableBounded'
  <2> SUFFICES ASSUME TypeOK, OpenTableBounded, [Next]_vars
               PROVE  OpenTableBounded'
    OBVIOUS
  <2>1. CASE UNCHANGED openRx
    BY <2>1 DEF OpenTableBounded, Listed
  <2>2. ASSUME NEW i \in 1 .. Len(fbNet), ApplyFeedback(i)
        PROVE  OpenTableBounded'
    <3> DEFINE merged == MergedOpen(fbNet[i])
    <3>1. PICK drop \in SUBSET Listed(merged) :
             /\ Cardinality(drop) = Evicted(merged)
             /\ openRx' = [b \in Block |-> IF b \in drop THEN NoItem ELSE merged[b]]
      BY <2>2 DEF ApplyFeedback, Listed
    <3>2. Listed(openRx') = Listed(merged) \ drop
      BY <3>1 DEF Listed
    <3>3. Listed(merged) \in SUBSET Block
      BY DEF Listed
    <3>4. /\ Cardinality(Listed(merged)) \in Nat
          /\ Cardinality(Listed(merged) \ drop) = Cardinality(Listed(merged)) - Cardinality(drop)
      <4>1. IsFiniteSet(Listed(merged)) /\ Cardinality(Listed(merged)) \in Nat
        BY <3>3, BlockSets
      <4>2. Listed(merged) \cap drop = drop
        BY <3>1
      <4>3. QED
        BY <4>1, <4>2, FS_Difference, Zenon
    <3>5. Evicted(merged) = LET excess == Cardinality(Listed(merged)) - OpenCap
                            IN  IF excess > 0 THEN excess ELSE 0
      BY DEF Evicted
    <3> HIDE DEF merged
    <3>6. Cardinality(Listed(merged) \ drop) <= OpenCap
      BY <3>1, <3>4, <3>5, ConstantsAssumption
    <3>7. QED
      BY <3>2, <3>6, Zenon DEF OpenTableBounded
  <2>3. QED
    BY <2>1, <2>2
    DEF Next, SendLoop, LoopTop, AdmitSource, RepairTick, CancelWhileRepairing, Repair,
        NoRepair, LoopEnd,
        SenderExitFin, SenderAbort, CancelWhileSending, FeedbackThread, RecvFin,
        SenderHello, Receiver, DeliverData, SendFeedback, ReceiverFinish,
        ReceiverHello, ReceiverAbort, Environment, LoseFeedback, SenderCrash,
        ReceiverCrash, vars, loopVars, threadVars, receiverVars, netVars
<1>3. QED
  BY <1>1, <1>2, TypeCorrect, PTL DEF Spec

-----------------------------------------------------------------------------
(* Refinement *)

\* Every step of the transfer is a step of FileDelivery or leaves its
\* variables alone.
LEMMA DeliveryStep ==
    ASSUME TypeOK, Consistent, [Next]_vars
    PROVE  [Delivery!Next]_(Delivery!vars)
<1>1. CASE UNCHANGED <<done, completed, sender, receiver>>
  BY <1>1 DEF Delivery!vars
<1>2. CASE LoopEnd
  <2>1. CASE sender' = "done"
    <3>1. done' = Block /\ receiver' # "aborted"
      BY <2>1, EndShapeStep DEF Consistent, EndShape
    <3>2. Delivery!SourceEnds("done")
      BY <1>2, <2>1, <3>1
      DEF LoopEnd, SenderAt, Delivery!SourceEnds, threadVars, receiverVars
    <3>3. QED
      BY <3>2 DEF Delivery!Next
  <2>2. CASE sender' = sender
    BY <1>1, <1>2, <2>2 DEF LoopEnd, threadVars, receiverVars
  <2>3. QED
    BY <1>2, <2>1, <2>2 DEF LoopEnd
<1>3. CASE SenderExitFin
  <2>1. Delivery!SourceEnds("done")
    BY <1>3
    DEF SenderExitFin, SenderAt, Consistent, EndShape, Delivery!SourceEnds,
        threadVars, receiverVars
  <2>2. QED
    BY <2>1 DEF Delivery!Next
<1>4. CASE \/ SenderAbort
           \/ \E n \in 0 .. K + InitialRepair : CancelWhileSending(n)
           \/ \E more \in [Block -> 0 .. MaxEsi - K] : CancelWhileRepairing(more)
  <2>1. Delivery!SourceEnds("aborted")
    BY <1>4
    DEF SenderAbort, CancelWhileSending, CancelWhileRepairing, Repair, SenderAt,
        Delivery!SourceEnds, threadVars, receiverVars
  <2>2. QED
    BY <2>1 DEF Delivery!Next
<1>5. CASE SenderCrash
  <2>1. Delivery!SourceEnds("crashed")
    BY <1>5 DEF SenderCrash, Delivery!SourceEnds, threadVars, receiverVars
  <2>2. QED
    BY <2>1 DEF Delivery!Next
<1>6. ASSUME NEW i \in 1 .. Len(fbNet), ApplyFeedback(i)
      PROVE  Delivery!Learn
  <2>1. completed' \subseteq done
    BY <1>6, SoundnessStep
    DEF Consistent, Soundness, ApplyFeedback, loopVars, receiverVars
  <2>2. QED
    BY <1>6, <2>1
    DEF ApplyFeedback, ThreadRuns, Delivery!Learn, loopVars, receiverVars
<1>7. ASSUME NEW b \in Block, NEW e \in Esi, DeliverData(b, e)
      PROVE  [Delivery!Next]_(Delivery!vars)
  <2>1. CASE done' = done
    BY <1>1, <1>7, <2>1 DEF DeliverData, loopVars, threadVars
  <2>2. CASE done' # done
    <3>1. Delivery!Deliver(b)
      BY <1>7, <2>2 DEF DeliverData, Delivery!Deliver, loopVars, threadVars
    <3>2. QED
      BY <3>1 DEF Delivery!Next
  <2>3. QED
    BY <2>1, <2>2
<1>8. ASSUME NEW rot, ReceiverFinish(rot)
      PROVE  Delivery!SinkEnds("done")
  BY <1>8
  DEF ReceiverFinish, BlocksMissing, Delivery!SinkEnds, loopVars, threadVars
<1>9. CASE ReceiverAbort
  <2>1. Delivery!SinkEnds("aborted")
    BY <1>9
    DEF ReceiverAbort, BlocksMissing, Delivery!SinkEnds, loopVars, threadVars
  <2>2. QED
    BY <2>1 DEF Delivery!Next
<1>10. CASE ReceiverCrash
  <2>1. Delivery!SinkEnds("crashed")
    BY <1>10 DEF ReceiverCrash, Delivery!SinkEnds, loopVars, threadVars
  <2>2. QED
    BY <2>1 DEF Delivery!Next
<1>11. QED
  <2>1. CASE SendLoop
    BY <2>1, <1>1, <1>2, <1>3, <1>4
    DEF SendLoop, LoopTop, AdmitSource, RepairTick, CancelWhileRepairing, Repair,
        NoRepair, threadVars, receiverVars
  <2>2. CASE FeedbackThread
    BY <2>2, <1>1, <1>6
    DEF FeedbackThread, RecvFin, SenderHello, loopVars, receiverVars, Delivery!Next
  <2>3. CASE Receiver
    BY <2>3, <1>1, <1>7, <1>8, <1>9
    DEF Receiver, SendFeedback, ReceiverHello, loopVars, threadVars, Delivery!Next
  <2>4. CASE Environment
    BY <2>4, <1>1, <1>5, <1>10
    DEF Environment, LoseFeedback, loopVars, threadVars, receiverVars
  <2>5. CASE UNCHANGED vars
    BY <2>5, <1>1 DEF vars, loopVars, threadVars, receiverVars
  <2>6. QED
    BY <2>1, <2>2, <2>3, <2>4, <2>5 DEF Next

\* The transfer, whatever the network does, implements FileDelivery.
THEOREM TransferImplementsDelivery == Spec => ImplementsDelivery
<1>1. Init => Delivery!Init
  BY DEF Init, SenderInit, ReceiverInit, NetInit, Delivery!Init
<1>2. TypeOK /\ Consistent /\ [Next]_vars => [Delivery!Next]_(Delivery!vars)
  BY DeliveryStep
<1>3. QED
  BY <1>1, <1>2, Invariance, PTL DEF Spec, ImplementsDelivery, Delivery!Spec

-----------------------------------------------------------------------------
(* The lists of a feedback *)

\* A finite set of integers has a greatest element.
LEMMA GreatestElement ==
    ASSUME NEW S, S \subseteq Int, S # {}, IsFiniteSet(S)
    PROVE  \E x \in S : \A y \in S : y <= x
<1> DEFINE Above(x) == {y \in S : y > x}
           F == {Above(x) : x \in S}
<1>1. F \subseteq FiniteSubsetsOf(S)
  <2> SUFFICES ASSUME NEW x \in S PROVE Above(x) \in FiniteSubsetsOf(S)
    OBVIOUS
  <2>1. IsFiniteSet(Above(x)) /\ Above(x) \subseteq S
    BY FS_Subset
  <2>2. QED
    BY <2>1 DEF FiniteSubsetsOf
<1>2. F # {}
  OBVIOUS
<1> HIDE DEF F
<1>3. PICK I \in F : \A J \in F : <<J, I>> \notin StrictSubsetOrdering(S)
  BY <1>1, <1>2, FS_StrictSubsetOrderingWellFounded, WFMin
<1>4. PICK x \in S : I = Above(x)
  BY DEF F
<1>5. ASSUME NEW y \in S, y > x
      PROVE  FALSE
  <2>1. x \in Int /\ y \in Int
    OBVIOUS
  <2>2. Above(y) \subseteq Above(x)
    <3> SUFFICES ASSUME NEW z \in Above(y) PROVE z \in Above(x)
      OBVIOUS
    <3>1. z \in S /\ z > y /\ z \in Int
      OBVIOUS
    <3>2. z > x
      BY <1>5, <2>1, <3>1
    <3>3. QED
      BY <3>1, <3>2
  <2>3. y \in Above(x) /\ y \notin Above(y)
    BY <1>5, <2>1
  <2>4. Above(y) \in SUBSET S /\ Above(x) \in SUBSET S
    OBVIOUS
  <2> HIDE DEF Above
  <2>5. <<Above(y), Above(x)>> \in StrictSubsetOrdering(S)
    BY <2>2, <2>3, <2>4 DEF StrictSubsetOrdering
  <2>6. QED
    BY <1>3, <1>4, <2>5 DEF F
<1>6. \A y \in S : y <= x
  BY <1>5
<1>7. QED
  BY <1>6

\* sorted(S)[:n] holds at most n elements, and some if there are any.
LEMMA LowestFew ==
    ASSUME NEW S, S \subseteq Int, IsFiniteSet(S), NEW n \in Nat
    PROVE  /\ Lowest(S, n) \subseteq S /\ IsFiniteSet(Lowest(S, n))
           /\ Cardinality(Lowest(S, n)) \in Nat /\ Cardinality(Lowest(S, n)) <= n
           /\ S # {} /\ n > 0 => Lowest(S, n) # {}
<1> DEFINE Below(x) == {y \in S : y < x}
           L == Lowest(S, n)
<1>1. L = {x \in S : Cardinality(Below(x)) < n}
  BY DEF Lowest
<1> HIDE DEF L
<1>2. L \subseteq S /\ IsFiniteSet(L) /\ Cardinality(L) \in Nat
  BY <1>1, FS_Subset, FS_CardinalityType
<1>3. Cardinality(L) <= n
  <2> SUFFICES ASSUME Cardinality(L) > n PROVE FALSE
    BY <1>2
  <2>1. L # {}
    <3>1. Cardinality(L) # 0
      BY <1>2
    <3>2. QED
      BY <3>1, FS_EmptySet
  <2>2. PICK m \in L : \A y \in L : y <= m
    BY <1>2, <2>1, GreatestElement
  <2>3. L \ {m} \subseteq Below(m)
    BY <1>2, <2>2
  <2>4. IsFiniteSet(Below(m)) /\ Cardinality(Below(m)) \in Nat
    BY FS_Subset, FS_CardinalityType
  <2>5. Cardinality(L \ {m}) = Cardinality(L) - 1
    BY <1>2, <2>2, FS_RemoveElement
  <2>6. Cardinality(L \ {m}) <= Cardinality(Below(m))
    BY <2>3, <2>4, FS_Subset
  <2>7. Cardinality(Below(m)) < n
    BY <1>1, <2>2
  <2>8. QED
    BY <1>2, <2>4, <2>5, <2>6, <2>7
<1>4. ASSUME S # {}, n > 0 PROVE L # {}
  <2> DEFINE T == {0 - x : x \in S}
  <2>1. T \subseteq Int /\ T # {}
    <3>1. \A x \in S : x \in Int /\ 0 - x \in Int
      OBVIOUS
    <3>2. QED
      BY <1>4, <3>1
  <2>2. IsFiniteSet(T)
    <3> DEFINE f == [x \in S |-> 0 - x]
    <3>1. f \in [S -> T]
      OBVIOUS
    <3>2. \A t \in T : \E x \in S : f[x] = t
      OBVIOUS
    <3> HIDE DEF f, T
    <3>3. f \in Surjection(S, T)
      BY <3>1, <3>2, Zenon DEF Surjection
    <3>4. QED
      BY <3>3, FS_Surjection
  <2> HIDE DEF T
  <2>3. PICK t \in T : \A y \in T : y <= t
    BY <2>1, <2>2, GreatestElement
  <2>4. PICK x \in S : t = 0 - x
    BY DEF T
  <2>5. \A y \in S : 0 - y <= t
    BY <2>3 DEF T
  <2>6. ASSUME NEW y \in Below(x) PROVE FALSE
    BY <2>4, <2>5, <2>6
  <2>7. Below(x) = {}
    BY <2>6
  <2>8. Cardinality(Below(x)) = 0
    BY <2>7, FS_EmptySet
  <2>9. x \in L
    BY <1>1, <1>4, <2>8
  <2>10. QED
    BY <2>9
<1>5. QED
  BY <1>2, <1>3, <1>4 DEF L

\* The open list of a feedback never exceeds its limit, and ghosts, which come
\* first, leave room for a block that still needs repair (merge_open_feedback).
THEOREM OpenListFits ==
    ASSUME NEW incomplete, incomplete \subseteq Int, IsFiniteSet(incomplete),
           NEW ghosts, ghosts \subseteq Int, IsFiniteSet(ghosts),
           NEW limit \in Nat, NEW ghostLimit \in Nat
    PROVE  LET open == MergeOpen(incomplete, ghosts, limit, ghostLimit)
           IN  /\ open \subseteq incomplete \cup ghosts
               /\ IsFiniteSet(open) /\ Cardinality(open) <= limit
               /\ incomplete # {} /\ ghostLimit < limit => open \cap incomplete # {}
<1> DEFINE room == IF ghostLimit < limit THEN ghostLimit ELSE limit
           kept == Lowest(ghosts, room)
           rest == Lowest(incomplete, limit - Cardinality(kept))
<1>1. MergeOpen(incomplete, ghosts, limit, ghostLimit) = kept \cup rest
  BY DEF MergeOpen
<1>2. room \in Nat /\ room <= limit /\ (ghostLimit < limit => room < limit)
  OBVIOUS
<1> HIDE DEF room
<1>3. /\ kept \subseteq ghosts /\ IsFiniteSet(kept)
      /\ Cardinality(kept) \in Nat /\ Cardinality(kept) <= room
  BY <1>2, LowestFew
<1> HIDE DEF kept
<1> DEFINE left == limit - Cardinality(kept)
<1>4. left \in Nat /\ (ghostLimit < limit => left > 0)
  BY <1>2, <1>3
<1>5. rest = Lowest(incomplete, left)
  OBVIOUS
<1> HIDE DEF left, rest
<1>6. /\ rest \subseteq incomplete /\ IsFiniteSet(rest)
      /\ Cardinality(rest) \in Nat /\ Cardinality(rest) <= left
      /\ incomplete # {} /\ left > 0 => rest # {}
  BY <1>4, <1>5, LowestFew
<1>7. /\ IsFiniteSet(kept \cup rest)
      /\ Cardinality(kept \cup rest) <= limit
  <2>1. /\ IsFiniteSet(kept \cup rest) /\ IsFiniteSet(kept \cap rest)
        /\ Cardinality(kept \cup rest)
              = Cardinality(kept) + Cardinality(rest) - Cardinality(kept \cap rest)
    BY <1>3, <1>6, FS_Union, FS_Intersection
  <2>2. Cardinality(kept \cap rest) \in Nat
    BY <2>1, FS_CardinalityType
  <2>3. QED
    BY <1>3, <1>6, <2>1, <2>2 DEF left
<1>8. QED
  BY <1>1, <1>3, <1>4, <1>6, <1>7

LEMMA Division ==
    ASSUME NEW a \in Int, NEW n \in Nat, n > 0
    PROVE  /\ a \div n \in Int /\ a % n \in Int
           /\ a = n * (a \div n) + (a % n) /\ 0 <= a % n /\ a % n < n
  OBVIOUS

LEMMA Remainder ==
    ASSUME NEW n \in Nat, n > 0, NEW k \in Int, NEW r \in Int, 0 <= r, r < n
    PROVE  (n * k + r) % n = r
  OBVIOUS

LEMMA Quotients ==
    ASSUME NEW n \in Nat, n > 0, NEW a \in Nat, NEW b \in Nat, a <= b
    PROVE  0 <= a \div n /\ a \div n <= b \div n
<1> DEFINE p == a \div n
           q == b \div n
<1>1. p \in Int /\ a % n \in Int /\ a = n * p + (a % n) /\ 0 <= a % n /\ a % n < n
  BY Division
<1>2. q \in Int /\ b % n \in Int /\ b = n * q + (b % n) /\ 0 <= b % n /\ b % n < n
  BY Division
<1>3. 0 <= p
  BY <1>1
<1> HIDE DEF p, q
<1>4. p <= q
  <2> SUFFICES ASSUME p >= q + 1 PROVE FALSE
    BY <1>1, <1>2
  <2>1. p - q - 1 \in Nat
    BY <1>1, <1>2
  <2>2. n * (p - q - 1) >= 0
    BY <2>1
  <2>3. n * (p - q - 1) = n * p - n * q - n
    BY <1>1, <1>2
  <2>4. n * p \in Int /\ n * q \in Int
    BY <1>1, <1>2
  <2>5. QED
    BY <1>1, <1>2, <2>2, <2>3, <2>4
<1>5. QED
  BY <1>3, <1>4 DEF p, q

\* The rotation hides no done block: of n runs cut to lists of `limit', each is in
\* one of any n \div limit + 1 feedbacks in a row (block_ids_to_ranges).
THEOREM RotationCovers ==
    ASSUME NEW S, S \subseteq Int, IsFiniteSet(S), NEW limit \in Nat, limit > 0,
           NEW x \in S, NEW first \in Nat
    PROVE  \E rotate \in first .. first + Cardinality(RangeStarts(S)) \div limit :
               x \in DoneRanges(S, limit, rotate)
<1> DEFINE n == Cardinality(RangeStarts(S))
           index == RangeIndex(S, x)
<1>1. n \in Nat /\ index \in Int
  <2>1. /\ RangeStarts(S) \subseteq S
        /\ {s \in RangeStarts(S) : s <= x} \subseteq S
    BY DEF RangeStarts
  <2>2. n \in Nat /\ Cardinality({s \in RangeStarts(S) : s <= x}) \in Nat
    BY <2>1, FS_Subset, FS_CardinalityType
  <2>3. QED
    BY <2>2 DEF RangeIndex
<1>2. \A rotate : x \in DoneRanges(S, limit, rotate)
                     <=> n <= limit \/ (index - rotate * limit) % n < limit
  BY DEF DoneRanges
<1> HIDE DEF n, index
<1>3. CASE n <= limit
  <2>1. n \div limit \in Int /\ 0 <= n \div limit
    BY <1>1, Division, Quotients
  <2>2. first \in first .. first + n \div limit
    BY <2>1
  <2>3. QED
    BY <1>2, <1>3, <2>2 DEF n
<1>4. CASE n > limit
  <2> DEFINE a == index - first * limit
             d == a % n
             c == a \div n
             q == d \div limit
             r == d % limit
             rotate == first + q
  <2>1. first * limit \in Int
    OBVIOUS
  <2>2. a \in Int /\ n > 0
    BY <1>1, <1>4, <2>1
  <2>3. c \in Int /\ d \in Int /\ a = n * c + d /\ 0 <= d /\ d < n
    BY <1>1, <2>2, Division
  <2> HIDE DEF c, d
  <2>4. q \in Int /\ r \in Int /\ d = limit * q + r /\ 0 <= r /\ r < limit
    BY <2>3, Division
  <2>5. 0 <= q /\ q <= n \div limit /\ n \div limit \in Int
    <3>1. d \in Nat /\ d <= n
      BY <1>1, <2>3
    <3>2. QED
      BY <1>1, <3>1, Quotients, Division
  <2> HIDE DEF q, r, a
  <2>6. rotate \in first .. first + n \div limit
    BY <1>1, <2>4, <2>5
  <2>7. index - rotate * limit = n * c + r
    <3>1. rotate * limit = first * limit + limit * q
      BY <2>4
    <3>2. limit * q \in Int /\ n * c \in Int
      BY <1>1, <2>3, <2>4
    <3>3. a = index - first * limit
      BY DEF a
    <3>4. QED
      BY <1>1, <2>1, <2>3, <2>4, <3>1, <3>2, <3>3
  <2>8. (n * c + r) % n = r
    BY <1>1, <1>4, <2>2, <2>3, <2>4, Remainder
  <2>9. (index - rotate * limit) % n < limit
    BY <2>4, <2>7, <2>8
  <2>10. x \in DoneRanges(S, limit, rotate)
    BY <1>2, <2>9
  <2>11. QED
    BY <2>6, <2>10 DEF n
<1>5. QED
  BY <1>1, <1>3, <1>4
=============================================================================
