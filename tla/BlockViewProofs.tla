--------------------------- MODULE BlockViewProofs ---------------------------
(***************************************************************************)
(* What the sender of BlockTransfer sees of an open block never goes back  *)
(* in time, for every number of blocks, limit of the lists, size of the    *)
(* table and number of datagrams in flight.                                *)
(*                                                                         *)
(* ViewMonotone compares two states of the table.  It follows from an      *)
(* order of everything that was ever said of a block: the table, then the  *)
(* datagrams newer than it in the order they were sent, then the slot.     *)
(***************************************************************************)
EXTENDS BlockTransferProofs

Wire == 1 .. Len(fbNet)

\* What datagram i says of block b.
Said(i, b) == fbNet[i].open[b]

\* The slot is ahead of all that was said of it.
SlotAhead ==
    \A b \in Block :
        /\ openRx[b].unique <= Cardinality(rx[b])
        /\ \A i \in Wire : Said(i, b).unique <= Cardinality(rx[b])

\* Later datagrams are ahead of earlier ones, where they list the block.
WireOrdered ==
    \A b \in Block : \A i, j \in Wire :
        i <= j /\ Said(j, b) # NoItem => Said(i, b).unique <= Said(j, b).unique

\* A datagram that may still be applied is ahead of the table.
TableBehind ==
    \A b \in Block : \A i \in Wire :
        i > fbStale /\ Said(i, b) # NoItem => openRx[b].unique <= Said(i, b).unique

ViewInv == SlotAhead /\ WireOrdered /\ TableBehind

-----------------------------------------------------------------------------
(* Facts about types and sequences *)

LEMMA SaidType ==
    ASSUME TypeOK
    PROVE  /\ Len(fbNet) \in Nat
           /\ \A b \in Block : /\ Cardinality(rx[b]) \in Nat
                               /\ openRx[b] \in Item /\ openRx[b].unique \in Int
                               /\ openRx[b].unique >= -1
                               /\ \A i \in Wire : /\ Said(i, b) \in Item
                                                  /\ Said(i, b).unique \in Int
<1>1. Len(fbNet) \in Nat
  BY LenProperties DEF TypeOK
<1>2. ASSUME NEW i \in Wire PROVE fbNet[i] \in Packet
  BY ElementOfSeq DEF TypeOK, Wire
<1>3. QED
  BY <1>1, <1>2, SymbolSets DEF TypeOK, Item, Packet, Said

\* More symbols are not fewer.
LEMMA MoreSymbols ==
    ASSUME NEW S \in SUBSET Esi, NEW T \in SUBSET S
    PROVE  Cardinality(T) <= Cardinality(S)
<1>1. IsFiniteSet(Esi)
  <2>1. 0 \in Int /\ MaxEsi - 1 \in Int
    BY ConstantsAssumption
  <2>2. QED
    BY <2>1, FS_Interval DEF Esi
<1>2. QED
  BY <1>1, FS_Subset

LEMMA RemoveAtShifts ==
    ASSUME NEW S, NEW s \in Seq(S), NEW i \in 1 .. Len(s)
    PROVE  /\ Len(RemoveAt(s, i)) = Len(s) - 1
           /\ \A j \in 1 .. Len(s) - 1 :
                 RemoveAt(s, i)[j] = IF j < i THEN s[j] ELSE s[j + 1]
<1> DEFINE left == SubSeq(s, 1, i - 1)
           right == SubSeq(s, i + 1, Len(s))
<1>1. /\ left \in Seq(S) /\ Len(left) = i - 1
      /\ \A j \in 1 .. i - 1 : left[j] = s[j]
  OBVIOUS
<1>2. /\ right \in Seq(S) /\ Len(right) = Len(s) - i
      /\ \A j \in 1 .. Len(s) - i : right[j] = s[i + j]
  OBVIOUS
<1>3. RemoveAt(s, i) = left \o right
  BY DEF RemoveAt
<1>4. Len(RemoveAt(s, i)) = Len(s) - 1
  BY RemoveAtKeeps, Zenon
<1> HIDE DEF left, right
<1>5. ASSUME NEW j \in 1 .. Len(s) - 1
      PROVE  (left \o right)[j] = IF j < i THEN s[j] ELSE s[j + 1]
  <2>1. CASE j <= i - 1
    BY <1>1, <1>2, <2>1, ConcatProperties
  <2>2. CASE j > i - 1
    <3>1. (left \o right)[j] = right[j - (i - 1)]
      BY <1>1, <1>2, <2>2, ConcatProperties
    <3>2. right[j - (i - 1)] = s[j + 1]
      BY <1>2, <2>2
    <3>3. QED
      BY <2>2, <3>1, <3>2
  <2>3. j <= i - 1 \/ j > i - 1
    OBVIOUS
  <2>4. QED
    BY <2>1, <2>2, <2>3
<1>6. QED
  BY <1>3, <1>4, <1>5

\* A datagram goes to the end of the wire; when it is full the first is lost.
LEMMA TransmitShifts ==
    ASSUME TypeOK, NEW p \in Packet, Transmit(p)
    PROVE  \E d \in {0, 1} :
             /\ Len(fbNet') = Len(fbNet) + 1 - d
             /\ fbNet'[Len(fbNet')] = p
             /\ \A j \in 1 .. Len(fbNet') - 1 :
                    j + d \in Wire /\ fbNet'[j] = fbNet[j + d]
             /\ fbStale' >= fbStale - d
<1>0. /\ MaxFeedback \in Nat \ {0} /\ Len(fbNet) \in Nat
      /\ fbNet \in Seq(Packet) /\ fbStale \in 0 .. Len(fbNet)
  BY ConstantsAssumption, LenProperties DEF TypeOK
<1>1. CASE Len(fbNet) < MaxFeedback
  <2>1. fbNet' = Append(fbNet, p) /\ fbStale' = fbStale
    BY <1>1 DEF Transmit
  <2>2. /\ Len(Append(fbNet, p)) = Len(fbNet) + 1
        /\ Append(fbNet, p)[Len(fbNet) + 1] = p
        /\ \A j \in 1 .. Len(fbNet) : Append(fbNet, p)[j] = fbNet[j]
    BY <1>0, AppendProperties
  <2>3. QED
    BY <1>0, <2>1, <2>2 DEF Wire
<1>2. CASE ~(Len(fbNet) < MaxFeedback)
  <2>1. /\ fbNet' = Append(Tail(fbNet), p)
        /\ fbStale' = IF fbStale > 0 THEN fbStale - 1 ELSE 0
    BY <1>2 DEF Transmit
  <2>2. fbNet # <<>>
    BY <1>0, <1>2
  <2>3. /\ Tail(fbNet) \in Seq(Packet)
        /\ Len(Tail(fbNet)) = Len(fbNet) - 1
        /\ \A j \in 1 .. Len(Tail(fbNet)) : Tail(fbNet)[j] = fbNet[j + 1]
    BY <1>0, <2>2, HeadTailProperties
  <2>4. /\ Len(Append(Tail(fbNet), p)) = Len(Tail(fbNet)) + 1
        /\ Append(Tail(fbNet), p)[Len(Tail(fbNet)) + 1] = p
        /\ \A j \in 1 .. Len(Tail(fbNet)) : Append(Tail(fbNet), p)[j] = Tail(fbNet)[j]
    BY <2>3, AppendProperties
  <2>5. Len(fbNet') = Len(fbNet) /\ fbNet'[Len(fbNet)] = p
    BY <1>0, <2>1, <2>3, <2>4
  <2>6. \A j \in 1 .. Len(fbNet) - 1 : fbNet'[j] = fbNet[j + 1] /\ j + 1 \in Wire
    BY <1>0, <2>1, <2>3, <2>4 DEF Wire
  <2>7. fbStale' >= fbStale - 1
    BY <1>0, <2>1
  <2>8. Len(fbNet') = Len(fbNet) + 1 - 1
    BY <1>0, <2>5
  <2>9. QED
    BY <2>5, <2>6, <2>7, <2>8
<1>3. QED
  BY <1>1, <1>2

-----------------------------------------------------------------------------
(* The invariant *)

LEMMA ViewInit == Init => ViewInv
<1> SUFFICES ASSUME Init PROVE ViewInv
  OBVIOUS
<1>1. Wire = {}
  BY DEF Init, NetInit, Wire
<1>2. \A b \in Block : Cardinality(rx[b]) = 0 /\ openRx[b].unique = -1
  BY FS_EmptySet DEF Init, SenderInit, ReceiverInit, NoItems, NoItem
<1>3. QED
  BY <1>1, <1>2 DEF ViewInv, SlotAhead, WireOrdered, TableBehind

\* A datagram that enters the wire says what the slot holds now.
LEMMA TransmitOrders ==
    ASSUME TypeOK, TypeOK', ViewInv, NEW rot, Transmit(FeedbackPacket(rot)),
           UNCHANGED <<rx, openRx>>
    PROVE  ViewInv'
<1> DEFINE p == FeedbackPacket(rot)
<1>1. p \in Packet
  BY PacketType
<1>2. PICK d \in {0, 1} :
             /\ Len(fbNet') = Len(fbNet) + 1 - d
             /\ fbNet'[Len(fbNet')] = p
             /\ \A j \in 1 .. Len(fbNet') - 1 :
                    j + d \in Wire /\ fbNet'[j] = fbNet[j + d]
             /\ fbStale' >= fbStale - d
  BY <1>1, TransmitShifts
<1>3. \A b \in Block : p.open[b] = NoItem \/ p.open[b].unique = Cardinality(rx[b])
  BY DEF FeedbackPacket, ItemOf
<1>4. \A b \in Block : p.open[b].unique <= Cardinality(rx[b])
  <2>1. \A b \in Block : Cardinality(rx[b]) \in Nat
    BY SaidType
  <2>2. QED
    BY <1>3, <2>1 DEF NoItem
<1> HIDE DEF p
<1>5. /\ Len(fbNet) \in Nat /\ Len(fbNet') \in Nat
      /\ fbStale \in Int /\ fbStale' \in Int
  BY SaidType DEF TypeOK
<1>6. \A j \in Wire' :
        \/ j = Len(fbNet') /\ fbNet'[j] = p
        \/ j < Len(fbNet') /\ j + d \in Wire /\ fbNet'[j] = fbNet[j + d]
  BY <1>2, <1>5 DEF Wire
<1>7. SlotAhead'
  BY <1>4, <1>6 DEF ViewInv, SlotAhead, Said
<1>8. WireOrdered'
  <2> SUFFICES ASSUME NEW b \in Block, NEW i \in Wire', NEW j \in Wire',
                      i <= j, Said(j, b)' # NoItem
               PROVE  Said(i, b)'.unique <= Said(j, b)'.unique
    BY DEF WireOrdered
  <2>1. CASE j = Len(fbNet') /\ fbNet'[j] = p
    <3>1. Said(j, b)'.unique = Cardinality(rx[b])
      BY <1>3, <2>1 DEF Said
    <3>2. Said(i, b)'.unique <= Cardinality(rx[b])
      BY <1>7 DEF SlotAhead
    <3>3. QED
      BY <3>1, <3>2
  <2>2. CASE j < Len(fbNet') /\ j + d \in Wire /\ fbNet'[j] = fbNet[j + d]
    <3>1. i + d \in Wire /\ fbNet'[i] = fbNet[i + d] /\ i + d <= j + d
      BY <1>2, <1>5, <1>6, <2>2 DEF Wire
    <3>2. QED
      BY <2>2, <3>1 DEF ViewInv, WireOrdered, Said
  <2>3. QED
    BY <1>6, <2>1, <2>2
<1>9. TableBehind'
  <2> SUFFICES ASSUME NEW b \in Block, NEW i \in Wire',
                      i > fbStale', Said(i, b)' # NoItem
               PROVE  openRx[b].unique <= Said(i, b)'.unique
    BY DEF TableBehind
  <2>1. CASE i = Len(fbNet') /\ fbNet'[i] = p
    BY <1>3, <2>1 DEF ViewInv, SlotAhead, Said
  <2>2. CASE i < Len(fbNet') /\ i + d \in Wire /\ fbNet'[i] = fbNet[i + d]
    <3>1. i + d > fbStale
      BY <1>2, <1>5 DEF Wire
    <3>2. QED
      BY <2>2, <3>1 DEF ViewInv, TableBehind, Said
  <2>3. QED
    BY <1>6, <2>1, <2>2
<1>10. QED
  BY <1>7, <1>8, <1>9 DEF ViewInv

\* A datagram that is lost leaves the others in their order.
LEMMA LoseOrders ==
    ASSUME TypeOK, ViewInv, NEW i \in Wire, LoseFeedback(i)
    PROVE  ViewInv'
<1> DEFINE at(j) == IF j < i THEN j ELSE j + 1
<1>1. /\ Len(fbNet) \in Nat /\ fbStale \in Int /\ fbNet \in Seq(Packet)
      /\ UNCHANGED <<rx, openRx>>
      /\ fbNet' = RemoveAt(fbNet, i)
      /\ fbStale' = IF i <= fbStale THEN fbStale - 1 ELSE fbStale
  BY SaidType DEF TypeOK, LoseFeedback, threadVars, receiverVars
<1>2. /\ Len(fbNet') = Len(fbNet) - 1
      /\ \A j \in 1 .. Len(fbNet) - 1 : fbNet'[j] = fbNet[at(j)]
  <2>1. i \in 1 .. Len(fbNet)
    BY DEF Wire
  <2>2. QED
    BY <1>1, <2>1, RemoveAtShifts
<1>3. \A j \in Wire' : /\ at(j) \in Wire /\ fbNet'[j] = fbNet[at(j)]
                       /\ j > fbStale' => at(j) > fbStale
  BY <1>1, <1>2 DEF Wire
<1>4. \A j, k \in Wire' : j <= k => at(j) <= at(k)
  BY <1>1, <1>2 DEF Wire
<1> HIDE DEF at
<1>5. QED
  BY <1>1, <1>3, <1>4 DEF ViewInv, SlotAhead, WireOrdered, TableBehind, Said

\* The table takes what a newer datagram says, keeps or forgets its own.
LEMMA ApplyOrders ==
    ASSUME TypeOK, ViewInv, NEW i \in Wire, ApplyFeedback(i)
    PROVE  /\ ViewInv'
           /\ \A b \in Block : openRx'[b] # NoItem => openRx'[b].unique >= openRx[b].unique
<1>1. /\ i > fbStale /\ fbStale' = i /\ UNCHANGED <<fbNet, rx>>
      /\ \A b \in Block :
           \/ openRx'[b] = NoItem
           \/ openRx'[b] = openRx[b]
           \/ openRx'[b] = Said(i, b) /\ Said(i, b) # NoItem
  BY DEF ApplyFeedback, NewerFeedback, MergedOpen, Said, receiverVars
<1>2. /\ Len(fbNet) \in Nat /\ fbStale \in Int
      /\ \A b \in Block : /\ Cardinality(rx[b]) \in Nat
                          /\ openRx[b] \in Item /\ openRx[b].unique \in Int
                          /\ openRx[b].unique >= -1
                          /\ \A j \in Wire : Said(j, b) \in Item /\ Said(j, b).unique \in Int
  BY SaidType DEF TypeOK
<1>3. NoItem.unique = -1
  BY DEF NoItem
<1>4. \A b \in Block : openRx'[b] # NoItem => openRx'[b].unique >= openRx[b].unique
  BY <1>1, <1>2 DEF ViewInv, TableBehind
<1>5. Wire' = Wire /\ \A j, b : Said(j, b)' = Said(j, b)
  BY <1>1 DEF Wire, Said
<1>6. SlotAhead'
  BY <1>1, <1>2, <1>3, <1>5 DEF ViewInv, SlotAhead
<1>7. WireOrdered'
  BY <1>5 DEF ViewInv, WireOrdered
<1>8. \A b \in Block : \A j \in Wire : Said(j, b).unique >= -1
  BY SaidType DEF Item
<1>9. TableBehind'
  <2> SUFFICES ASSUME NEW b \in Block, NEW j \in Wire, j > i, Said(j, b) # NoItem
               PROVE  openRx'[b].unique <= Said(j, b).unique
    BY <1>1, <1>5 DEF TableBehind
  <2>1. CASE openRx'[b] = NoItem
    BY <1>3, <1>8, <2>1
  <2>2. CASE openRx'[b] = openRx[b]
    <3>1. j > fbStale
      BY <1>1, <1>2 DEF Wire
    <3>2. QED
      BY <2>2, <3>1 DEF ViewInv, TableBehind
  <2>3. CASE openRx'[b] = Said(i, b)
    <3>1. i <= j
      BY <1>2 DEF Wire
    <3>2. QED
      BY <2>3, <3>1 DEF ViewInv, WireOrdered
  <2>4. QED
    BY <1>1, <2>1, <2>2, <2>3
<1>10. QED
  BY <1>4, <1>6, <1>7, <1>9 DEF ViewInv

\* A symbol adds to its slot only.
LEMMA DataOrders ==
    ASSUME TypeOK, TypeOK', ViewInv, NEW b \in Block, NEW e \in Esi, DeliverData(b, e)
    PROVE  ViewInv'
<1>1. UNCHANGED <<fbNet, fbStale, openRx>> /\ rx' = [rx EXCEPT ![b] = @ \cup {e}]
  BY DEF DeliverData, netVars, threadVars
<1>2. \A c \in Block : rx[c] \subseteq rx'[c] /\ rx'[c] \in SUBSET Esi
  BY <1>1 DEF TypeOK
<1>3. \A c \in Block : Cardinality(rx[c]) <= Cardinality(rx'[c])
  BY <1>2, MoreSymbols
<1>4. \A c \in Block : Cardinality(rx[c]) \in Nat /\ Cardinality(rx'[c]) \in Nat
  BY <1>2, SymbolSets
<1>5. /\ \A c \in Block : openRx[c].unique \in Int
      /\ \A c \in Block : \A i \in Wire : Said(i, c).unique \in Int
  BY SaidType
<1>6. Wire' = Wire /\ \A j, c : Said(j, c)' = Said(j, c)
  BY <1>1 DEF Wire, Said
<1>7. SlotAhead'
  <2>1. ASSUME NEW c \in Block
        PROVE  openRx'[c].unique <= Cardinality(rx'[c])
    <3>1. openRx[c].unique <= Cardinality(rx[c])
      BY DEF ViewInv, SlotAhead
    <3>2. openRx'[c] = openRx[c]
      BY <1>1
    <3>3. QED
      BY <1>3, <1>4, <1>5, <3>1, <3>2
  <2>2. ASSUME NEW c \in Block, NEW i \in Wire
        PROVE  Said(i, c).unique <= Cardinality(rx'[c])
    <3>1. Said(i, c).unique <= Cardinality(rx[c])
      BY DEF ViewInv, SlotAhead
    <3>2. QED
      BY <1>3, <1>4, <1>5, <3>1
  <2>3. QED
    BY <1>6, <2>1, <2>2 DEF SlotAhead
<1>8. WireOrdered' /\ TableBehind'
  BY <1>1, <1>6 DEF ViewInv, WireOrdered, TableBehind
<1>9. QED
  BY <1>7, <1>8 DEF ViewInv

LEMMA ViewStays ==
    ASSUME ViewInv, UNCHANGED <<rx, openRx, fbNet, fbStale>>
    PROVE  ViewInv'
BY DEF ViewInv, SlotAhead, WireOrdered, TableBehind, Wire, Said

\* No other step touches the slots, the table or the wire.
LEMMA ViewSteps ==
    ASSUME [Next]_vars
    PROVE  \/ UNCHANGED <<rx, openRx, fbNet, fbStale>>
           \/ \E i \in Wire : ApplyFeedback(i)
           \/ \E b \in Block, e \in Esi : DeliverData(b, e)
           \/ \E rot : Transmit(FeedbackPacket(rot)) /\ UNCHANGED <<rx, openRx>>
           \/ \E i \in Wire : LoseFeedback(i)
<1>1. CASE UNCHANGED vars
  BY <1>1 DEF vars, threadVars, receiverVars, netVars
<1>2. CASE SendLoop
  BY <1>2 DEF SendLoop, LoopTop, AdmitSource, RepairTick, CancelWhileRepairing,
     Repair, NoRepair, LoopEnd, SenderExitFin, SenderAbort, CancelWhileSending,
     threadVars, receiverVars, netVars
<1>3. CASE FeedbackThread
  BY <1>3 DEF FeedbackThread, RecvFin, SenderHello, Wire, receiverVars, netVars
<1>4. CASE Receiver
  <2>1. CASE \E b \in Block, e \in Esi : DeliverData(b, e)
    BY <2>1
  <2>2. CASE \E rot \in Rotations : SendFeedback(rot) \/ ReceiverFinish(rot)
    BY <2>2 DEF SendFeedback, ReceiverFinish, threadVars
  <2>3. CASE ReceiverHello \/ ReceiverAbort
    BY <2>3 DEF ReceiverHello, ReceiverAbort, threadVars, netVars
  <2>4. QED
    BY <1>4, <2>1, <2>2, <2>3 DEF Receiver
<1>5. CASE Environment
  BY <1>5 DEF Environment, SenderCrash, ReceiverCrash, Wire, threadVars,
     receiverVars, netVars
<1>6. QED
  BY <1>1, <1>2, <1>3, <1>4, <1>5 DEF Next

LEMMA ViewStep == TypeOK /\ TypeOK' /\ ViewInv /\ [Next]_vars => ViewInv'
BY ViewSteps, ViewStays, ApplyOrders, DataOrders, TransmitOrders, LoseOrders

-----------------------------------------------------------------------------
(* Theorems *)

\* The table, the datagrams that are newer, and the slots are in order.
THEOREM ViewOrdered == Spec => []ViewInv
<1>1. TypeOK /\ [Next]_vars => TypeOK'
  BY TypeStep
<1>2. QED
  BY <1>1, ViewInit, ViewStep, TypeCorrect, PTL DEF Spec

\* Datagrams that are late, repeated, lost or cut to a limit, and entries
\* evicted from the table, never make the sender take a block for poorer
\* than it was known to be.
THEOREM ViewNeverGoesBack == Spec => ViewMonotone
<1>1. TypeOK /\ ViewInv /\ [Next]_vars
        => [\A b \in Block : openRx'[b] # NoItem =>
                                openRx'[b].unique >= openRx[b].unique]_openRx
  <2> SUFFICES ASSUME TypeOK, ViewInv, [Next]_vars, openRx' # openRx
               PROVE  \A b \in Block : openRx'[b] # NoItem =>
                                          openRx'[b].unique >= openRx[b].unique
    OBVIOUS
  <2>1. PICK i \in Wire : ApplyFeedback(i)
    BY ViewSteps DEF DeliverData, LoseFeedback, threadVars
  <2>2. QED
    BY <2>1, ApplyOrders
<1>2. QED
  BY <1>1, ViewOrdered, TypeCorrect, PTL DEF Spec, ViewMonotone
=============================================================================
