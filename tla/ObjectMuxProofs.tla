--------------------------- MODULE ObjectMuxProofs ---------------------------
(***************************************************************************)
(* Proofs about ObjectMux, for every number and size of objects, every     *)
(* block size and every window.                                            *)
(***************************************************************************)
EXTENDS ObjectMux, TLAPS, SequenceTheorems, FiniteSetTheorems, WellFoundedInduction

IInv == TypeOK /\ MuxConsistent

-----------------------------------------------------------------------------
(* Numbers and sequences *)

\* A set of natural numbers has a least element: the initial segments of its
\* elements are finite sets, which inclusion orders well.
LEMMA LeastElement ==
    ASSUME NEW T, T \subseteq Nat, T # {}
    PROVE  \E x \in T : \A y \in T : x <= y
<1> DEFINE F == {0 .. x : x \in T}
<1>1. F \subseteq FiniteSubsetsOf(Nat)
  <2> SUFFICES ASSUME NEW x \in T PROVE 0 .. x \in FiniteSubsetsOf(Nat)
    OBVIOUS
  <2>1. IsFiniteSet(0 .. x) /\ 0 .. x \subseteq Nat
    BY FS_Interval
  <2>2. QED
    BY <2>1 DEF FiniteSubsetsOf
<1>2. F # {}
  OBVIOUS
<1> HIDE DEF F
<1>3. PICK I \in F : \A J \in F : <<J, I>> \notin StrictSubsetOrdering(Nat)
  BY <1>1, <1>2, FS_StrictSubsetOrderingWellFounded, WFMin
<1>4. PICK x \in T : I = 0 .. x
  BY DEF F
<1>5. SUFFICES ASSUME NEW y \in T, y < x PROVE FALSE
  BY <1>4
<1>6. 0 .. y \subseteq 0 .. x /\ x \in 0 .. x /\ x \notin 0 .. y
  BY <1>5
<1>7. 0 .. y \in SUBSET Nat /\ 0 .. x \in SUBSET Nat
  OBVIOUS
<1>8. <<0 .. y, 0 .. x>> \in StrictSubsetOrdering(Nat)
  BY <1>6, <1>7 DEF StrictSubsetOrdering
<1>9. QED
  BY <1>3, <1>4, <1>8 DEF F

\* A bounded set of integers has a greatest element, and Max is it.
LEMMA MaxOfBounded ==
    ASSUME NEW S, S \subseteq Int, S # {}, NEW b \in Int, \A x \in S : x <= b
    PROVE  Max(S) \in S /\ \A y \in S : Max(S) >= y
<1> DEFINE T == {b - x : x \in S}
<1>1. T \subseteq Nat
  <2> SUFFICES ASSUME NEW x \in S PROVE b - x \in Nat
    OBVIOUS
  <2>1. x \in Int /\ x <= b
    OBVIOUS
  <2>2. QED
    BY <2>1
<1>2. T # {}
  OBVIOUS
<1>3. PICK t \in T : \A y \in T : t <= y
  BY <1>1, <1>2, LeastElement
<1>4. PICK m \in S : t = b - m
  OBVIOUS
<1>5. \A y \in S : m >= y
  BY <1>3, <1>4
<1>6. QED
  BY <1>5 DEF Max

\* A sequence that grows by an element.
LEMMA Grown ==
    ASSUME NEW S, NEW s \in Seq(S), NEW e \in S
    PROVE  /\ Append(s, e) \in Seq(S)
           /\ Len(s) \in Nat
           /\ Len(Append(s, e)) = Len(s) + 1
           /\ \A i \in 1 .. Len(s) : Append(s, e)[i] = s[i]
           /\ Append(s, e)[Len(s) + 1] = e
  BY AppendProperties, LenProperties

\* What the types say of the sequences' elements.
LEMMA Elements ==
    ASSUME TypeOK
    PROVE  /\ MaxObjects \in Nat /\ Len(sizes) \in Nat /\ Len(blocks) \in Nat
           /\ \A o \in 1 .. Len(sizes) : sizes[o] \in Nat
           /\ \A i \in 1 .. Len(blocks) : blocks[i] \subseteq Chunk
           /\ taken \in Nat /\ taken <= Len(sizes) /\ taken <= MaxObjects
           /\ AllChunks \subseteq Chunk
<1>1. \A o \in 1 .. Len(sizes) : sizes[o] \in ObjectSizes
  BY ElementOfSeq DEF TypeOK
<1>2. \A i \in 1 .. Len(blocks) : blocks[i] \in SUBSET Chunk
  BY ElementOfSeq DEF TypeOK
<1>3. Len(sizes) \in Nat /\ Len(blocks) \in Nat
  BY LenProperties DEF TypeOK
<1>4. AllChunks \subseteq Chunk
  BY <1>2 DEF AllChunks, TypeOK
<1>5. MaxObjects \in Nat /\ ObjectSizes \subseteq Nat
  BY MuxAssumption
<1>6. Len(sizes) <= MaxObjects /\ taken \in 0 .. Len(sizes)
  BY DEF TypeOK
<1>7. taken \in Nat /\ taken <= Len(sizes) /\ taken <= MaxObjects
  BY <1>3, <1>5, <1>6
<1>8. \A o \in 1 .. Len(sizes) : sizes[o] \in Nat
  BY <1>1, <1>5
<1>9. QED
  BY <1>2, <1>3, <1>4, <1>5, <1>7, <1>8

\* When the session is idle nothing is left to fill a block with.
LEMMA IdleHasNoCandidate ==
    ASSUME TypeOK, Idle
    PROVE  Candidate = 0
  BY Elements DEF Idle, Candidate

-----------------------------------------------------------------------------
(* The sink's operators *)

\* The account of an object becomes the furthest of what it was and the ends.
LEMMA HighWaterFacts ==
    ASSUME NEW mark \in Nat, NEW ends, ends \subseteq Nat, NEW b \in Nat,
           mark <= b, \A e \in ends : e <= b
    PROVE  /\ HighWater(mark, ends) \in Nat
           /\ mark <= HighWater(mark, ends) /\ HighWater(mark, ends) <= b
           /\ \A e \in ends : e <= HighWater(mark, ends)
<1> DEFINE S == {mark} \cup ends
<1>1. S \subseteq Int /\ S \subseteq Nat /\ S # {} /\ \A x \in S : x <= b
  OBVIOUS
<1>2. \A e \in ends : e \in S
  OBVIOUS
<1>3. mark \in S /\ HighWater(mark, ends) = Max(S)
  BY DEF HighWater
<1> HIDE DEF S
<1>4. Max(S) \in S /\ \A y \in S : Max(S) >= y
  <2>1. b \in Int /\ \A x \in S : x <= b
    BY <1>1
  <2>2. QED
    BY <1>1, <2>1, MaxOfBounded
<1>5. QED
  BY <1>1, <1>2, <1>3, <1>4

\* A sink whose files hold nothing beyond its account of them.
Accounted(s) ==
    s \in Sink /\ \A o \in 1 .. MaxObjects : s.bytes[o] \subseteq 0 .. s.written[o] - 1

\* Neither what the sink holds nor what it is given passes the bounds B.
Bounds(B, s, names, chunks) ==
    /\ \A o \in 1 .. MaxObjects : B[o] \in Nat /\ s.written[o] <= B[o]
    /\ \A c \in chunks \cup s.pending : c.obj \in names => c.off + c.len <= B[c.obj]

\* What writing a set of chunks does: what an object holds only grows, every
\* chunk is in its file or waits, and no mark passes its bound.
Received(w, s, names, chunks, B) ==
    /\ w.names = names
    /\ w.pending = {c \in chunks \cup s.pending : c.obj \notin names}
    /\ \A o \in 1 .. MaxObjects : w.written[o] <= B[o] /\ s.bytes[o] \subseteq w.bytes[o]
    /\ \A c \in chunks \cup s.pending :
          c.obj \in names => Units(c) \subseteq w.bytes[c.obj]

LEMMA WrittenFacts ==
    ASSUME NEW s, NEW names, NEW chunks, NEW B, Accounted(s),
           names \subseteq 1 .. MaxObjects, chunks \subseteq Chunk,
           Bounds(B, s, names, chunks)
    PROVE  /\ Accounted(Written(s, names, chunks))
           /\ Received(Written(s, names, chunks), s, names, chunks, B)
<1> USE DEF Accounted, Bounds
<1> DEFINE w == Written(s, names, chunks)
<1> DEFINE all == chunks \cup s.pending
           of(o) == {c \in all : c.obj = o /\ o \in names}
           ends(o) == {c.off + c.len : c \in of(o)}
           units(o) == UNION {Units(c) : c \in of(o)}
<1>1. /\ w.names = names
      /\ w.written = [o \in 1 .. MaxObjects |-> HighWater(s.written[o], ends(o))]
      /\ w.bytes = [o \in 1 .. MaxObjects |-> s.bytes[o] \cup units(o)]
      /\ w.pending = {c \in all : c.obj \notin names}
      /\ w = [names |-> w.names, written |-> w.written,
              bytes |-> w.bytes, pending |-> w.pending]
  BY DEF Written
<1>2. all \subseteq Chunk
  BY DEF Sink
<1>3. ASSUME NEW o \in 1 .. MaxObjects
      PROVE  /\ w.written[o] \in Nat /\ s.written[o] <= w.written[o]
             /\ w.written[o] <= B[o]
             /\ \A e \in ends(o) : e <= w.written[o]
  <2>1. s.written[o] \in Nat
    BY DEF Sink
  <2>2. ends(o) \subseteq Nat /\ \A e \in ends(o) : e <= B[o]
    <3> SUFFICES ASSUME NEW c \in of(o)
                 PROVE  c.off + c.len \in Nat /\ c.off + c.len <= B[o]
      OBVIOUS
    <3>1. c \in Chunk /\ c.obj = o /\ c.obj \in names /\ c \in chunks \cup s.pending
      BY <1>2
    <3>2. c.off \in Nat /\ c.len \in Nat
      BY <3>1 DEF Chunk
    <3>3. QED
      BY <3>1, <3>2
  <2>3. w.written[o] = HighWater(s.written[o], ends(o))
    BY <1>1
  <2> HIDE DEF ends
  <2>4. QED
    BY <2>1, <2>2, <2>3, HighWaterFacts
<1>4. ASSUME NEW o \in 1 .. MaxObjects
      PROVE  /\ w.bytes[o] = s.bytes[o] \cup units(o)
             /\ w.bytes[o] \subseteq 0 .. w.written[o] - 1
  <2>1. w.bytes[o] = s.bytes[o] \cup units(o)
    BY <1>1
  <2>2. s.bytes[o] \subseteq 0 .. w.written[o] - 1
    <3>1. s.bytes[o] \subseteq 0 .. s.written[o] - 1 /\ s.written[o] \in Nat
      BY DEF Sink
    <3>2. QED
      BY <1>3, <3>1
  <2>3. units(o) \subseteq 0 .. w.written[o] - 1
    <3> SUFFICES ASSUME NEW c \in of(o), NEW u \in Units(c)
                 PROVE  u \in 0 .. w.written[o] - 1
      OBVIOUS
    <3>1. c.off + c.len <= w.written[o]
      BY <1>3
    <3>2. c.off \in Nat /\ c.len \in Nat
      BY <1>2 DEF Chunk
    <3>3. QED
      BY <1>3, <3>1, <3>2 DEF Units
  <2>4. QED
    BY <2>1, <2>2, <2>3
<1>5. w \in Sink
  <2>1. w.written \in [1 .. MaxObjects -> Nat]
    BY <1>1, <1>3
  <2>2. w.bytes \in [1 .. MaxObjects -> SUBSET Nat]
    <3>1. \A o \in 1 .. MaxObjects : w.bytes[o] \subseteq Nat
      BY <1>3, <1>4
    <3>2. QED
      BY <1>1, <3>1
  <2>3. w.pending \subseteq Chunk
    BY <1>1, <1>2
  <2>4. QED
    BY <1>1, <2>1, <2>2, <2>3 DEF Sink
<1>6. ASSUME NEW c \in all, c.obj \in names
      PROVE  Units(c) \subseteq w.bytes[c.obj]
  <2>1. c.obj \in 1 .. MaxObjects /\ c \in of(c.obj)
    BY <1>6
  <2>2. Units(c) \subseteq units(c.obj)
    BY <2>1
  <2>3. QED
    BY <1>4, <2>1, <2>2
<1> HIDE DEF w
<1>7. Accounted(w)
  BY <1>4, <1>5
<1>8. Received(w, s, names, chunks, B)
  BY <1>1, <1>3, <1>4, <1>6 DEF Received
<1>9. QED
  BY <1>7, <1>8 DEF w

-----------------------------------------------------------------------------
(* The invariant *)

LEMMA InitEstablishes == Init => IInv
<1> SUFFICES ASSUME Init PROVE IInv
  OBVIOUS
<1>1. Len(sizes) = 0 /\ Len(blocks) = 0 /\ Sent = {} /\ Obj = {}
  BY EmptySeq DEF Init, Sent, Obj
<1>2. sizes \in Seq(ObjectSizes) /\ blocks \in Seq(SUBSET Chunk)
  BY EmptySeq DEF Init
<1>3. sink \in Sink
  BY DEF Init, EmptySink, Sink
<1>4. MaxObjects \in Nat /\ BlockUnits \in Nat
  BY MuxAssumption
<1>5. \A o \in 1 .. MaxObjects : sink.bytes[o] \subseteq 0 .. sink.written[o] - 1
  BY DEF Init, EmptySink
<1>6. TypeOK
  <2>1. /\ Len(sizes) <= MaxObjects /\ taken \in 0 .. Len(sizes)
        /\ used \in 0 .. BlockUnits /\ current \in {0, taken} /\ pos \in Nat /\ total \in Nat
    BY <1>1, <1>4 DEF Init
  <2>2. /\ fill = {} /\ active = {} /\ completed = {} /\ opens = {} /\ fins = {}
        /\ totals = {} /\ done = {}
        /\ closed \in BOOLEAN /\ clientFin \in BOOLEAN /\ finNet \in BOOLEAN
        /\ pc \in {"top", "fill", "send", "end"} /\ sender \in {"run", "done", "aborted"}
        /\ client \in {"run", "done", "failed"}
    BY DEF Init
  <2>3. QED
    BY <1>2, <1>3, <1>5, <2>1, <2>2 DEF TypeOK
<1>7. FinShape /\ DoneShape
  BY <1>1 DEF Init, FinShape, DoneShape, SenderAt
<1>8. AllChunks = {}
  BY <1>1 DEF Init, AllChunks
<1>9. CutShape
  BY <1>8 DEF Init, CutShape
<1>10. SinkShape
  <2>1. \A o \in 1 .. MaxObjects : sink.written[o] = 0 /\ CutOf(o) = 0
    BY <1>4 DEF Init, EmptySink, CutOf
  <2>2. QED
    BY <2>1 DEF Init, EmptySink, SinkShape
<1>11. QED
  BY <1>6, <1>7, <1>9, <1>10 DEF IInv, MuxConsistent

\* What has been cut changes in a turn of _fill_block() alone.
LEMMA SameCuts ==
    ASSUME UNCHANGED <<sizes, taken, current, pos, fill, blocks, opens, fins>>, CutShape
    PROVE  /\ CutShape' /\ AllChunks' = AllChunks /\ Sent' = Sent /\ Obj' = Obj
           /\ \A o : CutOf(o)' = CutOf(o)
<1>1. AllChunks' = AllChunks /\ Sent' = Sent /\ Obj' = Obj
  BY DEF AllChunks, Sent, Obj
<1>2. \A o : CutOf(o)' = CutOf(o)
  BY DEF CutOf
<1>3. CutShape'
  BY <1>1, <1>2 DEF CutShape
<1>4. QED
  BY <1>1, <1>2, <1>3

\* Steps that leave the cuts and the sink alone keep what relates them.
LEMMA SameSink ==
    ASSUME UNCHANGED <<sizes, taken, current, pos, fill, blocks, opens, fins, done, sink>>,
           CutShape, SinkShape
    PROVE  CutShape' /\ SinkShape'
<1>1. /\ CutShape' /\ AllChunks' = AllChunks /\ \A o : CutOf(o)' = CutOf(o)
  BY SameCuts
<1>2. SinkShape'
  BY <1>1 DEF SinkShape
<1>3. QED
  BY <1>1, <1>2

\* Steps of the producer: once a FIN is on the wire the session is closed.
LEMMA ProducerKeeps ==
    ASSUME IInv, Producer
    PROVE  IInv'
<1> USE DEF IInv, MuxConsistent
<1>1. /\ ~closed
      /\ UNCHANGED <<taken, loopVars, threadVars, netVars, clientVars>>
  BY DEF Producer, Close, Put
<1>2. totals = {} /\ sender # "done"
  BY <1>1 DEF FinShape, Idle
<1>3. FinShape' /\ DoneShape'
  BY <1>1, <1>2 DEF FinShape, DoneShape, Sent, SenderAt, loopVars, threadVars, netVars,
     clientVars
<1>4. CASE Close
  <2>1. UNCHANGED sizes /\ closed' = TRUE
    BY <1>4 DEF Close
  <2>2. TypeOK'
    BY <1>1, <2>1 DEF TypeOK, Sent, Obj, loopVars, threadVars, netVars, clientVars
  <2>3. CutShape' /\ SinkShape'
    BY <1>1, <2>1, SameSink DEF loopVars, netVars, clientVars
  <2>4. QED
    BY <1>3, <2>2, <2>3
<1>5. ASSUME NEW n \in ObjectSizes, Put(n)
      PROVE  IInv'
  <2>1. sizes' = Append(sizes, n) /\ UNCHANGED closed /\ Len(sizes) < MaxObjects
    BY <1>5 DEF Put
  <2>2. /\ sizes' \in Seq(ObjectSizes)
        /\ Len(sizes) \in Nat /\ Len(sizes') = Len(sizes) + 1
        /\ \A o \in 1 .. Len(sizes) : sizes'[o] = sizes[o]
    BY <2>1, Grown DEF TypeOK
  <2>3. MaxObjects \in Nat /\ taken \in 0 .. Len(sizes)
    BY MuxAssumption DEF TypeOK
  <2>4. Sent' = Sent /\ Obj \subseteq Obj'
    BY <1>1, <2>2 DEF Sent, Obj, loopVars
  <2>5. TypeOK'
    BY <1>1, <2>1, <2>2, <2>3, <2>4
    DEF TypeOK, loopVars, threadVars, netVars, clientVars
  <2>6. AllChunks' = AllChunks
    BY <1>1 DEF AllChunks, loopVars
  <2>7. \A o \in 1 .. taken : CutOf(o)' = CutOf(o)
    BY <1>1, <2>2, <2>3 DEF CutOf, loopVars
  <2>8. \A o \in 1 .. MaxObjects : o > taken => CutOf(o)' = CutOf(o)
    BY <1>1, <2>3 DEF CutOf, loopVars
  <2>9. current # 0 => sizes'[current] = sizes[current]
    BY <2>2, <2>3 DEF TypeOK
  <2>10. CutShape'
    BY <1>1, <2>6, <2>7, <2>9 DEF CutShape, loopVars, netVars
  <2>11. \A o \in 1 .. MaxObjects : CutOf(o)' = CutOf(o)
    BY <2>3, <2>7, <2>8
  <2>12. SinkShape'
    BY <1>1, <2>6, <2>11 DEF SinkShape, loopVars, clientVars
  <2>13. QED
    BY <1>3, <2>5, <2>10, <2>12
<1>6. QED
  BY <1>4, <1>5 DEF Producer

\* A block that is sent: no FIN was, since there was something to send.
LEMMA SendingKeeps ==
    ASSUME IInv, SendBlock \/ CancelWhileSending
    PROVE  IInv'
<1> USE DEF IInv, MuxConsistent
<1>1. /\ UNCHANGED <<sessionVars, threadVars, netVars, clientVars, current, pos>>
      /\ sender = "run"
  BY DEF SendBlock, CancelWhileSending, SenderAt
<1>2. /\ SendBlock => /\ fill' = {} /\ used' = 0 /\ UNCHANGED sender
                      /\ pc' \in {"fill", "end"}
      /\ CancelWhileSending => /\ UNCHANGED <<fill, used, active, pc>>
                               /\ sender' = "aborted" /\ fill # {}
  BY DEF SendBlock, CancelWhileSending
<1>3. 0 \in 0 .. BlockUnits
  BY MuxAssumption
<1>4. CASE fill = {}
  <2>1. SendBlock /\ UNCHANGED <<blocks, active, fill>>
    BY <1>2, <1>4 DEF SendBlock
  <2>2. FinShape' /\ DoneShape'
    BY <1>1, <1>2, <2>1 DEF FinShape, DoneShape, Idle, Sent, sessionVars, threadVars,
       netVars, clientVars
  <2>3. TypeOK'
    BY <1>1, <1>2, <1>3, <2>1 DEF TypeOK, Sent, Obj, sessionVars, threadVars, netVars,
       clientVars
  <2>4. CutShape' /\ SinkShape'
    BY <1>1, <2>1, SameSink DEF sessionVars, netVars, clientVars
  <2>5. QED
    BY <2>2, <2>3, <2>4
<1>5. CASE fill # {}
  <2>1. blocks' = Append(blocks, fill)
    BY <1>5 DEF SendBlock, CancelWhileSending
  <2>2. /\ blocks' \in Seq(SUBSET Chunk)
        /\ Len(blocks) \in Nat /\ Len(blocks') = Len(blocks) + 1
        /\ \A i \in 1 .. Len(blocks) : blocks'[i] = blocks[i]
        /\ blocks'[Len(blocks) + 1] = fill
    BY <2>1, Grown DEF TypeOK
  <2>3. Sent' = Sent \cup {Len(blocks)} /\ Obj' = Obj
    BY <1>1, <2>2 DEF Sent, Obj, sessionVars
  <2>4. /\ SendBlock => active' = active \cup {Len(blocks)}
        /\ active' \subseteq active \cup {Len(blocks)}
    BY <1>2, <1>5 DEF SendBlock
  <2>5. TypeOK'
    BY <1>1, <1>2, <1>3, <2>2, <2>3, <2>4 DEF TypeOK, sessionVars, threadVars, netVars,
       clientVars
  <2>6. totals = {} /\ ~finNet /\ ~clientFin /\ client # "done"
    BY <1>5 DEF FinShape, DoneShape
  <2>7. FinShape'
    BY <1>1, <1>2, <2>6 DEF FinShape, SenderAt, netVars, clientVars
  <2>8. DoneShape'
    BY <1>1, <1>2, <2>3, <2>4, <2>6 DEF DoneShape, threadVars, netVars, clientVars
  <2>9. AllChunks' = AllChunks
    <3>1. 1 .. Len(blocks') = (1 .. Len(blocks)) \cup {Len(blocks) + 1}
      BY <2>2
    <3>2. UNION {blocks'[i] : i \in 1 .. Len(blocks')}
            = fill \cup UNION {blocks[i] : i \in 1 .. Len(blocks)}
      BY <2>2, <3>1
    <3>3. fill' \subseteq fill
      BY <1>2
    <3>4. QED
      BY <3>2, <3>3 DEF AllChunks
  <2>10. \A o : CutOf(o)' = CutOf(o)
    BY <1>1 DEF CutOf, sessionVars
  <2>11. CutShape'
    BY <1>1, <2>9, <2>10 DEF CutShape, sessionVars, netVars
  <2>12. \A b \in done : blocks'[b + 1] = blocks[b + 1]
    <3> SUFFICES ASSUME NEW b \in done PROVE blocks'[b + 1] = blocks[b + 1]
      OBVIOUS
    <3>1. b \in Sent
      BY DEF DoneShape
    <3>2. b + 1 \in 1 .. Len(blocks)
      BY <2>2, <3>1 DEF Sent
    <3>3. QED
      BY <2>2, <3>2
  <2>13. SinkShape'
    BY <1>1, <2>9, <2>10, <2>12 DEF SinkShape, sessionVars, clientVars
  <2>14. QED
    BY <2>5, <2>7, <2>8, <2>11, <2>13
<1>6. QED
  BY <1>4, <1>5

\* A turn of _fill_block(): the object in hand grows by the chunk it yields.
LEMMA FillTurnKeeps ==
    ASSUME IInv, FillTurn
    PROVE  IInv'
<1> USE DEF IInv, MuxConsistent
<1> PICK o, p : o = Candidate /\ p = IF current # 0 THEN pos ELSE 0
  OBVIOUS
<1> DEFINE c == NextChunk(o, p)
           takes == Space > Overhead(p) /\ p < sizes[o]
           cut == IF takes THEN p + c.len ELSE p
           whole == cut >= sizes[o]
<1>1. /\ o # 0 /\ sender = "run"
      /\ UNCHANGED <<sizes, closed, sender, blocks, active, totals>>
      /\ UNCHANGED <<threadVars, clientVars>>
      /\ taken' = o /\ opens' = opens \cup {o}
      /\ fill' = IF takes THEN fill \cup {c} ELSE fill
      /\ used' = IF takes THEN used + Overhead(p) + c.len ELSE used
      /\ fins' = IF whole THEN fins \cup {o} ELSE fins
      /\ current' = IF whole THEN 0 ELSE o
      /\ pos' = IF whole THEN 0 ELSE cut
      /\ pc' \in {"fill", "send"}
  BY DEF FillTurn, SenderAt
<1>2. /\ Len(sizes) \in Nat /\ taken \in 0 .. Len(sizes) /\ current \in {0, taken}
      /\ Len(sizes) <= MaxObjects /\ MaxObjects \in Nat /\ pos \in Nat
      /\ \A x \in 1 .. Len(sizes) : sizes[x] \in Nat
  BY Elements DEF TypeOK
<1>3. /\ o \in 1 .. Len(sizes) /\ p \in Nat
      /\ current # 0 => o = current /\ o = taken /\ p = pos /\ p < sizes[o]
      /\ current = 0 => o = taken + 1 /\ p = 0
  BY <1>1, <1>2 DEF Candidate, CutShape
<1>4. sizes[o] \in Nat /\ p <= sizes[o]
  BY <1>2, <1>3
<1>5. Overhead(p) \in Nat /\ used \in 0 .. BlockUnits /\ BlockUnits \in Nat
  BY MuxAssumption DEF Overhead, TypeOK
<1>6. /\ c.obj = o /\ c.off = p /\ c.named = (p = 0)
      /\ c = [obj |-> c.obj, off |-> c.off, len |-> c.len, named |-> c.named]
      /\ c.len = IF sizes[o] - p < Space - Overhead(p)
                 THEN sizes[o] - p ELSE Space - Overhead(p)
  BY DEF NextChunk
<1> HIDE DEF c
<1>7. takes => /\ c.len \in Nat \ {0} /\ p + c.len <= sizes[o]
               /\ used + Overhead(p) + c.len \in 0 .. BlockUnits
  BY <1>3, <1>4, <1>5, <1>6 DEF Space
<1>8. takes => c \in Chunk
  <2>1. c.obj \in Nat \ {0} /\ c.off \in Nat /\ c.named \in BOOLEAN
    BY <1>3, <1>6
  <2>2. QED
    BY <1>6, <1>7, <2>1 DEF Chunk
<1>9. cut \in Nat /\ p <= cut /\ cut <= sizes[o] /\ (whole => cut = sizes[o])
  BY <1>3, <1>4, <1>7
<1>10. takes => cut = p + c.len
  OBVIOUS
<1>11. AllChunks' = IF takes THEN AllChunks \cup {c} ELSE AllChunks
  BY <1>1 DEF AllChunks
<1>12. ~takes => cut = p
  OBVIOUS
<1> HIDE DEF takes, cut
<1>13. CutOf(o) = p /\ CutOf(o)' = cut
  BY <1>1, <1>2, <1>3, <1>9 DEF CutOf
<1>14. \A x \in 1 .. MaxObjects : x # o => CutOf(x)' = CutOf(x)
  BY <1>1, <1>2, <1>3 DEF CutOf
<1>15. 1 .. taken' \subseteq (1 .. taken) \cup {o} /\ 1 .. taken \subseteq 1 .. taken'
  BY <1>1, <1>2, <1>3
<1>16. 1 .. taken' \subseteq 1 .. MaxObjects
  BY <1>1, <1>2, <1>3
<1>17. \A x \in 1 .. MaxObjects : CutOf(x) \in Nat /\ CutOf(x)' \in Nat /\ CutOf(x) <= CutOf(x)'
  <2> SUFFICES ASSUME NEW x \in 1 .. MaxObjects
               PROVE  CutOf(x) \in Nat /\ CutOf(x)' \in Nat /\ CutOf(x) <= CutOf(x)'
    OBVIOUS
  <2>1. CASE x = o
    BY <1>3, <1>9, <1>13, <2>1
  <2>2. CASE x # o
    <3>1. CutOf(x) \in Nat
      BY <1>2 DEF CutOf
    <3>2. QED
      BY <1>14, <2>2, <3>1
  <2>3. QED
    BY <2>1, <2>2
<1>18. TypeOK'
  <2>1. Sent' = Sent /\ Obj' = Obj
    BY <1>1 DEF Sent, Obj
  <2>2. fill' \subseteq Chunk /\ used' \in 0 .. BlockUnits
    BY <1>1, <1>7, <1>8 DEF TypeOK
  <2>3. opens' \subseteq Obj /\ fins' \subseteq Obj
    BY <1>1, <1>3 DEF TypeOK, Obj
  <2>4. taken' \in 0 .. Len(sizes) /\ current' \in {0, taken'} /\ pos' \in Nat
    BY <1>1, <1>2, <1>3, <1>9
  <2>5. QED
    BY <1>1, <2>1, <2>2, <2>3, <2>4 DEF TypeOK, threadVars, clientVars
<1>19. FinShape' /\ DoneShape'
  <2>1. totals = {}
    BY <1>1, IdleHasNoCandidate DEF FinShape
  <2>2. QED
    BY <1>1, <2>1 DEF FinShape, DoneShape, Sent, SenderAt, threadVars, clientVars
<1>20. CutShape'
  <2>1. current' # 0 => pos' < sizes'[current']
    BY <1>1, <1>4, <1>9
  <2>2. current' = 0 => pos' = 0
    BY <1>1, <1>3
  <2>3. (opens \cup fins)' \subseteq 1 .. taken'
    BY <1>1, <1>3, <1>15 DEF CutShape
  <2>4. ASSUME NEW x \in 1 .. taken', x # current'
        PROVE  x \in fins'
    <3>1. CASE x = o
      BY <1>1, <2>4, <3>1
    <3>2. CASE x # o
      BY <1>1, <1>3, <1>15, <3>2 DEF CutShape
    <3>3. QED
      BY <3>1, <3>2
  <2>5. ASSUME NEW d \in AllChunks'
        PROVE  /\ d.obj \in 1 .. taken' /\ d.off + d.len <= CutOf(d.obj)'
               /\ d.named = (d.off = 0)
    <3>1. CASE d \in AllChunks
      <4>1. d.obj \in 1 .. taken /\ d.off + d.len <= CutOf(d.obj) /\ d.named = (d.off = 0)
        BY <3>1 DEF CutShape
      <4>2. d.off \in Nat /\ d.len \in Nat
        BY <3>1, Elements DEF Chunk
      <4>3. d.obj \in 1 .. MaxObjects
        BY <1>15, <1>16, <4>1
      <4>4. CutOf(d.obj) \in Nat /\ CutOf(d.obj)' \in Nat /\ CutOf(d.obj) <= CutOf(d.obj)'
        BY <1>17, <4>3
      <4>5. d.obj \in 1 .. taken'
        BY <1>15, <4>1
      <4>6. d.off + d.len <= CutOf(d.obj)'
        BY <4>1, <4>2, <4>4
      <4>7. QED
        BY <4>1, <4>5, <4>6
    <3>2. CASE d = c /\ takes
      <4>1. CutOf(d.obj)' = cut /\ d.obj = o
        BY <1>6, <1>13, <3>2
      <4>2. d.off + d.len = cut
        BY <1>6, <1>10, <3>2
      <4>3. o \in 1 .. taken'
        BY <1>1, <1>3
      <4>4. QED
        BY <1>6, <1>9, <3>2, <4>1, <4>2, <4>3
    <3>3. QED
      BY <1>11, <3>1, <3>2
  <2>6. ASSUME NEW x \in 1 .. taken', NEW u \in 0 .. CutOf(x)' - 1
        PROVE  \E d \in AllChunks' : d.obj = x /\ u \in Units(d)
    <3>1. AllChunks \subseteq AllChunks'
      BY <1>11
    <3>2. CASE x # o
      <4>1. x \in 1 .. taken /\ u \in 0 .. CutOf(x) - 1
        BY <1>14, <1>15, <1>16, <3>2
      <4>2. QED
        BY <3>1, <4>1 DEF CutShape
    <3>3. CASE x = o /\ u < p
      <4>1. x \in 1 .. taken /\ u \in 0 .. CutOf(x) - 1
        BY <1>2, <1>3, <1>13, <3>3
      <4>2. QED
        BY <3>1, <4>1 DEF CutShape
    <3>4. CASE x = o /\ u >= p
      <4>1. CutOf(x)' = cut
        BY <1>13, <3>4
      <4>2. u \in p .. cut - 1
        BY <1>3, <1>9, <3>4, <4>1
      <4>3. takes
        BY <1>3, <1>9, <1>12, <4>2
      <4>4. u \in p .. p + c.len - 1
        <5>1. cut = p + c.len
          BY <1>10, <4>3
        <5>2. QED
          BY <1>3, <1>7, <1>9, <4>2, <4>3, <5>1
      <4>5. c \in AllChunks' /\ c.obj = x
        BY <1>6, <1>11, <3>4, <4>3
      <4>6. u \in Units(c)
        BY <1>6, <4>4 DEF Units
      <4>7. QED
        BY <4>5, <4>6
    <3>5. QED
      BY <1>3, <3>2, <3>3, <3>4
  <2>7. QED
    BY <2>1, <2>2, <2>3, <2>4, <2>5, <2>6 DEF CutShape
<1>21. SinkShape'
  <2>1. UNCHANGED <<sink, done, blocks>>
    BY <1>1 DEF clientVars
  <2>2. sink.names \subseteq 1 .. taken'
    BY <1>15 DEF SinkShape
  <2>3. \A d \in sink.pending : d.obj \notin sink.names /\ d \in AllChunks'
    BY <1>11 DEF SinkShape
  <2>4. ASSUME NEW x \in 1 .. MaxObjects
        PROVE  sink.written[x] <= CutOf(x)'
    <3>1. sink.written[x] \in Nat /\ sink.written[x] <= CutOf(x)
      BY DEF SinkShape, TypeOK, Sink
    <3>2. QED
      BY <1>17, <3>1
  <2>5. QED
    BY <2>1, <2>2, <2>3, <2>4 DEF SinkShape
<1>22. QED
  BY <1>18, <1>19, <1>20, <1>21

\* The other steps of the send loop.
LEMMA LoopKeeps ==
    ASSUME IInv, SendLoop
    PROVE  IInv'
<1> USE DEF IInv, MuxConsistent
<1>1. CASE FillTurn
  BY <1>1, FillTurnKeeps
<1>2. CASE SendBlock \/ CancelWhileSending
  BY <1>2, SendingKeeps
<1>3. CASE LoopTop \/ FillEnd \/ LoopEnd \/ SenderExitFin \/ SenderAbort
  <2>1. /\ UNCHANGED <<sessionVars, current, pos, fill, used, blocks, opens, fins>>
        /\ UNCHANGED <<threadVars, clientVars>>
        /\ active' \subseteq active /\ active \ completed \subseteq active'
        /\ pc' \in {"top", "fill", "send", "end"}
        /\ sender' \in {"run", "done", "aborted"}
        /\ sender = "run"
    BY <1>3 DEF LoopTop, FillEnd, LoopEnd, SenderExitFin, SenderAbort, netVars, SenderAt,
       TypeOK
  <2>2. /\ totals' = totals \/ (totals' = totals \cup {Len(blocks)} /\ Idle /\ Len(blocks) # 0
                                /\ SenderAt("end") /\ fill = {})
        /\ Len(blocks) \in Nat
    <3>1. Len(blocks) \in Nat /\ (blocks # <<>> => Len(blocks) # 0)
      BY LenProperties, EmptySeq DEF TypeOK
    <3>2. QED
      BY <1>3, <3>1 DEF LoopTop, FillEnd, LoopEnd, SenderExitFin, SenderAbort, netVars,
         FinShape
  <2>3. /\ Idle' = Idle /\ Sent' = Sent /\ Obj' = Obj
    BY <2>1 DEF Idle, Sent, Obj, sessionVars
  <2>4. TypeOK'
    BY <2>1, <2>2, <2>3 DEF TypeOK, sessionVars, threadVars, clientVars
  <2>5. sender' = "done" => Idle /\ fill = {} /\ Sent \subseteq done
    <3>1. CASE SenderExitFin
      BY <3>1 DEF SenderExitFin, SenderAt, FinShape, DoneShape
    <3>2. CASE LoopEnd
      BY <3>2 DEF LoopEnd, Drained, SenderAt, FinShape, DoneShape
    <3>3. CASE LoopTop \/ FillEnd \/ SenderAbort
      BY <2>1, <3>3 DEF LoopTop, FillEnd, SenderAbort
    <3>4. QED
      BY <1>3, <3>1, <3>2, <3>3
  <2>6. sender' = "run" /\ pc' \in {"top", "end"} => fill = {} \/ LoopTop
    BY <1>3, <2>1 DEF LoopTop, FillEnd, LoopEnd, SenderExitFin, SenderAbort, SenderAt, FinShape
  <2>7. LoopTop => fill = {}
    BY DEF LoopTop, FinShape, SenderAt
  <2>8. FinShape'
    BY <2>1, <2>2, <2>3, <2>5, <2>6, <2>7 DEF FinShape, SenderAt, clientVars
  <2>9. DoneShape'
    BY <2>1, <2>2, <2>3, <2>5 DEF DoneShape, threadVars, clientVars
  <2>10. CutShape' /\ SinkShape'
    BY <2>1, SameSink DEF sessionVars, clientVars
  <2>11. QED
    BY <2>4, <2>8, <2>9, <2>10
<1>4. QED
  BY <1>1, <1>2, <1>3 DEF SendLoop

LEMMA ThreadKeeps ==
    ASSUME IInv, FeedbackThread
    PROVE  IInv'
<1> USE DEF IInv, MuxConsistent
<1>1. /\ UNCHANGED <<sessionVars, loopVars, netVars, clientVars>>
      /\ completed \subseteq completed'
      /\ completed' \subseteq completed \cup done
      /\ clientFin' \in BOOLEAN
      /\ clientFin' => clientFin \/ finNet
  <2>1. CASE RecvClientFin
    BY <2>1 DEF RecvClientFin
  <2>2. ASSUME NEW S \in SUBSET done, ApplyFeedback(S)
        PROVE  /\ UNCHANGED <<clientFin, sessionVars, loopVars, netVars, clientVars>>
               /\ completed' = completed \cup S
    BY <2>2 DEF ApplyFeedback
  <2>3. clientFin \in BOOLEAN
    BY DEF TypeOK
  <2>4. QED
    BY <2>1, <2>2, <2>3 DEF FeedbackThread
<1>2. TypeOK'
  BY <1>1 DEF TypeOK, Sent, Obj, sessionVars, loopVars, netVars, clientVars
<1>3. FinShape' /\ DoneShape'
  BY <1>1 DEF FinShape, DoneShape, Sent, SenderAt, Idle, sessionVars, loopVars, netVars,
     clientVars
<1>4. CutShape' /\ SinkShape'
  BY <1>1, SameSink DEF sessionVars, loopVars, netVars, clientVars
<1>5. QED
  BY <1>2, <1>3, <1>4

-----------------------------------------------------------------------------
(* The client *)

\* A step that writes chunks of the stream: names come with the first chunk of
\* an object or in a datagram about an object that was announced.
LEMMA SinkKeeps ==
    ASSUME IInv, NEW names, NEW chunks, NEW D,
           sink.names \subseteq names, names \subseteq 1 .. taken,
           chunks \subseteq AllChunks,
           \A c \in chunks : c.named => c.obj \in names,
           D \subseteq Sent, \A b \in D : blocks[b + 1] \subseteq chunks,
           sink' = Written(sink, names, chunks), done' = done \cup D,
           UNCHANGED <<sessionVars, loopVars, netVars>>
    PROVE  /\ SinkShape' /\ sink' \in Sink
           /\ \A o \in 1 .. MaxObjects : sink'.bytes[o] \subseteq 0 .. sink'.written[o] - 1
<1> USE DEF IInv, MuxConsistent
<1> DEFINE B == [o \in 1 .. MaxObjects |-> CutOf(o)]
<1>1. taken \in Nat /\ MaxObjects \in Nat /\ 1 .. taken \subseteq 1 .. MaxObjects
  BY Elements
<1>2. sink \in Sink /\ sink.pending \subseteq AllChunks /\ AllChunks \subseteq Chunk
  BY Elements DEF TypeOK, SinkShape
<1>3. \A o \in 1 .. MaxObjects : B[o] \in Nat /\ sink.written[o] <= B[o]
  <2>1. \A o \in 1 .. MaxObjects : CutOf(o) \in Nat
    BY Elements DEF CutOf, TypeOK
  <2>2. QED
    BY <2>1 DEF SinkShape
<1>4. \A c \in chunks \cup sink.pending :
         /\ c.obj \in 1 .. taken
         /\ c.off + c.len <= B[c.obj]
  BY <1>1, <1>2 DEF CutShape
<1>5. \A o \in 1 .. MaxObjects : sink.bytes[o] \subseteq 0 .. sink.written[o] - 1
  BY DEF TypeOK
<1>6. names \in SUBSET (1 .. MaxObjects) /\ chunks \in SUBSET Chunk
  BY <1>1, <1>2
<1> HIDE DEF B
<1>7. /\ sink' \in Sink /\ sink'.names = names
      /\ sink'.pending = {c \in chunks \cup sink.pending : c.obj \notin names}
      /\ \A o \in 1 .. MaxObjects :
            /\ sink'.written[o] <= B[o]
            /\ sink.bytes[o] \subseteq sink'.bytes[o]
            /\ sink'.bytes[o] \subseteq 0 .. sink'.written[o] - 1
      /\ \A c \in chunks \cup sink.pending :
            c.obj \in names => Units(c) \subseteq sink'.bytes[c.obj]
  <2>1. Accounted(sink)
    BY <1>2, <1>5 DEF Accounted
  <2>2. Bounds(B, sink, names, chunks)
    BY <1>3, <1>4 DEF Bounds
  <2>3. Accounted(sink') /\ Received(sink', sink, names, chunks, B)
    BY <1>6, <2>1, <2>2, WrittenFacts
  <2>4. QED
    BY <2>3 DEF Accounted, Received
<1>8. /\ AllChunks' = AllChunks /\ UNCHANGED <<taken, blocks>>
      /\ \A o : CutOf(o)' = CutOf(o)
  BY SameCuts DEF sessionVars, loopVars, netVars
<1>9. ASSUME NEW b \in done', NEW c \in blocks[b + 1]
      PROVE  /\ c.named => c.obj \in names
             /\ c.obj \in names => Units(c) \subseteq sink'.bytes[c.obj]
             /\ c.obj \notin names => c \in sink'.pending
  <2>1. CASE b \in D
    BY <1>7, <2>1
  <2>2. CASE b \in done
    <3>1. /\ c.named => c.obj \in sink.names
          /\ c.obj \in sink.names => Units(c) \subseteq sink.bytes[c.obj]
          /\ c.obj \notin sink.names => c \in sink.pending
      BY <2>2 DEF SinkShape
    <3>2. sink.names \subseteq 1 .. MaxObjects
      BY <1>6
    <3>3. CASE c.obj \in sink.names
      <4>1. c.obj \in 1 .. MaxObjects /\ c.obj \in names
        BY <3>2, <3>3
      <4>2. sink.bytes[c.obj] \subseteq sink'.bytes[c.obj]
        BY <1>7, <4>1
      <4>3. QED
        BY <3>1, <3>3, <4>1, <4>2
    <3>4. CASE c.obj \notin sink.names
      BY <1>7, <3>1, <3>4
    <3>5. QED
      BY <3>3, <3>4
  <2>3. QED
    BY <2>1, <2>2
<1>10. \A c \in sink'.pending : c.obj \notin names /\ c \in AllChunks
  BY <1>2, <1>7
<1>11. \A o \in 1 .. MaxObjects : sink'.written[o] <= CutOf(o)
  BY <1>7 DEF B
<1>12. SinkShape'
  BY <1>7, <1>8, <1>9, <1>10, <1>11 DEF SinkShape
<1>13. QED
  BY <1>7, <1>12

\* The client sends its FINs when it holds as many blocks as a FIN told it,
\* and that is all of them.
LEMMA ClientKeeps ==
    ASSUME IInv, Client
    PROVE  IInv'
<1> USE DEF IInv, MuxConsistent
<1>1. /\ UNCHANGED <<sessionVars, loopVars, threadVars, netVars>>
      /\ done \subseteq done' /\ done' \subseteq done \cup Sent
      /\ total' \in {total} \cup totals
      /\ finNet' \in BOOLEAN /\ client' \in {"run", "done", "failed"}
      /\ finNet' => finNet \/ AllIn
      /\ client' = "done" => client = "done" \/ AllIn
  <2> DEFINE others == UNCHANGED <<sessionVars, loopVars, threadVars, netVars>>
  <2>1. ASSUME NEW o \in Obj, RecvOpen(o) \/ RecvObjectFin(o)
        PROVE  others /\ UNCHANGED <<client, done, total, finNet>>
    BY <2>1 DEF RecvOpen, RecvObjectFin
  <2>2. ASSUME NEW b \in Sent, Decode(b)
        PROVE  others /\ UNCHANGED <<client, total, finNet>> /\ done' = done \cup {b}
    BY <2>2 DEF Decode
  <2>3. ASSUME NEW n \in totals, RecvFin(n)
        PROVE  others /\ UNCHANGED <<client, done, finNet>> /\ total' = n
    BY <2>3 DEF RecvFin
  <2>4. CASE ClientFinish
    <3>1. SinkComplete \in BOOLEAN
      BY DEF SinkComplete
    <3>2. QED
      BY <2>4, <3>1 DEF ClientFinish
  <2>5. CASE ClientGivesUp
    BY <2>5 DEF ClientGivesUp, TypeOK
  <2>6. finNet \in BOOLEAN /\ client \in {"run", "done", "failed"}
    BY DEF TypeOK
  <2> HIDE DEF others
  <2>7. CASE \E o \in Obj : RecvOpen(o) \/ RecvObjectFin(o)
    BY <2>1, <2>6, <2>7 DEF others
  <2>8. CASE \E b \in Sent : Decode(b)
    BY <2>2, <2>6, <2>8 DEF others
  <2>9. CASE \E n \in totals : RecvFin(n)
    BY <2>3, <2>6, <2>9 DEF others
  <2>10. QED
    BY <2>4, <2>5, <2>7, <2>8, <2>9 DEF Client
<1>2. AllIn => totals # {} /\ Sent \subseteq done
  BY DEF AllIn, FinShape, Sent
<1>3. FinShape' /\ DoneShape'
  BY <1>1, <1>2 DEF FinShape, DoneShape, Sent, SenderAt, Idle, sessionVars, loopVars,
     threadVars, netVars
<1>4. CutShape'
  BY <1>1, SameCuts DEF sessionVars, loopVars, netVars
<1>5. total' \in Nat
  BY <1>1 DEF TypeOK
<1> DEFINE SinkIsWell ==
       /\ SinkShape' /\ sink' \in Sink
       /\ \A o \in 1 .. MaxObjects : sink'.bytes[o] \subseteq 0 .. sink'.written[o] - 1
<1>6. SinkIsWell
  <2>1. CASE UNCHANGED <<sink, done>>
    <3>1. SinkShape'
      BY <1>1, <2>1, SameSink DEF sessionVars, loopVars, netVars
    <3>2. /\ sink \in Sink
          /\ \A o \in 1 .. MaxObjects : sink.bytes[o] \subseteq 0 .. sink.written[o] - 1
      BY DEF TypeOK
    <3>3. QED
      BY <2>1, <3>1, <3>2
  <2>2. ASSUME NEW o \in opens \cup fins, sink' = Opened(sink, o), UNCHANGED done
        PROVE  SinkIsWell
    <3>1. o \in 1 .. taken
      BY DEF CutShape
    <3>2. sink.names \cup {o} \subseteq 1 .. taken
      BY <3>1 DEF SinkShape
    <3> DEFINE names == sink.names \cup {o}
               none == {}
    <3>3. sink' = Written(sink, names, none) /\ done' = done \cup none
      BY <2>2 DEF Opened
    <3>4. /\ sink.names \subseteq names
          /\ none \subseteq AllChunks /\ none \subseteq Sent
          /\ \A c \in none : c.named => c.obj \in names
          /\ \A b \in none : blocks[b + 1] \subseteq none
      OBVIOUS
    <3>5. names \subseteq 1 .. taken
      BY <3>2
    <3> HIDE DEF names, none
    <3>6. QED
      BY <1>1, <3>3, <3>4, <3>5, SinkKeeps
  <2>3. ASSUME NEW b \in Sent, Decode(b)
        PROVE  SinkIsWell
    <3> DEFINE chunks == blocks[b + 1]
               names == sink.names \cup {c.obj : c \in {d \in chunks : d.named}}
    <3>1. sink' = Written(sink, names, chunks) /\ done' = done \cup {b}
      BY <2>3 DEF Decode, Ingest
    <3>2. chunks \subseteq AllChunks
      <4>1. Len(blocks) \in Nat
        BY Elements
      <4>2. b + 1 \in 1 .. Len(blocks)
        BY <4>1 DEF Sent
      <4>3. QED
        BY <4>2 DEF AllChunks
    <3>3. names \subseteq 1 .. taken
      BY <3>2 DEF CutShape, SinkShape
    <3>4. \A c \in chunks : c.named => c.obj \in names
      OBVIOUS
    <3>5. {b} \subseteq Sent /\ \A x \in {b} : blocks[x + 1] \subseteq chunks
      OBVIOUS
    <3>6. sink.names \subseteq names
      OBVIOUS
    <3> HIDE DEF names, chunks
    <3>7. QED
      BY <1>1, <3>1, <3>2, <3>3, <3>4, <3>5, <3>6, SinkKeeps
  <2>4. CASE \E o \in Obj : RecvOpen(o) \/ RecvObjectFin(o)
    BY <2>1, <2>2, <2>4 DEF RecvOpen, RecvObjectFin
  <2>5. CASE ClientFinish \/ ClientGivesUp \/ \E n \in totals : RecvFin(n)
    BY <2>1, <2>5 DEF ClientFinish, ClientGivesUp, RecvFin
  <2>6. QED
    BY <2>3, <2>4, <2>5 DEF Client
<1>7. TypeOK'
  BY <1>1, <1>5, <1>6 DEF TypeOK, Sent, Obj, sessionVars, loopVars, threadVars, netVars
<1>8. QED
  BY <1>3, <1>4, <1>6, <1>7

LEMMA StepKeeps == IInv /\ [Next]_vars => IInv'
<1> SUFFICES ASSUME IInv, [Next]_vars PROVE IInv'
  OBVIOUS
<1>1. CASE UNCHANGED vars
  <2>1. CutShape' /\ SinkShape'
    BY <1>1, SameSink DEF IInv, MuxConsistent, vars, sessionVars, loopVars, netVars, clientVars
  <2>2. QED
    BY <1>1, <2>1 DEF IInv, TypeOK, MuxConsistent, FinShape, DoneShape, Sent, Obj, SenderAt,
       Idle, vars, sessionVars, loopVars, threadVars, netVars, clientVars
<1>2. QED
  BY <1>1, ProducerKeeps, LoopKeeps, ThreadKeeps, ClientKeeps DEF Next

-----------------------------------------------------------------------------
(* What follows from the invariant *)

\* A client that has decoded every block of a session whose queue has run dry
\* holds what every object consists of.
LEMMA AllDecoded ==
    ASSUME IInv, Idle, fill = {}, Sent \subseteq done
    PROVE  /\ sink.pending = {}
           /\ \A o \in Obj : /\ sizes[o] > 0 => o \in sink.names /\ Whole(o)
                             /\ o \in fins
           /\ SinkComplete
<1> USE DEF IInv, MuxConsistent
<1>1. /\ Len(sizes) \in Nat /\ Len(blocks) \in Nat /\ taken = Len(sizes) /\ current = 0
      /\ Obj \subseteq 1 .. MaxObjects /\ Obj = 1 .. taken
      /\ \A o \in Obj : sizes[o] \in Nat
  BY Elements DEF Idle, Obj
<1>2. \A o \in Obj : CutOf(o) = sizes[o] /\ o \in fins
  BY <1>1 DEF CutOf, CutShape
<1>3. ASSUME NEW c \in AllChunks
      PROVE  /\ c.named => c.obj \in sink.names
             /\ c.obj \in sink.names => Units(c) \subseteq sink.bytes[c.obj]
             /\ c.obj \in Obj /\ c.off + c.len <= sizes[c.obj]
             /\ c.off \in Nat /\ c.len \in Nat \ {0} /\ (c.off = 0 => c.named)
  <2>1. PICK i \in 1 .. Len(blocks) : c \in blocks[i]
    BY DEF AllChunks
  <2>2. i - 1 \in done /\ (i - 1) + 1 = i
    BY <1>1, <2>1 DEF Sent
  <2>3. \A d \in blocks[(i - 1) + 1] :
           /\ d.named => d.obj \in sink.names
           /\ d.obj \in sink.names => Units(d) \subseteq sink.bytes[d.obj]
    BY <2>2 DEF SinkShape
  <2>4. c \in Chunk
    BY Elements
  <2>5. QED
    BY <1>1, <1>2, <2>1, <2>2, <2>3, <2>4 DEF CutShape, Chunk
<1>4. ASSUME NEW o \in Obj, sizes[o] > 0
      PROVE  o \in sink.names
  <2>1. 0 \in 0 .. CutOf(o) - 1
    BY <1>1, <1>2, <1>4
  <2>2. PICK c \in AllChunks : c.obj = o /\ 0 \in Units(c)
    BY <1>1, <2>1 DEF CutShape
  <2>3. c.off = 0
    BY <1>3, <2>2 DEF Units
  <2>4. QED
    BY <1>3, <2>2, <2>3
<1>5. ASSUME NEW o \in Obj, sizes[o] > 0
      PROVE  0 .. sizes[o] - 1 \subseteq sink.bytes[o]
  <2> SUFFICES ASSUME NEW u \in 0 .. sizes[o] - 1 PROVE u \in sink.bytes[o]
    OBVIOUS
  <2>1. PICK c \in AllChunks : c.obj = o /\ u \in Units(c)
    BY <1>1, <1>2 DEF CutShape
  <2>2. QED
    BY <1>3, <1>4, <1>5, <2>1
<1>6. ASSUME NEW o \in Obj
      PROVE  /\ sink.written[o] \in Nat /\ sink.written[o] <= sizes[o]
             /\ sink.bytes[o] \subseteq 0 .. sink.written[o] - 1
  BY <1>1, <1>2 DEF SinkShape, TypeOK, Sink
<1>7. ASSUME NEW o \in Obj, sizes[o] > 0
      PROVE  Whole(o)
  <2>1. sink.bytes[o] \subseteq 0 .. sizes[o] - 1
    BY <1>1, <1>6
  <2>2. QED
    BY <1>5, <1>7, <2>1 DEF Whole
<1>8. sink.pending = {}
  <2> SUFFICES ASSUME NEW c \in sink.pending PROVE FALSE
    OBVIOUS
  <2>1. c \in AllChunks /\ c.obj \notin sink.names
    BY DEF SinkShape
  <2>2. sizes[c.obj] > 0
    BY <1>1, <1>3, <2>1
  <2>3. QED
    BY <1>3, <1>4, <2>1, <2>2
<1>9. SinkComplete
  <2> SUFFICES ASSUME NEW o \in sink.names PROVE sink.written[o] >= sizes[o]
    BY DEF SinkComplete
  <2>1. o \in Obj
    BY <1>1 DEF SinkShape
  <2>2. CASE sizes[o] = 0
    BY <1>6, <2>1, <2>2
  <2>3. CASE sizes[o] > 0
    <3>1. sizes[o] - 1 \in sink.bytes[o]
      BY <1>1, <1>5, <2>1, <2>3
    <3>2. QED
      BY <1>1, <1>6, <2>1, <3>1
  <2>4. QED
    BY <1>1, <2>1, <2>2, <2>3
<1>10. QED
  BY <1>2, <1>4, <1>7, <1>8, <1>9

\* The types hold in every reachable state; among them, no block is filled
\* beyond its size and a file holds nothing beyond the sink's account of it.
THEOREM TypesHold == Spec => []TypeOK
<1>1. IInv => TypeOK
  BY DEF IInv
<1>2. QED
  BY <1>1, InitEstablishes, StepKeeps, PTL DEF Spec

\* The invariant holds in every reachable state.
THEOREM MuxConsistentAlways == Spec => []MuxConsistent
<1>1. IInv => MuxConsistent
  BY DEF IInv
<1>2. QED
  BY <1>1, InitEstablishes, StepKeeps, PTL DEF Spec

\* The number of blocks a FIN of the sender names never changes again, so the
\* client of a session that is still being filled does not end too early.
THEOREM FinIsFinal == Spec => []FinTotalIsFinal
<1>1. IInv => FinTotalIsFinal
  BY DEF IInv, MuxConsistent, FinShape, FinTotalIsFinal
<1>2. QED
  BY <1>1, InitEstablishes, StepKeeps, PTL DEF Spec

\* A client that reports success holds every byte of every object that has
\* any, in whatever order blocks and announcements came.
THEOREM OkIsWhole == Spec => []OkMeansWhole
<1>1. IInv => OkMeansWhole
  <2> SUFFICES ASSUME IInv, client = "done" PROVE OkMeansWhole
    BY DEF OkMeansWhole
  <2>1. Idle /\ fill = {} /\ Sent \subseteq done
    BY DEF IInv, MuxConsistent, FinShape, DoneShape
  <2>2. QED
    BY <2>1, AllDecoded DEF OkMeansWhole
<1>2. QED
  BY <1>1, InitEstablishes, StepKeeps, PTL DEF Spec

\* A client that holds as many blocks as a FIN told it has no chunk left that
\* waits for a name, and its check passes.
THEOREM StreamIsComplete == Spec => []StreamCompletes
<1>1. IInv => StreamCompletes
  <2> SUFFICES ASSUME IInv, total # 0, 0 .. total - 1 \subseteq done PROVE StreamCompletes
    BY DEF StreamCompletes
  <2>1. totals # {} /\ total = Len(blocks)
    BY DEF IInv, MuxConsistent, FinShape
  <2>2. Idle /\ fill = {} /\ Sent \subseteq done
    BY <2>1 DEF IInv, MuxConsistent, FinShape, Sent
  <2>3. QED
    BY <2>2, AllDecoded DEF StreamCompletes
<1>2. QED
  BY <1>1, InitEstablishes, StepKeeps, PTL DEF Spec

\* A session that returns success has closed its queue, and the client has
\* decoded every block of it and holds every object whole.
THEOREM SuccessMeansDelivered == Spec => []SentMeansDecoded
<1>1. IInv => SentMeansDecoded
  <2> SUFFICES ASSUME IInv, sender = "done" PROVE SentMeansDecoded
    BY DEF SentMeansDecoded
  <2>1. Idle /\ fill = {} /\ Sent = done /\ closed
    BY DEF IInv, MuxConsistent, FinShape, DoneShape, Idle
  <2>2. QED
    BY <2>1, AllDecoded DEF SentMeansDecoded
<1>2. QED
  BY <1>1, InitEstablishes, StepKeeps, PTL DEF Spec
=============================================================================
