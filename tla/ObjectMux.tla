------------------------------ MODULE ObjectMux ------------------------------
(***************************************************************************)
(* Many objects in one stream: ObjectSession, run_object_session() and     *)
(* consume_object_stream() of object_xfer.py with the frames of            *)
(* object_frames.py.  A producer thread puts objects into the session and  *)
(* closes it; the send loop cuts them into chunks, packs the chunks into   *)
(* blocks and announces each object in single datagrams (ObjectOpen,       *)
(* ObjectFin); the client decodes blocks in any order and its sink puts    *)
(* the objects together again.                                             *)
(*                                                                         *)
(* How the symbols of a block travel and how a block is repaired is the    *)
(* subject of BlockTransfer.  Here a block that was sent may be decoded at *)
(* any later time, and a feedback makes any of the decoded blocks known to *)
(* the sender (which completed lists can arrive is modelled there, too).   *)
(* A datagram that was sent may arrive at any later time, again, or never. *)
(*                                                                         *)
(* Bytes are counted in units, a frame header among them.  The chunks of a *)
(* block are a set: the sink keeps the furthest end it has written to, so  *)
(* their order inside a block makes no difference.  Timers are choices.    *)
(* The unpacking of pack files after the last block, the counts for the    *)
(* progress display and the cache of 64 file descriptors are left out.     *)
(* "Slip" marks a plausible mistake, as in BlockTransfer.                  *)
(***************************************************************************)
EXTENDS Integers, FiniteSetsExt, Sequences

CONSTANTS
    MaxObjects,    \* bound: objects put into the session
    ObjectSizes,   \* the sizes an object may have
    BlockUnits,    \* block_bytes
    Hdr,           \* FRAME_HDR
    NameHdr,       \* what a name and a size add to the first frame of an object
    ActiveBlocks   \* the admit window

ASSUME MuxAssumption ==
    /\ MaxObjects \in Nat
    /\ ObjectSizes \subseteq Nat
    /\ {Hdr, NameHdr} \subseteq Nat
    /\ BlockUnits \in Nat /\ BlockUnits > Hdr + NameHdr
    /\ ActiveBlocks \in Nat \ {0}

VARIABLES
    \* ObjectSession, shared by the producer and the send loop
    sizes,      \* size of every object put so far; its index is the obj_id
    taken,      \* objects that left the pending queue
    closed,
    \* run_object_session(), the send loop
    pc,         \* "top", "fill", "send" or "end"
    sender,     \* "run", "done" (0 returned) or "aborted"
    current,    \* the object being cut up, 0 for None
    pos,        \* units of it already in chunks
    fill,       \* the chunks of the block being built
    used,       \* BlockFill._pos: what they and their headers take up
    blocks,     \* the payloads of the blocks sent; block b is blocks[b + 1]
    active,
    \* its feedback thread
    completed, clientFin,
    \* datagrams of the sender: announced and finished objects, totals in FINs
    opens, fins, totals,
    \* consume_object_stream(), the client
    client,     \* "run", "done" or "failed"
    done,       \* blocks decoded and ingested
    total,      \* total_blocks, 0 for None
    sink,       \* _Sink
    finNet      \* FINs of the client are on the wire

sessionVars == <<sizes, taken, closed>>
loopVars == <<pc, sender, current, pos, fill, used, blocks, active>>
threadVars == <<completed, clientFin>>
netVars == <<opens, fins, totals>>
clientVars == <<client, done, total, sink, finNet>>
vars == <<sessionVars, loopVars, threadVars, netVars, clientVars>>

Obj == 1 .. Len(sizes)
Sent == 0 .. Len(blocks) - 1

Chunk == [obj : Nat \ {0}, off : Nat, len : Nat \ {0}, named : BOOLEAN]
Units(c) == c.off .. c.off + c.len - 1

\* `bytes' is what the files hold, `written' the sink's own account of it.
Sink == [names : SUBSET (1 .. MaxObjects),
         written : [1 .. MaxObjects -> Nat],
         bytes : [1 .. MaxObjects -> SUBSET Nat],
         pending : SUBSET Chunk]

EmptySink ==
    [names |-> {}, written |-> [o \in 1 .. MaxObjects |-> 0],
     bytes |-> [o \in 1 .. MaxObjects |-> {}], pending |-> {}]

TypeOK ==
    /\ sizes \in Seq(ObjectSizes) /\ Len(sizes) <= MaxObjects
    /\ taken \in 0 .. Len(sizes)
    /\ closed \in BOOLEAN
    /\ pc \in {"top", "fill", "send", "end"}
    /\ sender \in {"run", "done", "aborted"}
    /\ current \in {0, taken}
    /\ pos \in Nat
    /\ fill \subseteq Chunk
    /\ used \in 0 .. BlockUnits
    /\ blocks \in Seq(SUBSET Chunk)
    /\ active \subseteq Sent
    /\ completed \subseteq Sent
    /\ clientFin \in BOOLEAN
    /\ opens \subseteq Obj /\ fins \subseteq Obj
    /\ totals \subseteq Nat \ {0}
    /\ client \in {"run", "done", "failed"}
    /\ done \subseteq Sent
    /\ total \in Nat
    /\ sink \in Sink
    /\ \A o \in 1 .. MaxObjects : sink.bytes[o] \subseteq 0 .. sink.written[o] - 1
    /\ finNet \in BOOLEAN

Init ==
    /\ sizes = <<>> /\ taken = 0 /\ closed = FALSE
    /\ pc = "top" /\ sender = "run"
    /\ current = 0 /\ pos = 0 /\ fill = {} /\ used = 0 /\ blocks = <<>> /\ active = {}
    /\ completed = {} /\ clientFin = FALSE
    /\ opens = {} /\ fins = {} /\ totals = {}
    /\ client = "run" /\ done = {} /\ total = 0 /\ sink = EmptySink
    /\ finNet = FALSE

-----------------------------------------------------------------------------
(* The producer: queue_disk_files() before the session starts, or the feed *)
(* thread of object_cli.py while it runs.                                  *)

\* ObjectSession.put(), refused once the session is closed.
Put(n) ==
    /\ ~closed /\ Len(sizes) < MaxObjects
    /\ sizes' = Append(sizes, n)
    /\ UNCHANGED <<taken, closed, loopVars, threadVars, netVars, clientVars>>

Close ==
    /\ ~closed
    /\ closed' = TRUE
    /\ UNCHANGED <<sizes, taken, loopVars, threadVars, netVars, clientVars>>

-----------------------------------------------------------------------------
(* The send loop *)

SenderAt(where) == sender = "run" /\ pc = where

\* Slip: the object being cut up is forgotten.
IdleWithCurrent == closed /\ taken = Len(sizes)

\* ObjectSession.idle(): no chunk will ever follow.
Idle == closed /\ taken = Len(sizes) /\ current = 0

\* The top of a turn: snapshot, abort checks that let it go on, reap.
LoopTop ==
    /\ SenderAt("top") /\ ~clientFin
    /\ active' = active \ completed
    /\ pc' = IF Cardinality(active') < ActiveBlocks THEN "fill" ELSE "end"
    /\ UNCHANGED <<sender, current, pos, fill, used, blocks>>
    /\ UNCHANGED <<sessionVars, threadVars, netVars, clientVars>>

\* BlockFill.space()
Space == BlockUnits - used

\* frame_overhead() of the next chunk of an object of which p units are cut.
Overhead(p) == IF p = 0 THEN Hdr + NameHdr ELSE Hdr

\* The object _fill_block() works on next, 0 when there is none.
Candidate ==
    IF current # 0 THEN current
    ELSE IF taken < Len(sizes) THEN taken + 1
    ELSE 0

\* The chunk BlockFill.take() cuts off object o after p units.
NextChunk(o, p) ==
    LET room == Space - Overhead(p)
        rest == sizes[o] - p
    IN  [obj |-> o, off |-> p, len |-> IF rest < room THEN rest ELSE room,
         named |-> p = 0]

\* One turn of the loop of _fill_block().  The object is announced even when
\* its first frame no longer fits; an empty one is announced and finished
\* without a chunk.  In both cases the block ends here.
FillTurn ==
    /\ SenderAt("fill") /\ Space > Hdr /\ Candidate # 0
    /\ LET o == Candidate
           p == IF current # 0 THEN pos ELSE 0
           takes == Space > Overhead(p) /\ p < sizes[o]
           cut == IF takes THEN p + NextChunk(o, p).len ELSE p
           whole == cut >= sizes[o]
       IN  /\ taken' = o
           /\ opens' = opens \cup {o}
           /\ fill' = IF takes THEN fill \cup {NextChunk(o, p)} ELSE fill
           /\ used' = IF takes THEN used + Overhead(p) + NextChunk(o, p).len ELSE used
           /\ fins' = IF whole THEN fins \cup {o} ELSE fins
           /\ current' = IF whole THEN 0 ELSE o
           /\ pos' = IF whole THEN 0 ELSE cut
           /\ pc' = IF takes THEN "fill" ELSE "send"
    /\ UNCHANGED <<sizes, closed, sender, blocks, active, totals>>
    /\ UNCHANGED <<threadVars, clientVars>>

\* _fill_block() returns: the block is full or nothing is pending.
FillEnd ==
    /\ SenderAt("fill") /\ (Space <= Hdr \/ Candidate = 0)
    /\ pc' = "send"
    /\ UNCHANGED <<sender, current, pos, fill, used, blocks, active>>
    /\ UNCHANGED <<sessionVars, threadVars, netVars, clientVars>>

\* A filled block is sent and enters the window; an empty one ends admission.
SendBlock ==
    /\ SenderAt("send")
    /\ IF fill = {}
       THEN pc' = "end" /\ UNCHANGED <<blocks, active>>
       ELSE /\ blocks' = Append(blocks, fill)
            /\ active' = active \cup {Len(blocks)}
            /\ pc' = IF Cardinality(active') < ActiveBlocks THEN "fill" ELSE "end"
    /\ fill' = {} /\ used' = 0
    /\ UNCHANGED <<sender, current, pos>>
    /\ UNCHANGED <<sessionVars, threadVars, netVars, clientVars>>

\* Slip: the loop leaves although blocks are still in the window.
DrainedEarly == Idle /\ blocks # <<>>

\* Nothing to send and nothing to repair: two seconds of it end the loop.
Drained == Idle /\ active = {} /\ blocks # <<>>

\* The end of a turn.  When the session is idle a FIN says how many blocks
\* there are; a drained session may end without hearing from the client.
LoopEnd ==
    /\ SenderAt("end")
    /\ totals' = IF Idle /\ blocks # <<>> THEN totals \cup {Len(blocks)} ELSE totals
    /\ \/ pc' = "top" /\ UNCHANGED sender
       \/ Drained /\ sender' = "done" /\ UNCHANGED pc
    /\ UNCHANGED <<current, pos, fill, used, blocks, active, opens, fins>>
    /\ UNCHANGED <<sessionVars, threadVars, clientVars>>

SenderExitFin ==
    /\ SenderAt("top") /\ clientFin
    /\ sender' = "done"
    /\ UNCHANGED <<pc, current, pos, fill, used, blocks, active>>
    /\ UNCHANGED <<sessionVars, threadVars, netVars, clientVars>>

\* The user cancels or the client has been silent too long: looked at in the
\* top of a turn, before a block is filled and in the repair tick.
SenderAbort ==
    /\ \/ SenderAt("top") /\ ~clientFin
       \/ SenderAt("fill") /\ fill = {}
       \/ SenderAt("end") /\ active # {}
    /\ sender' = "aborted"
    /\ UNCHANGED <<pc, current, pos, fill, used, blocks, active>>
    /\ UNCHANGED <<sessionVars, threadVars, netVars, clientVars>>

\* A cancel seen while a block is sent: enough of its symbols may be out for
\* the client to decode it, but it does not count as a block of the session.
CancelWhileSending ==
    /\ SenderAt("send") /\ fill # {}
    /\ blocks' = Append(blocks, fill)
    /\ sender' = "aborted"
    /\ UNCHANGED <<pc, current, pos, fill, used, active>>
    /\ UNCHANGED <<sessionVars, threadVars, netVars, clientVars>>

-----------------------------------------------------------------------------
(* The feedback thread *)

\* A feedback that lists S among its completed blocks.
ApplyFeedback(S) ==
    /\ sender = "run"
    /\ completed' = completed \cup S
    /\ UNCHANGED <<clientFin, sessionVars, loopVars, netVars, clientVars>>

RecvClientFin ==
    /\ sender = "run" /\ finNet
    /\ clientFin' = TRUE
    /\ UNCHANGED <<completed, sessionVars, loopVars, netVars, clientVars>>

-----------------------------------------------------------------------------
(* The sink *)

\* Slip: the account follows the latest chunks instead of the furthest one.
LatestMark(mark, ends) == IF ends = {} THEN mark ELSE Max(ends)

\* The sink's account of an object: how far it has been written.
HighWater(mark, ends) == Max({mark} \cup ends)

\* Slip: the chunks that waited are not looked at again.
WrittenButForgets(s, names, chunks) ==
    LET of(o) == {c \in chunks : c.obj = o /\ o \in names}
    IN  [names |-> names,
         written |-> [o \in 1 .. MaxObjects |->
                        HighWater(s.written[o], {c.off + c.len : c \in of(o)})],
         bytes |-> [o \in 1 .. MaxObjects |->
                        s.bytes[o] \cup UNION {Units(c) : c \in of(o)}],
         pending |-> s.pending \cup {c \in chunks : c.obj \notin names}]

\* _Sink.write() of these chunks and of those that waited for one of these
\* names: a chunk of an object without a name waits.
Written(s, names, chunks) ==
    LET all == chunks \cup s.pending
        of(o) == {c \in all : c.obj = o /\ o \in names}
    IN  [names |-> names,
         written |-> [o \in 1 .. MaxObjects |->
                        HighWater(s.written[o], {c.off + c.len : c \in of(o)})],
         bytes |-> [o \in 1 .. MaxObjects |->
                        s.bytes[o] \cup UNION {Units(c) : c \in of(o)}],
         pending |-> {c \in all : c.obj \notin names}]

\* _Sink.open(): the object gets its name and the chunks that waited for it.
Opened(s, o) == Written(s, s.names \cup {o}, {})

\* Slip: the name in the first frame is ignored.
IngestNameless(s, chunks) == Written(s, s.names, chunks)

\* _Sink.ingest(): the chunks of a decoded block, the first one of an object
\* with its name.
Ingest(s, chunks) ==
    Written(s, s.names \cup {c.obj : c \in {d \in chunks : d.named}}, chunks)

\* _Sink.check() passes: by its own account every named object is complete.
SinkComplete == \A o \in sink.names : sink.written[o] >= sizes[o]

-----------------------------------------------------------------------------
(* The client *)

\* ObjectOpen, ignored for an object that has a name.
RecvOpen(o) ==
    /\ client = "run" /\ o \in opens \ sink.names
    /\ sink' = Opened(sink, o)
    /\ UNCHANGED <<client, done, total, finNet>>
    /\ UNCHANGED <<sessionVars, loopVars, threadVars, netVars>>

\* ObjectFin, which names the object too when nothing else has.
RecvObjectFin(o) ==
    /\ client = "run" /\ o \in fins
    /\ sink' = IF o \in sink.names THEN sink ELSE Opened(sink, o)
    /\ UNCHANGED <<client, done, total, finNet>>
    /\ UNCHANGED <<sessionVars, loopVars, threadVars, netVars>>

\* The symbol that completes block b arrives.
Decode(b) ==
    /\ client = "run" /\ b \in Sent \ done
    /\ sink' = Ingest(sink, blocks[b + 1])
    /\ done' = done \cup {b}
    /\ UNCHANGED <<client, total, finNet>>
    /\ UNCHANGED <<sessionVars, loopVars, threadVars, netVars>>

RecvFin(n) ==
    /\ client = "run" /\ n \in totals
    /\ total' = n
    /\ UNCHANGED <<client, done, sink, finNet>>
    /\ UNCHANGED <<sessionVars, loopVars, threadVars, netVars>>

\* Slip: one block too few.
AllButLastIn == total # 0 /\ 0 .. total - 2 \subseteq done /\ sink.pending = {}

\* The loop of consume_object_stream() is over.
AllIn == total # 0 /\ 0 .. total - 1 \subseteq done /\ sink.pending = {}

\* After the loop: check() raises or the client sends its FINs.
ClientFinish ==
    /\ client = "run" /\ AllIn
    /\ client' = IF SinkComplete THEN "done" ELSE "failed"
    /\ finNet' = SinkComplete
    /\ UNCHANGED <<done, total, sink>>
    /\ UNCHANGED <<sessionVars, loopVars, threadVars, netVars>>

\* timeout_s after its start, however much has arrived since, or on a cancel,
\* which the loop looks at before it looks whether all is in.
ClientGivesUp ==
    /\ client = "run"
    /\ client' = "failed"
    /\ UNCHANGED <<done, total, sink, finNet>>
    /\ UNCHANGED <<sessionVars, loopVars, threadVars, netVars>>

-----------------------------------------------------------------------------

Producer == Close \/ \E n \in ObjectSizes : Put(n)

SendLoop ==
    \/ LoopTop \/ FillTurn \/ FillEnd \/ SendBlock \/ LoopEnd
    \/ SenderExitFin \/ SenderAbort \/ CancelWhileSending

FeedbackThread == RecvClientFin \/ \E S \in SUBSET done : ApplyFeedback(S)

Client ==
    \/ \E o \in Obj : RecvOpen(o) \/ RecvObjectFin(o)
    \/ \E b \in Sent : Decode(b)
    \/ \E n \in totals : RecvFin(n)
    \/ ClientFinish \/ ClientGivesUp

Next == Producer \/ SendLoop \/ FeedbackThread \/ Client

Spec == Init /\ [][Next]_vars

\* The threads keep running, the producer closes its session, every block is
\* repaired until it decodes (FileArrives of BlockTransferLive), and of the
\* FINs and feedbacks that are repeated all the time one arrives.
FairSpec ==
    /\ Spec
    /\ WF_vars(Close)
    /\ WF_vars(LoopTop) /\ WF_vars(FillTurn) /\ WF_vars(FillEnd)
    /\ WF_vars(SendBlock) /\ WF_vars(LoopEnd) /\ WF_vars(SenderExitFin)
    /\ WF_vars(ApplyFeedback(done)) /\ WF_vars(RecvClientFin)
    /\ WF_vars(\E b \in Sent : Decode(b))
    /\ WF_vars(\E n \in totals : RecvFin(n))
    /\ WF_vars(ClientFinish)

-----------------------------------------------------------------------------
(* Properties *)

Whole(o) == sink.bytes[o] = 0 .. sizes[o] - 1

\* The total in a FIN, taken while a producer may still put objects, is the
\* number of blocks of the session now and for ever, so a client that holds
\* that many blocks has not missed one that is yet to come.
FinTotalIsFinal == \A n \in totals : n = Len(blocks)

\* A client that reports success holds every byte of every object that has
\* any, although the sink only keeps a high-water mark per object, and names
\* arrive in datagrams that may be lost.  (An empty object exists nowhere but
\* in those datagrams.)
OkMeansWhole ==
    client = "done" =>
        \A o \in Obj : sizes[o] > 0 => o \in sink.names /\ Whole(o)

\* Once all blocks are in, no chunk waits for a name and check() passes,
\* whatever the order in which blocks, opens and fins came: a client whose
\* stream is complete neither hangs nor fails.
StreamCompletes ==
    (total # 0 /\ 0 .. total - 1 \subseteq done) =>
        sink.pending = {} /\ SinkComplete

\* A session that reports success has delivered: the client decoded every
\* block and the blocks hold every object, also when the loop ended by its
\* timer, without a FIN of the client.
SentMeansDecoded ==
    sender = "done" => /\ done = Sent /\ closed
                       /\ \A o \in Obj : o \in fins
                       /\ \A o \in Obj : sizes[o] > 0 => Whole(o)

\* The stream comes to its end unless one side gives up or there is nothing
\* to send.
ObjectsArrive ==
    <>(\/ client \in {"done", "failed"} \/ sender = "aborted"
       \/ closed /\ \A o \in Obj : sizes[o] = 0)

-----------------------------------------------------------------------------
(* The invariant the proofs of ObjectMuxProofs are by induction on.         *)

\* How much of an object has been cut into chunks, and the chunks.
CutOf(o) == IF o = current THEN pos ELSE IF o <= taken THEN sizes[o] ELSE 0
AllChunks == fill \cup UNION {blocks[i] : i \in 1 .. Len(blocks)}

\* A FIN is only sent when nothing is left to send, and nothing comes after.
FinShape ==
    /\ SenderAt("top") \/ SenderAt("end") => fill = {}
    /\ totals # {} => Idle /\ fill = {}
    /\ sender = "done" => Idle /\ fill = {}
    /\ \A n \in totals : n = Len(blocks) /\ n # 0
    /\ total \in totals \cup {0}

\* A block stays in the window until it is decoded, and the client's FIN
\* comes after the last one.
DoneShape ==
    /\ completed \subseteq done /\ done \subseteq Sent
    /\ sender # "aborted" => Sent \subseteq active \cup completed
    /\ finNet \/ clientFin \/ client = "done" => totals # {} /\ Sent \subseteq done
    /\ sender = "done" => Sent \subseteq done

\* The chunks cover what has been cut of every object and nothing else, and
\* the first one of an object carries its name.
CutShape ==
    /\ current # 0 => pos < sizes[current]
    /\ current = 0 => pos = 0
    /\ opens \cup fins \subseteq 1 .. taken
    /\ \A o \in 1 .. taken : o # current => o \in fins
    /\ \A c \in AllChunks :
          /\ c.obj \in 1 .. taken /\ c.off + c.len <= CutOf(c.obj)
          /\ c.named = (c.off = 0)
    /\ \A o \in 1 .. taken : \A u \in 0 .. CutOf(o) - 1 :
          \E c \in AllChunks : c.obj = o /\ u \in Units(c)

\* What was decoded is in the files or waits for a name.
SinkShape ==
    /\ sink.names \subseteq 1 .. taken
    /\ \A b \in done : \A c \in blocks[b + 1] :
          /\ c.named => c.obj \in sink.names
          /\ c.obj \in sink.names => Units(c) \subseteq sink.bytes[c.obj]
          /\ c.obj \notin sink.names => c \in sink.pending
    /\ \A c \in sink.pending : c.obj \notin sink.names /\ c \in AllChunks
    /\ \A o \in 1 .. MaxObjects : sink.written[o] <= CutOf(o)

MuxConsistent == FinShape /\ DoneShape /\ CutShape /\ SinkShape
=============================================================================
