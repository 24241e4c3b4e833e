--------------------------- MODULE EncodePipeline ---------------------------
(***************************************************************************)
(* The encode pipeline of BlockSender: first flights are encoded ahead of  *)
(* the send window by a pool of workers that outlives the transfer, come   *)
(* back in any order, and enter the window in block order.                 *)
(*                                                                         *)
(* One server is modelled, over the sessions that fetch the same path one  *)
(* after another; between two sessions an upload may replace the file.  A  *)
(* worker keeps its mmap of the file from one job to the next as long as   *)
(* the path is the same, so it may look at an older version than the       *)
(* session does.  The receiver's side is reduced to what it does to the    *)
(* window: blocks leave it in any order (BlockTransfer has the details).   *)
(***************************************************************************)
EXTENDS Integers, FiniteSets, Sequences

CONSTANTS
    TotalBlocks,    \* blocks of the file
    ActiveBlocks,   \* the admit window
    PrefetchDepth,  \* prefetch_depth
    Worker,         \* processes (or threads) of the pool
    Main,           \* the sender's own process, which encodes as a fallback
    MaxSessions,    \* bound: transfers served
    MaxVersion,     \* bound: times the file is replaced
    MaxFailures     \* bound: encode jobs that raise

ASSUME PipelineAssumption ==
    /\ {TotalBlocks, ActiveBlocks, PrefetchDepth} \subseteq Nat \ {0}
    /\ {MaxSessions, MaxVersion, MaxFailures} \subseteq Nat
    /\ Main \notin Worker

Block == 0 .. TotalBlocks - 1
Version == 0 .. MaxVersion
Session == 0 .. MaxSessions
Unopened == -1
Job == Session \X Block
NoJob == <<-1, -1>>

VARIABLES
    disk,      \* version of the file at the path
    serving,   \* a BlockSender runs
    session,   \* number of the current or last one
    mm,        \* version its own mmap shows (self.mm)
    next,      \* next_block
    active,    \* keys of self.active
    wire,      \* version that the first flight of a block was encoded from
    ready,     \* self.ready: the version a finished encode job has read
    pending,   \* keys of self.pending
    jobs,      \* futures the pool has not started, oldest first
    running,   \* the job of a worker
    cache,     \* _worker_mm of a worker and of the main process
    encoded,   \* self._encoded: finished jobs, and what they read
    failures

poolVars == <<jobs, running, cache>>
vars == <<disk, serving, session, mm, next, active, wire, ready, pending,
          poolVars, encoded, failures>>

\* A finished future: its block, and the version read or the exception.
Failed == -2
Result == [block : Block, version : Version \cup {Failed}]

TypeOK ==
    /\ disk \in Version /\ mm \in Version
    /\ serving \in BOOLEAN /\ session \in Session
    /\ next \in 0 .. TotalBlocks
    /\ active \subseteq Block /\ pending \subseteq Block
    /\ wire \in [Block -> Version \cup {Unopened}]
    /\ ready \in [Block -> Version \cup {Unopened}]
    /\ jobs \in Seq(Job)
    /\ running \in [Worker -> Job \cup {NoJob}]
    /\ cache \in [Worker \cup {Main} -> Version \cup {Unopened}]
    /\ encoded \subseteq Result
    /\ failures \in 0 .. MaxFailures

Init ==
    /\ disk = 0 /\ mm = 0 /\ serving = FALSE /\ session = 0
    /\ next = 0 /\ active = {} /\ pending = {} /\ encoded = {}
    /\ wire = [b \in Block |-> Unopened]
    /\ ready = [b \in Block |-> Unopened]
    /\ jobs = <<>> /\ running = [w \in Worker |-> NoJob]
    /\ cache = [w \in Worker \cup {Main} |-> Unopened]
    /\ failures = 0

\* _worker_open(): the mmap of the same path is kept.
Opened(p) == IF cache[p] = Unopened THEN disk ELSE cache[p]

-----------------------------------------------------------------------------
(* The send loop *)

\* Slip: a job that raised is dropped from the queue and from nothing else.
TakenGood == {r.block : r \in {x \in encoded : x.version >= 0}}

\* _take_encoded() drains the queue of finished futures.  A job that raised
\* is encoded again in this process.
Taken == {r.block : r \in encoded}

Inline == \E r \in encoded : r.version = Failed
ReadyThen ==
    [b \in Block |->
        IF b \in Taken
        THEN LET r == CHOOSE x \in encoded : x.block = b
             IN  IF r.version = Failed THEN Opened(Main) ELSE r.version
        ELSE ready[b]]
IsReady(rdy, b) == rdy[b] # Unopened

\* The blocks that _submit_ahead() wants encoded: the next PrefetchDepth ones
\* that are not in the window.
Horizon(n, act) ==
    {b \in n .. TotalBlocks - 1 :
        b \notin act /\ Cardinality((n .. b) \ act) <= PrefetchDepth}

\* Slip: blocks whose job has not come back are submitted again.
SubmittableAgain(n, act, rdy, pend) == {b \in Horizon(n, act) : ~IsReady(rdy, b)}

\* Slip: the horizon starts anew at every block that is already on its way.
SubmittableUnbounded(n, act, rdy, pend) ==
    {b \in n .. TotalBlocks - 1 : b \notin act /\ ~IsReady(rdy, b) /\ b \notin pend}

\* Slip: the depth is not cut at the end of the file.
SubmittablePastEnd(n, act, rdy, pend) ==
    {b \in n .. n + PrefetchDepth - 1 :
        b \in Block => b \notin act /\ ~IsReady(rdy, b) /\ b \notin pend}

Submittable(n, act, rdy, pend) ==
    {b \in Horizon(n, act) : ~IsReady(rdy, b) /\ b \notin pend}

\* The elements of a set of blocks in ascending order.
Ascending(S) ==
    {q \in [1 .. Cardinality(S) -> S] : \A i, j \in DOMAIN q : i < j => q[i] < q[j]}

\* The jobs of session s for the blocks q, in their order.
Futures(s, q) == [i \in DOMAIN q |-> <<s, q[i]>>]

\* _submit_ahead() of session s with the window n, act and the pipeline rdy,
\* pend: the new jobs queue up in block order.
SubmitAhead(s, n, act, rdy, pend) ==
    LET new == Submittable(n, act, rdy, pend)
    IN  /\ pending' = pend \cup new
        /\ \E q \in Ascending(new) : jobs' = jobs \o Futures(s, q)

TakeEncoded ==
    /\ encoded' = {}
    /\ cache' = IF Inline THEN [cache EXCEPT ![Main] = Opened(Main)] ELSE cache

\* The loop drops from the window what the receiver has completed, takes
\* what is encoded and submits ahead; that is also all that _admit_source()
\* does when the next block is still being encoded.
Turn(S) ==
    /\ serving
    /\ active' = active \ S
    /\ TakeEncoded /\ ready' = ReadyThen
    /\ SubmitAhead(session, next, active \ S, ReadyThen, pending \ Taken)
    /\ UNCHANGED <<disk, serving, session, mm, next, wire, running, failures>>

\* _admit_source() with the next block at hand: it enters the window, its
\* first flight is sent, and the pipeline is topped up.
AdmitReady ==
    /\ serving /\ next < TotalBlocks /\ Cardinality(active) < ActiveBlocks
    /\ IsReady(ReadyThen, next)
    /\ active' = active \cup {next}
    /\ wire' = [wire EXCEPT ![next] = ReadyThen[next]]
    /\ next' = next + 1
    /\ LET left == [ReadyThen EXCEPT ![next] = Unopened]
       IN  /\ TakeEncoded /\ ready' = left
           /\ SubmitAhead(session, next + 1, active \cup {next}, left, pending \ Taken)
    /\ UNCHANGED <<disk, serving, session, mm, running, failures>>

\* run() starts: mmap, and the first jobs.
StartSession ==
    /\ ~serving /\ session < MaxSessions
    /\ serving' = TRUE /\ session' = session + 1 /\ mm' = disk
    /\ next' = 0 /\ active' = {} /\ encoded' = {}
    /\ wire' = [b \in Block |-> Unopened]
    /\ LET none == [b \in Block |-> Unopened]
       IN  ready' = none /\ SubmitAhead(session + 1, 0, {}, none, {})
    /\ UNCHANGED <<disk, running, cache, failures>>

\* run() ends, successfully or not: pending futures that have not started are
\* cancelled; jobs in a worker go on and report to a queue nobody reads.
EndSession ==
    /\ serving
    /\ serving' = FALSE
    /\ jobs' = <<>>
    /\ UNCHANGED <<disk, session, mm, next, active, wire, ready, pending,
                   running, cache, encoded, failures>>

-----------------------------------------------------------------------------
(* The pool *)

\* A free worker takes the oldest future and opens the file.
WorkerTakes(w) ==
    /\ running[w] = NoJob /\ jobs # <<>>
    /\ running' = [running EXCEPT ![w] = Head(jobs)]
    /\ jobs' = Tail(jobs)
    /\ cache' = [cache EXCEPT ![w] = Opened(w)]
    /\ UNCHANGED <<disk, serving, session, mm, next, active, wire, ready,
                   pending, encoded, failures>>

\* Slip: one queue of finished jobs for all sessions.
AnySession(job) == job # NoJob

\* The done callback puts the future in the queue of the sender that
\* submitted it.
OwnSession(job) == serving /\ job[1] = session

Finish(w, version) ==
    /\ running[w] # NoJob
    /\ encoded' = IF OwnSession(running[w])
                  THEN encoded \cup {[block |-> running[w][2], version |-> version]}
                  ELSE encoded
    /\ running' = [running EXCEPT ![w] = NoJob]
    /\ UNCHANGED <<disk, serving, session, mm, next, active, wire, ready,
                   pending, jobs, cache>>

WorkerDone(w) == Finish(w, cache[w]) /\ UNCHANGED failures

WorkerFails(w) ==
    /\ failures < MaxFailures /\ failures' = failures + 1
    /\ Finish(w, Failed)

\* An upload stores a new file at the path (os.replace in _recv_upload).
ReplaceFile ==
    /\ ~serving /\ disk < MaxVersion
    /\ disk' = disk + 1
    /\ UNCHANGED <<serving, session, mm, next, active, wire, ready, pending,
                   poolVars, encoded, failures>>

Next ==
    \/ StartSession \/ EndSession \/ AdmitReady \/ ReplaceFile
    \/ \E S \in SUBSET active : Turn(S)
    \/ \E w \in Worker : WorkerTakes(w) \/ WorkerDone(w) \/ WorkerFails(w)

\* The send loop turns, every worker works, and the receiver completes the
\* blocks of the window.
Fairness ==
    /\ WF_vars(AdmitReady)
    /\ WF_vars(\E S \in SUBSET active : (S # {} \/ encoded # {}) /\ Turn(S))
    /\ \A w \in Worker : WF_vars(WorkerTakes(w)) /\ WF_vars(WorkerDone(w))

Spec == Init /\ [][Next]_vars
FairSpec == Spec /\ Fairness

-----------------------------------------------------------------------------
(* Properties *)

Sources(b) ==
    Cardinality({i \in 1 .. Len(jobs) : jobs[i] = <<session, b>>})
    + Cardinality({w \in Worker : running[w] = <<session, b>>})
    + Cardinality({r \in encoded : r.block = b})

\* Every pending block has exactly one job on its way through the pool, and a
\* block that is not pending has none: the loop neither waits for a job that
\* does not exist nor has a block encoded twice, however jobs overtake each
\* other, fail, or stay in a worker after their session.
PendingHasOneJob ==
    serving => \A b \in Block : Sources(b) = IF b \in pending THEN 1 ELSE 0

\* Encoded blocks wait in memory for the window: at most PrefetchDepth of
\* them at any time, none of them one that was admitted already.
PrefetchBounded ==
    LET ahead == {b \in Block : IsReady(ready, b)} \cup pending
    IN  serving => /\ Cardinality(ahead) <= PrefetchDepth
                   /\ ahead \subseteq next .. TotalBlocks - 1

\* A session that is not ended from outside admits every block, whatever jobs
\* raise.
AllAdmitted == serving ~> (~serving \/ next = TotalBlocks)

\* The version of the file that _encoder_for() makes repair symbols from: its
\* encoders are built from the session's mmap, cached or not.
RepairVersion == mm

\* rebuild_block_encoder() claims to rebuild the encoder of a block exactly
\* ("Deterministic encoder rebuild from mmap", block_xfer.py:248): the repair
\* symbols it makes from the session's mmap then belong to the same block
\* contents as the first flight of the worker.
RebuildMatchesFlight ==
    serving => \A b \in active : wire[b] = RepairVersion
=============================================================================
