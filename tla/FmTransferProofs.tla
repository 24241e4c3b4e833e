-------------------------- MODULE FmTransferProofs --------------------------
(***************************************************************************)
(* Theorems about FmTransfer, for any number of epochs and items.          *)
(*                                                                         *)
(* LockHasAWorker, ResultIsShown and CancelStopsDelete are not inductive.  *)
(* FmConsistent adds what they rest on: which epoch has a worker at all,   *)
(* what a running worker of the current epoch implies, and the counters of *)
(* a delete.                                                               *)
(***************************************************************************)
EXTENDS FmTransfer, TLAPS

Running(e) == at[e] \in {"check", "work", "finish"}

\* Only epochs that were begun have a worker, and the modal is of the current
\* one.
Generations ==
    /\ \A e \in Epoch : e > epoch => at[e] = "idle"
    /\ modal \in {None, epoch}

\* The worker of the current epoch, the lock and the waiting result.
Current ==
    /\ active => epoch \in Epoch /\ Running(epoch) /\ modal = epoch /\ ~done
    /\ epoch \in Epoch /\ Running(epoch) => active
    /\ done => /\ epoch \in Epoch /\ modal = epoch /\ at[epoch] = "ended"
               /\ result = "ok" /\ kind[epoch] = "delete" => left[epoch] = 0

\* A delete between two items has items left, one that finishes has none.
ItemsLeft ==
    \A e \in Epoch : kind[e] = "delete" =>
        /\ at[e] \in {"check", "work"} => left[e] > 0
        /\ at[e] = "finish" => left[e] = 0

\* A delete removes an item late once, out of the work it was cancelled in.
LateItems ==
    \A e \in Epoch : /\ late[e] <= 1
                     /\ late[e] > 0 => e < epoch /\ at[e] # "work"

FmConsistent == Generations /\ Current /\ ItemsLeft /\ LateItems

IInv == TypeOK /\ FmConsistent

LEMMA FmInit == Init => IInv
<1> SUFFICES ASSUME Init
             PROVE  IInv
  OBVIOUS
<1>1. TypeOK
  <2>1. epoch \in 0 .. MaxEpoch /\ 0 \in 0 .. Items
    BY FmAssumption DEF Init
  <2>2. active \in BOOLEAN /\ done \in BOOLEAN
    BY DEF Init
  <2>3. QED
    BY <2>1, <2>2 DEF Init, TypeOK
<1>2. FmConsistent
  BY DEF Init, FmConsistent, Generations, Current, ItemsLeft, LateItems, Running,
     Epoch, None
<1>3. QED
  BY <1>1, <1>2 DEF IInv

\* begin() takes an epoch that no worker has.
LEMMA StartKeeps ==
    ASSUME IInv, NEW k \in {"copy", "delete"}, StartTransfer(k)
    PROVE  IInv'
<1> DEFINE n == epoch + 1
<1>1. /\ n \in Epoch /\ n \in Int /\ epoch' = n /\ epoch \in Int
      /\ at[n] = "idle" /\ \A e \in Epoch : e \in Int /\ late[e] \in Int
  BY FmAssumption DEF IInv, TypeOK, FmConsistent, Generations, StartTransfer, Epoch
<1>2. TypeOK'
  <2>1. epoch' \in 0 .. MaxEpoch /\ Items \in 0 .. Items
    BY <1>1, FmAssumption DEF Epoch
  <2>2. active' \in BOOLEAN /\ done' \in BOOLEAN
    BY DEF StartTransfer
  <2>3. QED
    BY <1>1, <2>1, <2>2 DEF IInv, TypeOK, StartTransfer
<1>3. Generations'
  BY <1>1 DEF IInv, TypeOK, FmConsistent, Generations, StartTransfer, Epoch
<1>4. Current'
  BY <1>1 DEF IInv, TypeOK, Current, StartTransfer, Running
<1>5. ItemsLeft'
  BY <1>1, FmAssumption DEF IInv, TypeOK, FmConsistent, ItemsLeft, StartTransfer
<1>6. LateItems'
  BY <1>1 DEF IInv, TypeOK, FmConsistent, LateItems, StartTransfer
<1>7. QED
  BY <1>2, <1>3, <1>4, <1>5, <1>6 DEF IInv, FmConsistent

\* abandon() leaves the epoch without a worker.
LEMMA CancelKeeps ==
    ASSUME IInv, Cancel
    PROVE  IInv'
<1>1. TypeOK'
  <2>1. epoch' \in 0 .. MaxEpoch
    BY FmAssumption DEF IInv, TypeOK, Cancel
  <2>2. active' \in BOOLEAN /\ done' \in BOOLEAN
    BY DEF Cancel
  <2>3. QED
    BY <2>1, <2>2 DEF IInv, TypeOK, Cancel, work
<1>2. Generations'
  BY FmAssumption DEF IInv, TypeOK, FmConsistent, Generations, Cancel, work, Epoch
<1>3. Current'
  <2>1. epoch + 1 \in Epoch => at[epoch + 1] = "idle"
    BY DEF IInv, TypeOK, FmConsistent, Generations
  <2>2. QED
    BY <2>1 DEF Cancel, Current, Running, work
<1>4. ItemsLeft'
  BY DEF IInv, FmConsistent, ItemsLeft, Cancel, work
<1>5. LateItems'
  BY FmAssumption DEF IInv, TypeOK, FmConsistent, LateItems, Cancel, work, Epoch
<1>6. QED
  BY <1>1, <1>2, <1>3, <1>4, <1>5 DEF IInv, FmConsistent

LEMMA TickKeeps ==
    ASSUME IInv, Tick
    PROVE  IInv'
BY DEF IInv, TypeOK, FmConsistent, Generations, Current, ItemsLeft, LateItems,
   Running, Tick, work

LEMMA ProgressKeeps ==
    ASSUME IInv, NEW e \in Epoch, Progress(e)
    PROVE  IInv'
BY DEF IInv, TypeOK, FmConsistent, Generations, Current, ItemsLeft, LateItems,
   Running, Progress, state, work

\* Only a worker of an older epoch ends at its check, and only the current
\* one goes on to work.
LEMMA CheckKeeps ==
    ASSUME IInv, NEW e \in Epoch, Check(e)
    PROVE  IInv'
<1>1. /\ at' = [at EXCEPT ![e] = IF e # epoch THEN "ended" ELSE "work"]
      /\ at[e] = "check" /\ UNCHANGED <<state, line, modal, kind, left, late>>
  BY DEF Check, ShouldAbort
<1>2. TypeOK'
  BY <1>1 DEF IInv, TypeOK, state
<1>3. Generations'
  BY <1>1 DEF IInv, TypeOK, FmConsistent, Generations, state
<1>4. Current'
  BY <1>1 DEF IInv, TypeOK, FmConsistent, Current, Running, state
<1>5. ItemsLeft'
  BY <1>1 DEF IInv, TypeOK, FmConsistent, ItemsLeft
<1>6. LateItems'
  BY <1>1 DEF IInv, TypeOK, FmConsistent, LateItems, state, Epoch
<1>7. QED
  BY <1>2, <1>3, <1>4, <1>5, <1>6 DEF IInv, FmConsistent

\* The item that a worker is busy with is removed, late or not.
LEMMA WorkKeeps ==
    ASSUME IInv, NEW e \in Epoch, Work(e)
    PROVE  IInv'
<1>1. PICK where \in {"check", "finish"} :
          /\ kind[e] = "delete" => (where = "finish" <=> left[e] = 1)
          /\ at' = [at EXCEPT ![e] = where]
  BY DEF Work, LastItem
<1>2. /\ at[e] = "work" /\ UNCHANGED <<state, line, modal, kind>>
      /\ IF kind[e] = "delete"
         THEN /\ left' = [left EXCEPT ![e] = left[e] - 1]
              /\ late' = [late EXCEPT ![e] = IF e # epoch THEN late[e] + 1 ELSE late[e]]
         ELSE UNCHANGED <<left, late>>
  BY DEF Work
<1>3. /\ left[e] \in 0 .. Items /\ late[e] = 0 /\ Items >= 1 /\ Items \in Int
      /\ kind[e] = "delete" => left[e] > 0
  BY <1>2, FmAssumption DEF IInv, TypeOK, FmConsistent, LateItems, ItemsLeft
<1>4. e <= epoch /\ epoch \in Int /\ e \in Int
  BY <1>2 DEF IInv, TypeOK, FmConsistent, Generations, Epoch
<1>5. TypeOK'
  BY <1>1, <1>2, <1>3 DEF IInv, TypeOK, state
<1>6. Generations'
  BY <1>1, <1>2, <1>4 DEF IInv, TypeOK, FmConsistent, Generations, state
<1>7. Current'
  BY <1>1, <1>2 DEF IInv, TypeOK, FmConsistent, Current, Running, state
<1>8. ItemsLeft'
  BY <1>1, <1>2, <1>3 DEF IInv, TypeOK, FmConsistent, ItemsLeft
<1>9. LateItems'
  BY <1>1, <1>2, <1>3, <1>4 DEF IInv, TypeOK, FmConsistent, LateItems, state
<1>10. QED
  BY <1>5, <1>6, <1>7, <1>8, <1>9 DEF IInv, FmConsistent

\* finish() changes the shared state for the current epoch only.
LEMMA FinishKeeps ==
    ASSUME IInv, NEW e \in Epoch, NEW r \in {"ok", "failed"}, Finish(e, r)
    PROVE  IInv'
<1>1. /\ at' = [at EXCEPT ![e] = "ended"] /\ Running(e)
      /\ r = "ok" /\ kind[e] = "delete" => at[e] = "finish"
      /\ UNCHANGED <<epoch, modal, kind, left, late>>
  BY DEF Finish, Running
<1>2. /\ e = epoch => result' = r /\ done' = TRUE /\ active' = FALSE /\ line' = e
      /\ e # epoch => UNCHANGED <<active, done, result, line>>
  BY DEF Finish, CurrentEpoch
<1>3. TypeOK'
  BY <1>1, <1>2 DEF IInv, TypeOK
<1>4. Generations'
  BY <1>1 DEF IInv, TypeOK, FmConsistent, Generations, Running
<1>5. Current'
  <2>1. CASE e = epoch
    BY <1>1, <1>2, <2>1 DEF IInv, TypeOK, FmConsistent, Current, ItemsLeft, Running
  <2>2. CASE e # epoch
    BY <1>1, <1>2, <2>2 DEF IInv, TypeOK, FmConsistent, Current, Running
  <2>3. QED
    BY <2>1, <2>2
<1>6. ItemsLeft'
  BY <1>1 DEF IInv, TypeOK, FmConsistent, ItemsLeft
<1>7. LateItems'
  BY <1>1 DEF IInv, TypeOK, FmConsistent, LateItems
<1>8. QED
  BY <1>3, <1>4, <1>5, <1>6, <1>7 DEF IInv, FmConsistent

LEMMA FmStep == IInv /\ [Next]_vars => IInv'
<1> SUFFICES ASSUME IInv, [Next]_vars
             PROVE  IInv'
  OBVIOUS
<1>1. CASE UNCHANGED vars
  BY <1>1 DEF vars, state, work, IInv, TypeOK, FmConsistent, Generations, Current,
     ItemsLeft, LateItems, Running
<1>2. CASE \E k \in {"copy", "delete"} : StartTransfer(k)
  BY <1>2, StartKeeps
<1>3. CASE Cancel
  BY <1>3, CancelKeeps
<1>4. CASE Tick
  BY <1>4, TickKeeps
<1>5. CASE \E e \in Epoch : Worker(e) \/ Progress(e)
  BY <1>5, CheckKeeps, WorkKeeps, FinishKeeps, ProgressKeeps DEF Worker
<1>6. QED
  BY <1>1, <1>2, <1>3, <1>4, <1>5 DEF Next

\* The invariant the theorems below follow from.
THEOREM FmConsistentAlways == Spec => []IInv
<1>1. QED
  BY FmInit, FmStep, PTL DEF Spec

\* Epochs, items and workers stay in their domains: an epoch never passes its
\* bound and no worker removes more than it was given.
THEOREM FmTypes == Spec => []TypeOK
<1>1. IInv => TypeOK
  BY DEF IInv
<1>2. QED
  BY <1>1, FmInit, FmStep, PTL DEF Spec

\* The file manager is never locked without a running worker of the current
\* epoch, however many cancelled workers still run.
THEOREM LockIsHeld == Spec => []LockHasAWorker
<1>1. IInv => LockHasAWorker
  BY DEF IInv, FmConsistent, Current, LockHasAWorker, Running
<1>2. QED
  BY <1>1, FmConsistentAlways, PTL

\* No cancelled worker's result is ever shown, and a delete is said to have
\* succeeded only when all is gone.
THEOREM ResultsAreCurrent == Spec => []ResultIsShown
<1>1. IInv => ResultIsShown
  BY DEF IInv, FmConsistent, Current, ResultIsShown
<1>2. QED
  BY <1>1, FmConsistentAlways, PTL

\* A cancelled delete removes one item more at most, however many it has.
THEOREM CancelIsHeeded == Spec => []CancelStopsDelete
<1>1. IInv => CancelStopsDelete
  BY DEF IInv, FmConsistent, LateItems, CancelStopsDelete
<1>2. QED
  BY <1>1, FmConsistentAlways, PTL

\* The one way to a wrong line: LineIsCurrent, which the code breaks, is lost
\* in no step but a progress() of a cancelled worker, which knows no epoch.
THEOREM OnlyProgressIsStale ==
    Spec => [][LineIsCurrent => \/ LineIsCurrent'
                                \/ \E e \in Epoch : e < epoch /\ Progress(e)]_vars
<1>1. ASSUME IInv, Next, LineIsCurrent
      PROVE  LineIsCurrent' \/ \E e \in Epoch : e < epoch /\ Progress(e)
  <2>1. ASSUME NEW k \in {"copy", "delete"}, StartTransfer(k)
        PROVE  LineIsCurrent'
    BY <2>1 DEF StartTransfer, LineIsCurrent
  <2>2. CASE Cancel
    BY <2>2 DEF Cancel, LineIsCurrent
  <2>3. CASE Tick
    BY <1>1, <2>3 DEF Tick, LineIsCurrent
  <2>4. ASSUME NEW e \in Epoch, Worker(e)
        PROVE  LineIsCurrent'
    BY <1>1, <2>4 DEF Worker, Check, Work, Finish, CurrentEpoch, LineIsCurrent, state
  <2>5. ASSUME NEW e \in Epoch, Progress(e), ~(e < epoch)
        PROVE  LineIsCurrent'
    <3>1. e = epoch
      BY <1>1, <2>5 DEF IInv, TypeOK, FmConsistent, Generations, Progress, Epoch
    <3>2. QED
      BY <2>5, <3>1 DEF Progress, LineIsCurrent, state
  <2>6. QED
    BY <1>1, <2>1, <2>2, <2>3, <2>4, <2>5 DEF Next
<1>2. QED
  BY <1>1, FmConsistentAlways, PTL DEF Spec
=============================================================================
