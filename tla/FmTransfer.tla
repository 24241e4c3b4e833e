----------------------------- MODULE FmTransfer -----------------------------
(***************************************************************************)
(* The file manager of fm_app.py runs each copy or delete in a thread of   *)
(* its own and shares one TransferState with it.  Cancel does not wait for *)
(* the thread: it bumps the epoch, frees the user interface at once, and   *)
(* the thread finds out later, when a newer transfer may be running.       *)
(*                                                                         *)
(* The user interface is one thread (StartTransfer, Cancel, Tick); every   *)
(* worker is named by the epoch that begin() gave it.  What a transfer     *)
(* does is left out except the items of a delete, which are counted.       *)
(***************************************************************************)
EXTENDS Integers, FiniteSets

CONSTANTS
    MaxEpoch,  \* bound: transfers begun and cancelled
    Items      \* items of a delete

ASSUME FmAssumption == MaxEpoch \in Nat \ {0} /\ Items \in Nat \ {0}

Epoch == 1 .. MaxEpoch
None == 0

VARIABLES
    epoch, active, done, \* fields of TransferState
    result,              \* self.rc: "ok" or "failed"
    line,                \* the worker that wrote self.line, None for others
    modal,               \* the epoch whose ProgressModal is open, or None
    kind,                \* what a worker does: "copy" or "delete"
    at,                  \* where a worker stands
    left,                \* items a delete has not removed
    late                 \* items it removed after it had been cancelled

state == <<epoch, active, done, result>>
work == <<kind, at, left, late>>
vars == <<state, line, modal, work>>

TypeOK ==
    /\ epoch \in 0 .. MaxEpoch
    /\ active \in BOOLEAN /\ done \in BOOLEAN /\ result \in {"ok", "failed"}
    /\ line \in {None} \cup Epoch /\ modal \in {None} \cup Epoch
    /\ kind \in [Epoch -> {"copy", "delete"}]
    /\ at \in [Epoch -> {"idle", "check", "work", "finish", "ended"}]
    /\ left \in [Epoch -> 0 .. Items] /\ late \in [Epoch -> 0 .. Items]

Init ==
    /\ epoch = 0 /\ active = FALSE /\ done = FALSE /\ result = "ok"
    /\ line = None /\ modal = None
    /\ kind = [e \in Epoch |-> "copy"] /\ at = [e \in Epoch |-> "idle"]
    /\ left = [e \in Epoch |-> 0] /\ late = [e \in Epoch |-> 0]

-----------------------------------------------------------------------------
(* The user interface *)

\* action_copy() and _do_delete(): begin(), the modal, and the thread.
StartTransfer(k) ==
    /\ ~active /\ modal = None /\ epoch < MaxEpoch
    /\ epoch' = epoch + 1
    /\ active' = TRUE /\ done' = FALSE /\ result' = "ok" /\ line' = None
    /\ modal' = epoch'
    /\ kind' = [kind EXCEPT ![epoch'] = k]
    /\ at' = [at EXCEPT ![epoch'] = "check"]
    /\ left' = [left EXCEPT ![epoch'] = Items]
    /\ UNCHANGED late

\* action_cancel() closes the modal; abandon() invalidates the worker.
Cancel ==
    /\ modal # None /\ epoch < MaxEpoch
    /\ epoch' = epoch + 1
    /\ active' = FALSE /\ done' = FALSE /\ line' = None
    /\ modal' = None
    /\ UNCHANGED <<result, work>>

\* _tick_transfer() finds a transfer done: it closes the modal and reports.
Tick ==
    /\ done
    /\ done' = FALSE /\ modal' = None
    /\ UNCHANGED <<epoch, active, result, line, work>>

-----------------------------------------------------------------------------
(* A worker *)

\* Slips: a flag that the next begin() clears; no distinction of the current
\* worker.
FlagOnly(e) == ~active
NotNewer(e) == e <= epoch

\* should_abort(epoch): the worker is of an older generation.
ShouldAbort(e) == e # epoch

\* progress(), at any time while the worker runs.
Progress(e) ==
    /\ at[e] \in {"check", "work"}
    /\ line' = e
    /\ UNCHANGED <<state, modal, work>>

\* The abort check between two items, or two batches of a copy.  An aborted
\* worker calls finish(1, "aborted"), which an old epoch makes a no-op.
Check(e) ==
    /\ at[e] = "check"
    /\ at' = [at EXCEPT ![e] = IF ShouldAbort(e) THEN "ended" ELSE "work"]
    /\ UNCHANGED <<state, line, modal, kind, left, late>>

\* Slip: off by one.
LastItemLate(e) == left[e] = 0
LastItem(e) == left[e] = 1

\* One item is removed, or one batch copied.  A delete ends with its last
\* item, a copy sooner or later.
Work(e) ==
    /\ at[e] = "work"
    /\ \E where \in {"check", "finish"} :
          /\ kind[e] = "delete" => (where = "finish" <=> LastItem(e))
          /\ at' = [at EXCEPT ![e] = where]
    /\ IF kind[e] = "delete"
       THEN /\ left' = [left EXCEPT ![e] = @ - 1]
            /\ late' = [late EXCEPT ![e] = IF e # epoch THEN @ + 1 ELSE @]
       ELSE UNCHANGED <<left, late>>
    /\ UNCHANGED <<state, line, modal, kind>>

\* Slips: a result is taken from whoever comes; from the cancelled only.
AnyEpoch(e) == TRUE
OlderEpoch(e) == e < epoch

\* finish() ignores an epoch that is not current.
CurrentEpoch(e) == e = epoch

\* The worker ends with finish(): an exception may end the work, a copy may
\* fail, a delete that comes to its end has succeeded.
Finish(e, r) ==
    /\ \/ at[e] = "work" /\ r = "failed"
       \/ at[e] = "finish" /\ (kind[e] = "delete" => r = "ok")
    /\ at' = [at EXCEPT ![e] = "ended"]
    /\ IF CurrentEpoch(e)
       THEN result' = r /\ done' = TRUE /\ active' = FALSE /\ line' = e
       ELSE UNCHANGED <<active, done, result, line>>
    /\ UNCHANGED <<epoch, modal, kind, left, late>>

Worker(e) == Check(e) \/ Work(e) \/ \E r \in {"ok", "failed"} : Finish(e, r)

Next ==
    \/ \E k \in {"copy", "delete"} : StartTransfer(k)
    \/ Cancel \/ Tick
    \/ \E e \in Epoch : Worker(e) \/ Progress(e)

\* The user interface ticks and every worker runs.
Fairness ==
    /\ WF_vars(Tick)
    /\ \A e \in Epoch : WF_vars(Worker(e))

Spec == Init /\ [][Next]_vars
FairSpec == Spec /\ Fairness

-----------------------------------------------------------------------------
(* Properties *)

\* The file manager is locked only while the worker of the current epoch
\* runs: a worker that was cancelled cannot lock it again (action_cancel(),
\* "a stale worker cannot re-lock F5", fm_app.py:457).
LockHasAWorker == active => at[epoch] \in {"check", "work", "finish"}

\* A result that waits for the next tick is that of the transfer on screen,
\* and says ok of a delete only when every item is gone.
ResultIsShown ==
    done => /\ modal = epoch /\ at[epoch] = "ended"
            /\ result = "ok" /\ kind[epoch] = "delete" => left[epoch] = 0

\* A delete that is cancelled removes at most the item it is busy with.
CancelStopsDelete == \A e \in Epoch : late[e] <= 1

\* The modal blocks the whole user interface.  It closes by itself once a
\* delete runs or a copy has ended, also when the user never cancels.
ModalCloses ==
    (modal # None /\ (kind[modal] = "delete" \/ at[modal] \in {"finish", "ended"}))
        ~> modal = None

\* action_cancel() says that a stale worker cannot "overwrite a newer
\* transfer" (fm_app.py:458): the line on screen is then never written by a
\* worker of an older epoch.
LineIsCurrent == active => line \in {None, epoch}
=============================================================================
