--------------------------- MODULE RunCoordinator ---------------------------
(***************************************************************************)
(* RunCoordinator.execute_queue_item and execute_exclusive: the critical   *)
(* section every segment of a run goes through, as steps of the thread p   *)
(* that calls it.  One step is one storage call.  The body of the section  *)
(* (the runner, or a RuntimeController action) is in RunSegment.           *)
(***************************************************************************)
EXTENDS RunStore

VARIABLES
    pc,     \* Proc -> where the thread is
    op,     \* Proc -> what it is doing: kind, run, job, queue item
    exc     \* Proc -> the exception in flight

threadVars == <<pc, op, exc>>

Kind == {"submit", "start", "approve", "reject", "cancel", "bgapprove", "wake", "none"}

NoOp == [kind |-> "none", run |-> NoRun, job |-> NoJob, item |-> 0]

SectionPc == {"acquire", "mark", "load", "apply", "enqueue", "activate",
              "segment", "close", "finish", "error_item", "fail_item", "release"}
WorkerPc  == {"dead", "loop", "get", "wake", "requeue", "orphans", "reconcile",
              "terminalize", "reput", "settle"}
Pc        == SectionPc \cup WorkerPc \cup {"idle", "schedule", "put"}

\* The body of the critical section: the code that relies on holding the lock.
BodyPc == {"load", "apply", "enqueue", "activate", "segment", "close"}

ThreadTypeOK ==
    /\ pc \in [Proc -> Pc]
    /\ op \in [Proc -> [kind : Kind, run : Run \cup {NoRun},
                        job : Job \cup {NoJob}, item : Nat]]
    /\ exc \in [Proc -> {"none", "storage", "conflict", "error"}]

Goto(p, l) == pc' = [pc EXCEPT ![p] = l]

\* The request's thread is free again; whatever it raised went to the caller.
Leave(p) ==
    /\ pc'  = [pc  EXCEPT ![p] = "idle"]
    /\ op'  = [op  EXCEPT ![p] = NoOp]
    /\ exc' = [exc EXCEPT ![p] = "none"]

\* What the caller of the coordinator does with the outcome e.
Return(p, e) ==
    IF p = Worker
    THEN /\ Goto(p, CASE e = "none"    -> "settle"
                      [] e = "storage" -> "reput"
                      [] OTHER         -> "terminalize")
         /\ exc' = [exc EXCEPT ![p] = "none"]
         /\ UNCHANGED op
    ELSE IF op[p].kind = "bgapprove" /\ e = "none" /\ op[p].item # 0
    THEN Goto(p, "schedule") /\ UNCHANGED <<op, exc>>
    ELSE Leave(p)

Raise(p, e, l) ==
    /\ Goto(p, l)
    /\ exc' = [exc EXCEPT ![p] = e]
    /\ UNCHANGED op

Continue(p, l) == Goto(p, l) /\ UNCHANGED <<op, exc>>

\* Where an exception of the body is handled: execute_exclusive has no item.
Handler(p) == IF op[p].kind = "bgapprove" THEN "release" ELSE "error_item"

----------------------------------------------------------------------------
\* execute_queue_item refuses an item that is not queued before it locks.
NotQueued(p) ==
    /\ pc[p] = "acquire"
    /\ op[p].kind # "bgapprove"
    /\ items[op[p].item].status # "queued"
    /\ Return(p, "conflict")
    /\ UNCHANGED storeVars

\* Mutant of AcquireLock: the insert does not conflict with an acquired row.
UncheckedAcquire(p) ==
    /\ pc[p] = "acquire"
    /\ op[p].kind # "bgapprove" => items[op[p].item].status = "queued"
    /\ lock' = [lock EXCEPT ![op[p].run] = p]
    /\ Continue(p, IF op[p].kind = "bgapprove" THEN "load" ELSE "mark")
    /\ UNCHANGED <<run, job, items, faults>>

AcquireLock(p) ==
    /\ pc[p] = "acquire"
    /\ op[p].kind # "bgapprove" => items[op[p].item].status = "queued"
    /\ lock[op[p].run] = NoProc
    /\ lock' = [lock EXCEPT ![op[p].run] = p]
    /\ Continue(p, IF op[p].kind = "bgapprove" THEN "load" ELSE "mark")
    /\ UNCHANGED <<run, job, items, faults>>

\* _acquire_lock turns a held lock and a failed insert into the same conflict.
AcquireFailed(p, ok) ==
    /\ pc[p] = "acquire"
    /\ op[p].kind # "bgapprove" => items[op[p].item].status = "queued"
    /\ ok = (lock[op[p].run] # NoProc)
    /\ Storage(ok)
    /\ IF op[p].kind = "bgapprove"
       THEN Return(p, "conflict")
       ELSE Raise(p, "conflict", "fail_item")
    /\ UNCHANGED <<run, job, items, lock>>

MarkRunning(p, ok) ==
    /\ pc[p] = "mark"
    /\ Storage(ok)
    /\ IF ok
       THEN /\ items' = WithStatus(op[p].item, "running")
            /\ Continue(p, IF op[p].kind \in {"start", "wake"} THEN "activate" ELSE "load")
       ELSE /\ Raise(p, "storage", "fail_item")
            /\ UNCHANGED items
    /\ UNCHANGED <<run, job, lock>>

\* The handler of an exception raised before execution_started; its own
\* failure is swallowed.  Only a failed "mark" holds the lock.
FailItem(p, ok) ==
    /\ pc[p] = "fail_item"
    /\ Storage(ok)
    /\ items' = IF ok THEN WithStatus(op[p].item, "failed") ELSE items
    /\ IF exc[p] = "storage" THEN Continue(p, "release") ELSE Return(p, exc[p])
    /\ UNCHANGED <<run, job, lock>>

\* _update_queue_item_for_current_run after a body that returned.
FinishItem(p, ok) ==
    /\ pc[p] = "finish"
    /\ Storage(ok)
    /\ IF ok
       THEN /\ items' = WithStatus(op[p].item, run[op[p].run])
            /\ Continue(p, "release")
       ELSE /\ Raise(p, "storage", "error_item")
            /\ UNCHANGED items
    /\ UNCHANGED <<run, job, lock>>

\* _update_queue_item_after_execution_error; its own failure is swallowed.
ErrorItem(p, ok) ==
    /\ pc[p] = "error_item"
    /\ Storage(ok)
    /\ items' =
         CASE ~ok -> items
           [] ok /\ run[op[p].run] \in TerminalRun \cup {"waiting"} ->
                WithStatus(op[p].item, run[op[p].run])
           [] OTHER -> WithStatus(op[p].item, "failed")
    /\ Continue(p, "release")
    /\ UNCHANGED <<run, job, lock>>

\* _release_lock: nothing to do if the row was already released.
ReleaseLock(p, ok) ==
    /\ pc[p] = "release"
    /\ Storage(ok)
    /\ lock' = IF ok /\ lock[op[p].run] = p
               THEN [lock EXCEPT ![op[p].run] = NoProc]
               ELSE lock
    /\ Return(p, IF ok THEN exc[p] ELSE "storage")
    /\ UNCHANGED <<run, job, items>>

CoordinatorStep(p, ok) ==
    \/ ok /\ NotQueued(p)
    \/ ok /\ AcquireLock(p)
    \/ AcquireFailed(p, ok)
    \/ MarkRunning(p, ok)
    \/ FailItem(p, ok)
    \/ FinishItem(p, ok)
    \/ ErrorItem(p, ok)
    \/ ReleaseLock(p, ok)
=============================================================================
