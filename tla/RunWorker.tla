----------------------------- MODULE RunWorker ------------------------------
(***************************************************************************)
(* core/run_worker.py and the API handlers that drive it: admission,       *)
(* scheduling, the worker loop, startup recovery, shutdown, and crashes of *)
(* the whole process.  The threads share the durable records of RunStore;  *)
(* the wake-up queue and its bookkeeping live in memory and die with the   *)
(* process.                                                                *)
(***************************************************************************)
EXTENDS RunSegment

CONSTANTS
    Requests,       \* the kinds of API request clients send
    Legacy,         \* runs an older release left waiting on a rejected job
    MaxRequests,    \* bound: API requests in one behaviour
    MaxStarts       \* bound: times the process is started

ASSUME RunWorkerAssumption ==
    /\ Requests \subseteq Kind \ {"wake", "none"}
    /\ Legacy \subseteq Run
    /\ MaxRequests \in Nat
    /\ MaxStarts \in Nat

VARIABLES
    phase,      \* life cycle of the process and of its worker
    todo,       \* runs startup has still to recover, then to schedule
    fixing,     \* the run whose recovery has begun
    queue,      \* _queue: the wake items, and the shutdown sentinel
    scheduled,  \* _scheduled
    pending,    \* _pending_schedules, 0 for no entry
    requests,   \* API requests so far
    starts,     \* process starts so far
    stolen,     \* history: runs whose lock was released under a thread using it
    disturbed   \* history: runs the worker wrote or unlocked under such a thread

memVars == <<phase, todo, fixing, queue, scheduled, pending>>
history == <<stolen, disturbed>>
vars    == <<storeVars, threadVars, memVars, requests, starts, history>>

Phase == {"down", "recover", "schedule", "serving", "stopping", "stopped"}

Wake(i, r) == [item |-> i, run |-> r]
Sentinel   == Wake(0, NoRun)

TypeOK ==
    /\ StoreTypeOK
    /\ ThreadTypeOK
    /\ phase \in Phase
    /\ todo \subseteq Run
    /\ fixing \in Run \cup {NoRun}
    /\ queue \in Seq([item : Nat, run : Run \cup {NoRun}])
    /\ scheduled \subseteq Run
    /\ pending \in [Run -> Nat]
    /\ requests \in 0..MaxRequests
    /\ starts \in 0..MaxStarts
    /\ stolen \subseteq Run
    /\ disturbed \subseteq Run

\* The process has never run; a legacy run waits on a job already rejected.
Init ==
    /\ run = [r \in Run |-> IF r \in Legacy THEN "waiting" ELSE "absent"]
    /\ job \in [Run -> [Job -> {"none", "rejected"}]]
    /\ \A r \in Run : (\E j \in Job : job[r][j] = "rejected") <=> r \in Legacy
    /\ items = << >>
    /\ lock = [r \in Run |-> NoProc]
    /\ faults = 0
    /\ pc = [p \in Proc |-> IF p = Worker THEN "dead" ELSE "idle"]
    /\ op = [p \in Proc |-> NoOp]
    /\ exc = [p \in Proc |-> "none"]
    /\ phase = "down"
    /\ todo = {}
    /\ fixing = NoRun
    /\ queue = << >>
    /\ scheduled = {}
    /\ pending = [r \in Run |-> 0]
    /\ requests = 0
    /\ starts = 0
    /\ stolen = {}
    /\ disturbed = {}

----------------------------------------------------------------------------
(* API requests.                                                           *)

Admitted(c, kind) ==
    /\ kind \in Requests
    /\ pc[c] = "idle"
    /\ requests < MaxRequests
    /\ requests' = requests + 1

Begin(c, kind, r, j, i, l) ==
    /\ op' = [op EXCEPT ![c] = [kind |-> kind, run |-> r, job |-> j, item |-> i]]
    /\ Goto(c, l)
    /\ UNCHANGED exc

\* POST /runs: enqueue_new_run persists the run and its item in one
\* transaction.  A background run is then scheduled, another one executed.
StartRun(c, r, bg) ==
    /\ Admitted(c, IF bg THEN "submit" ELSE "start")
    /\ phase = "serving"
    /\ run[r] = "absent"
    /\ SetRun(r, "queued")
    /\ items' = Append(items, NewItem(r, bg))
    /\ IF bg THEN Begin(c, "submit", r, NoJob, Len(items) + 1, "schedule")
             ELSE Begin(c, "start", r, NoJob, Len(items) + 1, "acquire")
    /\ UNCHANGED <<job, lock, faults, memVars, starts, history>>

\* POST /runtime-jobs/{id}/approve, reject and cancel in the foreground:
\* RunCoordinator.execute creates an item and enters the critical section.
JobRequest(c, kind, r, j) ==
    /\ Admitted(c, kind)
    /\ kind \in {"approve", "reject", "cancel"}
    /\ phase = "serving"
    /\ run[r] # "absent"
    /\ job[r][j] # "none"
    /\ items' = Append(items, NewItem(r, FALSE))
    /\ Begin(c, kind, r, j, Len(items) + 1, "acquire")
    /\ UNCHANGED <<run, job, lock, faults, memVars, starts, history>>

\* _existing_background_approval answers without entering the section.
ExistingApproval(r, j) ==
    \/ job[r][j] = "completed"
    \/ /\ job[r][j] = "approved"
       /\ run[r] \in {"queued", "running"}
       /\ BackgroundItems(r, ActiveItem) # {}

\* POST .../approve?background=true: approve_and_resume.
BackgroundApproval(c, r, j) ==
    /\ Admitted(c, "bgapprove")
    /\ phase = "serving"
    /\ run[r] # "absent"
    /\ job[r][j] # "none"
    /\ ~ExistingApproval(r, j)
    /\ Begin(c, "bgapprove", r, j, 0, "acquire")
    /\ UNCHANGED <<storeVars, memVars, starts, history>>

\* _inflight_admissions counts the threads between _begin_ and _finish_.
InAdmission(c) == pc[c] # "idle" /\ op[c].kind \in {"submit", "bgapprove"}

\* Mutant of Schedule: _scheduled holds item ids.
ScheduleByItem(c) ==
    /\ pc[c] = "schedule"
    /\ scheduled' = scheduled \cup {op[c].item}
    /\ Continue(c, "put")
    /\ UNCHANGED <<storeVars, phase, todo, fixing, queue, pending, requests, starts, history>>

\* _schedule under _scheduled_lock: a run already scheduled gets its wake item
\* stored for the end of the current one.
Schedule(c) ==
    /\ pc[c] = "schedule"
    /\ LET r == op[c].run
       IN  IF r \in scheduled
           THEN /\ pending' = [pending EXCEPT ![r] = op[c].item]
                /\ Leave(c)
                /\ UNCHANGED scheduled
           ELSE /\ scheduled' = scheduled \cup {r}
                /\ Continue(c, "put")
                /\ UNCHANGED pending
    /\ UNCHANGED <<storeVars, phase, todo, fixing, queue, requests, starts, history>>

\* The put that follows, outside _scheduled_lock.
Put(c) ==
    /\ pc[c] = "put"
    /\ queue' = Append(queue, Wake(op[c].item, op[c].run))
    /\ Leave(c)
    /\ UNCHANGED <<storeVars, phase, todo, fixing, scheduled, pending, requests, starts, history>>

----------------------------------------------------------------------------
(* The worker thread.                                                      *)

\* The loop tests _stop_requested, then blocks in get.
LoopTest ==
    /\ pc[Worker] = "loop"
    /\ Continue(Worker, IF phase = "stopping" THEN "dead" ELSE "get")
    /\ UNCHANGED <<storeVars, memVars, requests, starts, history>>

GetWake ==
    /\ pc[Worker] = "get"
    /\ queue # << >>
    /\ queue' = Tail(queue)
    /\ IF Head(queue) = Sentinel
       THEN Continue(Worker, "dead")
       ELSE Begin(Worker, "wake", Head(queue).run, NoJob, Head(queue).item, "wake")
    /\ UNCHANGED <<storeVars, phase, todo, fixing, scheduled, pending, requests, starts, history>>

\* _execute reads the queue item and the run and chooses its branch.
Branch(r, i) ==
    CASE run[r] = "running" /\ items[i].status \in {"running", "failed"} -> "requeue"
      [] run[r] = "queued" -> "acquire"
      [] run[r] \in TerminalRun \cup {"waiting"} -> "orphans"
      [] OTHER -> "reconcile"

ReadWake(ok) ==
    /\ pc[Worker] = "wake"
    /\ IF phase = "stopping"
       THEN ok /\ Continue(Worker, "settle") /\ UNCHANGED faults
       ELSE /\ Storage(ok)
            /\ Continue(Worker, IF ok THEN Branch(op[Worker].run, op[Worker].item)
                                      ELSE "reput")
    /\ UNCHANGED <<run, job, items, lock, memVars, requests, starts, history>>

\* Thread p has the lock of run r and is not yet out of the section's body.
Using(p, r) == pc[p] \in BodyPc \cup {"mark"} /\ op[p].run = r
UsedLock(r) == lock[r] # NoProc /\ Using(lock[r], r)

\* Thread p relies on the row of run r it read: the runner between two of its
\* writes, an approval between its check and its write.
Relying(p, r) ==
    /\ op[p].run = r
    /\ \/ pc[p] = "segment"
       \/ pc[p] = "apply" /\ op[p].kind \in {"approve", "bgapprove"}

Midway(r) == lock[r] # NoProc /\ Relying(lock[r], r)

\* The worker writes the row of run r without its lock.
Overwrite(r) == disturbed' = IF Midway(r) THEN disturbed \cup {r} ELSE disturbed

\* _requeue_interrupted_segment: one transaction puts the run and the item
\* back to queued and cancels what the segment left open.
RequeueSegment(ok) ==
    /\ pc[Worker] = "requeue"
    /\ Storage(ok)
    /\ LET r == op[Worker].run
       IN  CASE ~ok -> Continue(Worker, "reput") /\ UNCHANGED <<run, job, items, disturbed>>
             [] ok /\ run[r] # "running" ->
                    Continue(Worker, "terminalize") /\ UNCHANGED <<run, job, items, disturbed>>
             [] OTHER ->
                    /\ SetRun(r, "queued")
                    /\ CloseJobs(r)
                    /\ Overwrite(r)
                    /\ items' = WithStatus(op[Worker].item, "queued")
                    /\ Continue(Worker, "acquire")
    /\ UNCHANGED <<lock, memVars, requests, starts, stolen>>

\* release_orphaned_locks: every acquired lock of the run, whoever holds it.
ReleaseOrphans(ok) ==
    /\ pc[Worker] = "orphans"
    /\ Storage(ok)
    /\ lock' = IF ok THEN [lock EXCEPT ![op[Worker].run] = NoProc] ELSE lock
    /\ stolen' = IF ok /\ UsedLock(op[Worker].run) THEN stolen \cup {op[Worker].run} ELSE stolen
    /\ disturbed' = IF ok /\ UsedLock(op[Worker].run)
                    THEN disturbed \cup {op[Worker].run} ELSE disturbed
    /\ Continue(Worker, IF ok THEN "reconcile" ELSE "reput")
    /\ UNCHANGED <<run, job, items, memVars, requests, starts>>

\* reconcile_queue_item, for an item that is still active.
Reconcile(ok) ==
    /\ pc[Worker] = "reconcile"
    /\ LET i == op[Worker].item
       IN  IF items[i].status \in ActiveItem
           THEN /\ Storage(ok)
                /\ items' = IF ok THEN WithStatus(i, run[op[Worker].run]) ELSE items
                /\ Continue(Worker, IF ok THEN "settle" ELSE "reput")
           ELSE ok /\ Continue(Worker, "settle") /\ UNCHANGED <<items, faults>>
    /\ UNCHANGED <<run, job, lock, memVars, requests, starts, history>>

\* After a restart the task or the pack of a persisted run may be gone: one
\* transaction fails the run and its item.
ConfigurationMissing(ok) ==
    /\ pc[Worker] = "acquire"
    /\ starts > 1
    /\ op[Worker].run \in Failing
    /\ Storage(ok)
    /\ IF ok
       THEN /\ Overwrite(op[Worker].run)
            /\ CloseJobs(op[Worker].run)
            /\ SetRun(op[Worker].run, "failed")
            /\ items' = WithStatus(op[Worker].item, "failed")
            /\ Continue(Worker, "settle")
       ELSE Continue(Worker, "reput") /\ UNCHANGED <<run, job, items, disturbed>>
    /\ UNCHANGED <<lock, memVars, requests, starts, stolen>>

\* _terminalize_unhandled_failure, in one transaction and without the lock.
Terminalize(ok) ==
    /\ pc[Worker] = "terminalize"
    /\ Storage(ok)
    /\ LET r == op[Worker].run
           i == op[Worker].item
       IN  IF ok
           THEN /\ Overwrite(r)
                /\ CloseJobs(r)
                /\ run' = IF run[r] \in LiveRun THEN [run EXCEPT ![r] = "failed"] ELSE run
                /\ items' = IF items[i].status \in ActiveItem
                            THEN WithStatus(i, "failed") ELSE items
                /\ Continue(Worker, "settle")
           ELSE Continue(Worker, "reput") /\ UNCHANGED <<run, job, items, disturbed>>
    /\ UNCHANGED <<lock, memVars, requests, starts, stolen>>

\* Mutant of PutBack: the retried wake item is put back and also unscheduled.
PutBackUnscheduled ==
    /\ pc[Worker] = "reput"
    /\ queue' = Append(queue, Wake(op[Worker].item, op[Worker].run))
    /\ scheduled' = scheduled \ {op[Worker].run}
    /\ pc' = [pc EXCEPT ![Worker] = "loop"]
    /\ op' = [op EXCEPT ![Worker] = NoOp]
    /\ UNCHANGED <<exc, storeVars, phase, todo, fixing, pending, requests, starts, history>>

\* Mutant of PutBack: the wake item of a failed attempt is forgotten.
PutBackForgotten ==
    /\ pc[Worker] = "reput"
    /\ pc' = [pc EXCEPT ![Worker] = "loop"]
    /\ op' = [op EXCEPT ![Worker] = NoOp]
    /\ UNCHANGED <<exc, storeVars, memVars, requests, starts, history>>

\* keep_scheduled: the wake item goes back to the queue, unless stopping.
PutBack ==
    /\ pc[Worker] = "reput"
    /\ IF phase = "stopping"
       THEN Continue(Worker, "settle") /\ UNCHANGED queue
       ELSE /\ queue' = Append(queue, Wake(op[Worker].item, op[Worker].run))
            /\ pc' = [pc EXCEPT ![Worker] = "loop"]
            /\ op' = [op EXCEPT ![Worker] = NoOp]
            /\ UNCHANGED exc
    /\ UNCHANGED <<storeVars, phase, todo, fixing, scheduled, pending, requests, starts, history>>

\* Mutant of Settle: a pending wake item is dropped with the finished one.
SettleDropsPending ==
    /\ pc[Worker] = "settle"
    /\ scheduled' = scheduled \ {op[Worker].run}
    /\ pending' = [pending EXCEPT ![op[Worker].run] = 0]
    /\ pc' = [pc EXCEPT ![Worker] = "loop"]
    /\ op' = [op EXCEPT ![Worker] = NoOp]
    /\ UNCHANGED <<exc, storeVars, phase, todo, fixing, queue, requests, starts, history>>

\* The finally block: a pending wake item takes the place of this one, or the
\* run is no longer scheduled.
Settle ==
    /\ pc[Worker] = "settle"
    /\ LET r == op[Worker].run
       IN  IF pending[r] # 0
           THEN /\ queue' = Append(queue, Wake(pending[r], r))
                /\ pending' = [pending EXCEPT ![r] = 0]
                /\ UNCHANGED scheduled
           ELSE /\ scheduled' = scheduled \ {r}
                /\ UNCHANGED <<queue, pending>>
    /\ pc' = [pc EXCEPT ![Worker] = "loop"]
    /\ op' = [op EXCEPT ![Worker] = NoOp]
    /\ UNCHANGED <<exc, storeVars, phase, todo, fixing, requests, starts, history>>

WorkerStep(ok) ==
    \/ ok /\ LoopTest
    \/ ok /\ GetWake
    \/ ReadWake(ok)
    \/ RequeueSegment(ok)
    \/ ReleaseOrphans(ok)
    \/ Reconcile(ok)
    \/ ConfigurationMissing(ok)
    \/ Terminalize(ok)
    \/ ok /\ PutBack
    \/ ok /\ Settle

----------------------------------------------------------------------------
(* Life cycle of the process.                                              *)

\* Mutant of RequiresRecovery: a waiting run is never recovered.
RequiresRecoveryUnlessWaiting(r) ==
    \/ run[r] \in {"queued", "running"}
    \/ \E i \in DOMAIN items : items[i].run = r /\ items[i].status \in ActiveItem
    \/ lock[r] # NoProc

\* list_run_ids_requiring_worker_recovery.
RequiresRecovery(r) ==
    \/ run[r] \in {"queued", "running"}
    \/ \E i \in DOMAIN items : items[i].run = r /\ items[i].status \in ActiveItem
    \/ lock[r] # NoProc
    \/ run[r] = "waiting" /\ \E j \in Job : job[r][j] \in {"approved", "rejected", "cancelled"}

Start ==
    /\ phase = "down"
    /\ starts < MaxStarts
    /\ starts' = starts + 1
    /\ phase' = "recover"
    /\ todo' = {r \in Run : run[r] # "absent" /\ RequiresRecovery(r)}
    /\ UNCHANGED <<storeVars, threadVars, fixing, queue, scheduled, pending, requests, history>>

\* One round of _recover_interrupted_runs: first every lock of the run is
\* released, then its interrupted items are rewritten one by one, then its row.
ReleaseLocks(r) ==
    /\ phase = "recover"
    /\ fixing = NoRun
    /\ r \in todo
    /\ todo' = todo \ {r}
    /\ fixing' = r
    /\ lock' = [lock EXCEPT ![r] = NoProc]
    /\ UNCHANGED <<run, job, items, faults, threadVars, phase, queue, scheduled, pending,
                   requests, starts, history>>

InterruptedItems(r) ==
    {i \in DOMAIN items :
        /\ items[i].run = r
        /\ items[i].status \in IF run[r] = "queued" THEN {"running"} ELSE ActiveItem}

\* The waiting run whose rejection or cancellation was recorded and not applied.
Intended(r) == run[r] = "waiting" /\ TerminalIntent(r)

\* _cancel_interrupted_queue_items, or reconcile_queue_item for a run that
\* stays as it is.
RecoverItem(i) ==
    /\ phase = "recover"
    /\ fixing # NoRun
    /\ i \in InterruptedItems(fixing)
    /\ ~Intended(fixing)
    /\ items' = WithStatus(i,
                  IF \/ run[fixing] \in TerminalRun
                     \/ run[fixing] = "waiting" /\ ~ApprovedJob(fixing)
                  THEN run[fixing] ELSE "cancelled")
    /\ UNCHANGED <<run, job, lock, faults, threadVars, memVars, requests, starts, history>>

\* requeue_interrupted_run closes what the run left open before it writes the
\* row: a crash may fall between.
RecoverJobs ==
    /\ phase = "recover"
    /\ fixing # NoRun
    /\ run[fixing] = "running"
    /\ InterruptedItems(fixing) = {}
    /\ Closed(fixing) # job[fixing]
    /\ CloseJobs(fixing)
    /\ UNCHANGED <<run, items, lock, faults, threadVars, memVars, requests, starts, history>>

\* The end of requeue_interrupted_run; the requeue of an approved waiting run;
\* or recover_terminal_intent, in one transaction with the run's items.
RecoverRun ==
    /\ phase = "recover"
    /\ fixing # NoRun
    /\ Intended(fixing) \/ InterruptedItems(fixing) = {}
    /\ run[fixing] = "running" => Closed(fixing) = job[fixing]
    /\ IF Intended(fixing)
       THEN /\ SetRun(fixing, "cancelled")
            /\ items' = Rewritten(fixing, ActiveItem, "cancelled")
       ELSE /\ run' = IF \/ run[fixing] = "running"
                         \/ run[fixing] = "waiting" /\ ApprovedJob(fixing)
                      THEN [run EXCEPT ![fixing] = "queued"] ELSE run
            /\ UNCHANGED items
    /\ fixing' = NoRun
    /\ UNCHANGED <<job, lock, faults, threadVars, phase, todo, queue, scheduled, pending,
                   requests, starts, history>>

\* Recovery is over: the thread starts before the persisted runs are scheduled.
StartThread ==
    /\ phase = "recover"
    /\ todo = {}
    /\ fixing = NoRun
    /\ phase' = "schedule"
    /\ todo' = {r \in Run : run[r] = "queued"}
    /\ Continue(Worker, "loop")
    /\ UNCHANGED <<storeVars, fixing, queue, scheduled, pending, requests, starts, history>>

\* Mutant of ScheduleRecovered: a new segment although one is queued.
ScheduleAlwaysNew(r) ==
    /\ phase = "schedule"
    /\ r \in todo
    /\ todo' = todo \ {r}
    /\ items' = Append(items, NewItem(r, TRUE))
    /\ queue' = Append(queue, Wake(Len(items) + 1, r))
    /\ scheduled' = scheduled \cup {r}
    /\ UNCHANGED <<run, job, lock, faults, threadVars, phase, fixing, pending, requests,
                   starts, history>>

\* Mutant of ScheduleRecovered: the wake item is queued without _schedule.
ScheduleUnrecorded(r) ==
    /\ phase = "schedule"
    /\ r \in todo
    /\ todo' = todo \ {r}
    /\ items' = Append(items, NewItem(r, TRUE))
    /\ queue' = Append(queue, Wake(Len(items) + 1, r))
    /\ UNCHANGED <<run, job, lock, faults, threadVars, phase, fixing, scheduled, pending,
                   requests, starts, history>>

\* _schedule_persisted_queued_runs, for one run.
ScheduleRecovered(r) ==
    /\ phase = "schedule"
    /\ r \in todo
    /\ todo' = todo \ {r}
    /\ LET Q == BackgroundItems(r, {"queued"})
           i == IF Q = {} THEN Len(items) + 1 ELSE Latest(Q)
       IN  /\ items' = IF Q = {} THEN Append(items, NewItem(r, TRUE)) ELSE items
           /\ queue' = Append(queue, Wake(i, r))
    /\ scheduled' = scheduled \cup {r}
    /\ UNCHANGED <<run, job, lock, faults, threadVars, phase, fixing, pending, requests,
                   starts, history>>

Accept ==
    /\ phase = "schedule"
    /\ todo = {}
    /\ phase' = "serving"
    /\ UNCHANGED <<storeVars, threadVars, todo, fixing, queue, scheduled, pending, requests,
                   starts, history>>

\* Mutant of Stop: no sentinel wakes the thread blocked in get.
StopSilently ==
    /\ phase = "serving"
    /\ phase' = "stopping"
    /\ UNCHANGED <<storeVars, threadVars, todo, fixing, queue, scheduled, pending, requests,
                   starts, history>>

\* stop: close admission, set _stop_requested, put the sentinel.
Stop ==
    /\ phase = "serving"
    /\ phase' = "stopping"
    /\ queue' = Append(queue, Sentinel)
    /\ UNCHANGED <<storeVars, threadVars, todo, fixing, scheduled, pending, requests, starts,
                   history>>

\* stop returns True: the admissions are over and the thread has ended.
Stopped ==
    /\ phase = "stopping"
    /\ \A c \in Client : ~InAdmission(c)
    /\ pc[Worker] = "dead"
    /\ phase' = "stopped"
    /\ scheduled' = {}
    /\ pending' = [r \in Run |-> 0]
    /\ UNCHANGED <<storeVars, threadVars, todo, fixing, queue, requests, starts, history>>

\* The process ends, by a crash at any point or after stop: only the durable
\* records are left.
Crash ==
    /\ phase # "down"
    /\ phase' = "down"
    /\ pc' = [p \in Proc |-> IF p = Worker THEN "dead" ELSE "idle"]
    /\ op' = [p \in Proc |-> NoOp]
    /\ exc' = [p \in Proc |-> "none"]
    /\ todo' = {}
    /\ fixing' = NoRun
    /\ queue' = << >>
    /\ scheduled' = {}
    /\ pending' = [r \in Run |-> 0]
    /\ stolen' = {}
    /\ UNCHANGED <<storeVars, requests, starts, disturbed>>

----------------------------------------------------------------------------
Request(c) ==
    \E r \in Run :
        \/ \E bg \in BOOLEAN : StartRun(c, r, bg)
        \/ \E j \in Job :
              \/ \E kind \in {"approve", "reject", "cancel"} : JobRequest(c, kind, r, j)
              \/ BackgroundApproval(c, r, j)

\* A step of thread p inside the critical section.
SectionStep(p, ok) ==
    /\ CoordinatorStep(p, ok) \/ BodyStep(p, ok)
    /\ UNCHANGED <<memVars, requests, starts, history>>

Startup ==
    \/ \E r \in Run : ReleaseLocks(r) \/ ScheduleRecovered(r)
    \/ \E i \in DOMAIN items : RecoverItem(i)
    \/ RecoverJobs
    \/ RecoverRun
    \/ StartThread
    \/ Accept

Next ==
    \/ \E c \in Client : Request(c) \/ Schedule(c) \/ Put(c)
    \/ \E p \in Proc, ok \in BOOLEAN : SectionStep(p, ok)
    \/ \E ok \in BOOLEAN : WorkerStep(ok)
    \/ Start \/ Startup \/ Stop \/ Stopped \/ Crash

\* The threads of the process are scheduled by the operating system, and its
\* startup runs to the end; nothing forces a request, a failure, a start, a
\* stop or a crash.
Fairness ==
    /\ WF_vars(WorkerStep(TRUE) \/ SectionStep(Worker, TRUE))
    /\ \A c \in Client : WF_vars(SectionStep(c, TRUE) \/ Schedule(c) \/ Put(c))
    /\ WF_vars(Startup)
    /\ WF_vars(Stopped)

Spec == Init /\ [][Next]_vars

FairSpec == Spec /\ Fairness

----------------------------------------------------------------------------
(* Safety properties.                                                      *)

Inside(p, r) == pc[p] \in BodyPc /\ op[p].run = r

\* Two threads are never both in the body of the critical section of one run:
\* the RunLock row serialises the runner, the approvals and the cancellations.
MutualExclusion ==
    \A r \in Run : \A p, q \in Proc : Inside(p, r) /\ Inside(q, r) => p = q

\* The RunLock row fails to do so only where the worker itself broke the lock:
\* unless release_orphaned_locks took the lock of run r from a thread that was
\* using it, no storage failure, retry, recovery or crash lets two threads into
\* the body of the critical section of r.
SectionExclusive ==
    \A r \in Run \ stolen : \A p, q \in Proc : Inside(p, r) /\ Inside(q, r) => p = q

InQueue(r)  == \E k \in DOMAIN queue : queue[k].run = r
Handling(r) == pc[Worker] \notin {"dead", "loop", "get"} /\ op[Worker].run = r
Putting(r)  == \E c \in Client : pc[c] = "put" /\ op[c].run = r

\* _scheduled and the wake-up queue agree whatever fails: a run is in
\* _scheduled exactly when one wake item of it is in the queue, with the worker
\* or about to be put, and never two; a pending wake item belongs to a
\* scheduled run.  A run left in _scheduled without a wake item would swallow
\* every later submission of it.
WakeUpTokens ==
    phase # "stopped" =>
        /\ \A r \in Run :
              /\ r \in scheduled <=> InQueue(r) \/ Handling(r) \/ Putting(r)
              /\ InQueue(r) => ~Handling(r) /\ ~Putting(r)
              /\ Handling(r) => ~Putting(r)
              /\ pending[r] # 0 => r \in scheduled
        /\ \A k, m \in DOMAIN queue :
              queue[k].run = queue[m].run /\ queue[k].run # NoRun => k = m
        /\ \A c, d \in Client :
              pc[c] = "put" /\ pc[d] = "put" /\ op[c].run = op[d].run => c = d

\* While the service accepts work, a queued run is scheduled, unless a request
\* that will schedule or execute it is still being served.  A crash, a restart
\* or a stolen lock loses no wake-up; a storage failure may (the release of an
\* approved run fails and the approval is never scheduled).
NoLostWakeUp ==
    \A r \in Run :
        faults = 0 /\ phase = "serving" /\ run[r] = "queued" =>
            r \in scheduled \/ \E c \in Client : pc[c] # "idle" /\ op[c].run = r

\* A run has at most one active background segment: an approval reuses the
\* active one, recovery closes the interrupted one before it queues another,
\* and the worker requeues a failed one only when no other is active; unless the
\* worker wrote the row or broke the lock under the thread that was using it.
OneActiveSegment ==
    \A r \in Run \ disturbed : Cardinality(BackgroundItems(r, ActiveItem)) <= 1

\* Nothing of the previous process is left of run r: no lock, no running row,
\* no approval, rejection or cancellation still to be applied, and no active
\* item but the queued ones of a queued run.
Recovered(r) ==
    /\ lock[r] = NoProc
    /\ run[r] # "running"
    /\ run[r] = "waiting" => ~ApprovedJob(r) /\ ~TerminalIntent(r)
    /\ \A i \in DOMAIN items :
          items[i].run = r /\ items[i].status \in ActiveItem =>
              items[i].status = "queued" /\ run[r] = "queued"

\* When startup recovery ends, before the worker runs and before any request
\* is accepted, every run is recovered, wherever the crash fell, recovery
\* itself included.
RecoveryComplete ==
    phase = "recover" /\ todo = {} /\ fixing = NoRun =>
        \A r \in Run : run[r] # "absent" => Recovered(r)

\* A finished run keeps no approval pending that a late answer could still act
\* on.  Only a failed run may: between _fail_run and the closing of its runtime
\* state, and after a storage failure or a crash that fell between the two.
TerminalRunClosed ==
    \A r \in Run \ disturbed :
        run[r] \in TerminalRun =>
            \/ \A j \in Job : job[r][j] \notin OpenJob
            \/ /\ run[r] = "failed"
               /\ \/ faults > 0
                  \/ starts > 1
                  \/ phase = "down"
                  \/ \E p \in Proc : pc[p] = "close" /\ op[p].run = r

(* Action properties.                                                      *)

\* A completed, failed or cancelled run never becomes live again, although
\* every writer of the run row writes a copy it read earlier, whatever fails or
\* crashes; unless the worker, which does not take the lock for its own writes,
\* wrote the row or broke the lock under the thread that was using it.
TerminalNeverReopened ==
    [][\A r \in Run \ disturbed' : run[r] \in TerminalRun => run'[r] \in TerminalRun]_vars

(* Liveness.                                                               *)

\* The worker brings every scheduled run to a wait or to an end, through
\* retries of transient failures, unless the service is stopped.  A run that
\* has just been approved is the subject of ApprovalHonoured: the failure of
\* the release that follows the approval may lose its wake-up.
ScheduledRunSettles ==
    \A r \in Run :
        phase = "serving" /\ r \in scheduled ~>
            \/ phase # "serving"
            \/ run[r] \in TerminalRun \cup {"waiting"}
            \/ \E j \in Job : job[r][j] = "approved"

\* An approval is acted on: the job completes or is closed with its run.
ApprovalHonoured ==
    \A r \in Run, j \in Job :
        phase = "serving" /\ job[r][j] = "approved" ~>
            phase # "serving" \/ job[r][j] # "approved"

\* stop returns: no admission and no blocked get holds the shutdown up.
ShutdownEnds == phase = "stopping" ~> phase \in {"stopped", "down"}
=============================================================================
