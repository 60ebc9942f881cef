------------------------------ MODULE RunStore ------------------------------
(***************************************************************************)
(* The durable records the run machinery shares: one Run row, its approval *)
(* jobs, its queue items and its lock, as core/storage.py keeps them in    *)
(* SQLite.  Everything here survives a crash of the process.               *)
(*                                                                         *)
(* A run's approval job is identified by the step that asks for approval:  *)
(* job[r][j] is the status of the LATEST approval job of step j, the only  *)
(* one RuntimeController lets anybody act on.  Its agent run and session   *)
(* move with it and are not separate state.  "cancelled" stands for a job  *)
(* closed without completing (CANCELLED by terminalization, or FAILED with *)
(* its run); "rejected" is kept apart because startup recovers it.         *)
(***************************************************************************)
EXTENDS Integers, Sequences, FiniteSets

CONSTANTS
    Run,        \* identifiers of runs
    Job,        \* steps of a run that require a local approval
    Client,     \* threads that serve API requests
    Worker,     \* the background worker thread
    NoRun, NoJob, NoProc,
    MaxFaults   \* bound: transient storage failures in one behaviour

ASSUME RunStoreAssumption ==
    /\ NoRun \notin Run
    /\ NoJob \notin Job
    /\ Worker \notin Client
    /\ NoProc \notin Client \cup {Worker}
    /\ MaxFaults \in Nat

VARIABLES
    run,        \* Run -> status of the Run row, "absent" before creation
    job,        \* Run -> Job -> status of the step's latest approval job
    items,      \* every RunQueueItem row, in creation order
    lock,       \* Run -> the thread holding the acquired RunLock row
    faults      \* transient storage failures so far

storeVars == <<run, job, items, lock, faults>>

Proc == Client \cup {Worker}

TerminalRun == {"completed", "failed", "cancelled"}
LiveRun     == {"queued", "running", "waiting"}
RunStatus   == LiveRun \cup TerminalRun

OpenJob   == {"required", "approved"}
JobStatus == OpenJob \cup {"none", "completed", "cancelled", "rejected"}

\* _queue_status_for_run_status maps run statuses one to one onto these.
ItemStatus == RunStatus
ActiveItem == {"queued", "running"}

StoreTypeOK ==
    /\ run \in [Run -> RunStatus \cup {"absent"}]
    /\ job \in [Run -> [Job -> JobStatus]]
    /\ items \in Seq([run : Run, bg : BOOLEAN, status : ItemStatus])
    /\ lock \in [Run -> Proc \cup {NoProc}]
    /\ faults \in 0..MaxFaults

----------------------------------------------------------------------------
\* A storage call that succeeds, or raises StorageError after its retries.
Storage(ok) ==
    IF ok THEN UNCHANGED faults
          ELSE faults < MaxFaults /\ faults' = faults + 1

NewItem(r, bg) == [run |-> r, bg |-> bg, status |-> "queued"]

WithStatus(i, s) == [items EXCEPT ![i].status = s]

\* The rows of run r whose status is in S, all rewritten to status s.
Rewritten(r, S, s) ==
    [i \in DOMAIN items |->
        IF items[i].run = r /\ items[i].status \in S
        THEN [items[i] EXCEPT !.status = s]
        ELSE items[i]]

\* _active_background_queue_item / the recovered queued item: the last match.
BackgroundItems(r, S) ==
    {i \in DOMAIN items : items[i].run = r /\ items[i].bg /\ items[i].status \in S}

Latest(I) == CHOOSE i \in I : \A k \in I : k <= i

\* terminalize_open_runtime_state: every open job of the run is cancelled.
Closed(r) ==
    [j \in Job |-> IF job[r][j] \in OpenJob THEN "cancelled" ELSE job[r][j]]

\* terminal_intent_requiring_recovery: the newest approval job is rejected or
\* cancelled, which leaves no job of the run open.
TerminalIntent(r) ==
    /\ \E j \in Job : job[r][j] \in {"rejected", "cancelled"}
    /\ \A j \in Job : job[r][j] \notin OpenJob

ApprovedJob(r) == \E j \in Job : job[r][j] = "approved"
=============================================================================
