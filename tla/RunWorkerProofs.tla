--------------------------- MODULE RunWorkerProofs ---------------------------
(***************************************************************************)
(* Proofs about RunWorker, for any set of runs, approval steps and threads,*)
(* any number of requests, storage failures, restarts and crashes.         *)
(***************************************************************************)
EXTENDS RunWorker, FiniteSetTheorems, SequenceTheorems, WellFoundedInduction, TLAPS

USE DEF history

ItemRow == [run : Run, bg : BOOLEAN, status : ItemStatus]
WakeRow == [item : Nat, run : Run \cup {NoRun}]

----------------------------------------------------------------------------
(* Facts about the operators of the model.                                 *)

\* A non-empty set of naturals has a smallest element.
LEMMA SmallestElement ==
    ASSUME NEW T, T \subseteq Nat, T # {}
    PROVE  \E x \in T : \A y \in T : x <= y
<1>1. \E x \in T : \A y \in T : ~(<<y, x>> \in OpToRel(<, Nat))
  BY NatLessThanWellFounded, WFMin, Zenon
<1>2. \A x, y \in T : ~(<<y, x>> \in OpToRel(<, Nat)) => x <= y
  BY DEF OpToRel
<1> QED BY <1>1, <1>2

\* The latest of a non-empty set of queue items is one of them.
LEMMA LatestIsMember ==
    ASSUME NEW n \in Nat, NEW I \in SUBSET (1..n), I # {}
    PROVE  Latest(I) \in I
<1> DEFINE T == {n - i : i \in I}
<1>1. T \subseteq Nat /\ T # {}
  <2>1. \A i \in I : n - i \in Nat
    OBVIOUS
  <2> QED BY <2>1, Zenon
<1>2. PICK x \in T : \A y \in T : x <= y
  <2> HIDE DEF T
  <2> QED BY <1>1, SmallestElement
<1>3. PICK i \in I : x = n - i
  OBVIOUS
<1>4. \A k \in I : k <= i
  <2>1. \A k \in I : n - i <= n - k
    BY <1>2, <1>3, Zenon
  <2> QED BY <2>1
<1> QED BY <1>4 DEF Latest
\* Rewriting the status of one row keeps the table well typed.
LEMMA WithStatusType ==
    ASSUME items \in Seq(ItemRow), NEW i, NEW s \in ItemStatus
    PROVE  /\ WithStatus(i, s) \in Seq(ItemRow)
           /\ DOMAIN WithStatus(i, s) = DOMAIN items
           /\ \A k \in DOMAIN items : WithStatus(i, s)[k].run = items[k].run
<1>1. items \in [1..Len(items) -> ItemRow] /\ Len(items) \in Nat
  BY LenProperties
<1>2. WithStatus(i, s) \in [1..Len(items) -> ItemRow]
  BY <1>1 DEF WithStatus, ItemRow
<1>3. WithStatus(i, s) \in Seq(ItemRow)
  BY <1>1, <1>2, SeqDef
<1> QED BY <1>1, <1>2, <1>3 DEF WithStatus, ItemRow

\* So does rewriting the rows of a run.
LEMMA RewrittenType ==
    ASSUME items \in Seq(ItemRow), NEW r, NEW S, NEW s \in ItemStatus
    PROVE  /\ Rewritten(r, S, s) \in Seq(ItemRow)
           /\ DOMAIN Rewritten(r, S, s) = DOMAIN items
           /\ \A k \in DOMAIN items : Rewritten(r, S, s)[k].run = items[k].run
<1>1. items \in [1..Len(items) -> ItemRow] /\ Len(items) \in Nat
  BY LenProperties
<1>2. Rewritten(r, S, s) \in [1..Len(items) -> ItemRow]
  BY <1>1 DEF Rewritten, ItemRow
<1>3. Rewritten(r, S, s) \in Seq(ItemRow)
  BY <1>1, <1>2, SeqDef
<1> QED BY <1>1, <1>2, <1>3 DEF Rewritten, ItemRow

\* Appending a row keeps every older one.
LEMMA AppendItem ==
    ASSUME items \in Seq(ItemRow), NEW r \in Run, NEW bg \in BOOLEAN
    PROVE  LET new == Append(items, NewItem(r, bg))
           IN  /\ new \in Seq(ItemRow)
               /\ Len(items) + 1 \in Nat
               /\ DOMAIN new = DOMAIN items \cup {Len(items) + 1}
               /\ \A k \in DOMAIN items : new[k] = items[k]
               /\ new[Len(items) + 1] = NewItem(r, bg)
<1>1. NewItem(r, bg) \in ItemRow
  BY DEF NewItem, ItemRow, ItemStatus, RunStatus, LiveRun
<1> QED BY <1>1

----------------------------------------------------------------------------
(* The inductive invariant of type correctness: a thread that is at work    *)
(* works on a run, and whatever names a run names one that exists.  Without *)
(* it a step could write the status "absent" into a queue item.             *)

Resting == {"idle", "dead", "loop", "get"}

Exists(r) == r \in Run /\ run[r] # "absent"

ThreadsExist ==
    /\ \A p \in Proc : pc[p] \notin Resting => op[p].run \in Run
    /\ \A p \in Proc : op[p].run \in Run => Exists(op[p].run)

QueueExists ==
    \A k \in DOMAIN queue : queue[k] = Sentinel \/ Exists(queue[k].run)

StartupExists == (\A r \in todo : Exists(r)) /\ (fixing = NoRun \/ Exists(fixing))

TypeInv == TypeOK /\ ThreadsExist /\ QueueExists /\ StartupExists

Exception == {"none", "storage", "conflict", "error"}

\* What a step inside the critical section does to the threads.
Moves(p) ==
    /\ pc[p] \in SectionPc
    /\ \A q \in Proc : q # p => pc'[q] = pc[q] /\ op'[q] = op[q]
    /\ \/ /\ pc'[p] \in SectionPc \cup
                 IF p = Worker THEN {"settle", "reput", "terminalize"} ELSE {"schedule"}
          /\ op'[p].run = op[p].run
       \/ p # Worker /\ pc'[p] = "idle" /\ op'[p] = NoOp

\* What it does to the records.
Keeps ==
    /\ StoreTypeOK'
    /\ \A r \in Run : run[r] # "absent" => run'[r] # "absent"

LEMMA ContinueMoves ==
    ASSUME ThreadTypeOK, NEW p \in Proc, NEW l \in SectionPc, pc[p] \in SectionPc,
           Continue(p, l)
    PROVE  ThreadTypeOK' /\ Moves(p)
  BY DEF Continue, Goto, ThreadTypeOK, Moves, Pc

LEMMA RaiseMoves ==
    ASSUME ThreadTypeOK, NEW p \in Proc, NEW l \in SectionPc, pc[p] \in SectionPc,
           NEW e \in Exception, Raise(p, e, l)
    PROVE  ThreadTypeOK' /\ Moves(p)
  BY DEF Raise, Goto, ThreadTypeOK, Moves, Pc, Exception

LEMMA NoOpType == NoOp \in [kind : Kind, run : Run \cup {NoRun}, job : Job \cup {NoJob}, item : Nat]
  BY DEF NoOp, Kind

LEMMA LeaveType ==
    ASSUME ThreadTypeOK, NEW p \in Proc, Leave(p)
    PROVE  ThreadTypeOK'
  BY NoOpType DEF Leave, ThreadTypeOK, Pc

LEMMA ReturnMoves ==
    ASSUME ThreadTypeOK, NEW p \in Proc, pc[p] \in SectionPc,
           NEW e \in Exception, Return(p, e)
    PROVE  ThreadTypeOK' /\ Moves(p)
<1>1. CASE p = Worker
  <2>1. PICK l \in {"settle", "reput", "terminalize"} : Goto(p, l)
    BY <1>1 DEF Return
  <2> QED BY <1>1, <2>1 DEF Return, Goto, ThreadTypeOK, Moves, Pc, WorkerPc
<1>2. CASE p # Worker /\ Leave(p)
  BY <1>2, LeaveType DEF Leave, Moves, ThreadTypeOK
<1>3. CASE p # Worker /\ Goto(p, "schedule") /\ UNCHANGED <<op, exc>>
  BY <1>3 DEF Goto, ThreadTypeOK, Moves, Pc
<1> QED BY <1>1, <1>2, <1>3 DEF Return

----------------------------------------------------------------------------
\* A storage call leaves the fault counter in its range.
LEMMA StorageType ==
    ASSUME faults \in 0..MaxFaults, NEW ok \in BOOLEAN, Storage(ok)
    PROVE  faults' \in 0..MaxFaults
  BY RunStoreAssumption DEF Storage

\* The run a thread works on exists, so its status is the status of an item.
LEMMA WorkingRun ==
    ASSUME TypeInv, NEW p \in Proc, pc[p] \in SectionPc
    PROVE  op[p].run \in Run /\ run[op[p].run] \in RunStatus
  BY DEF TypeInv, ThreadsExist, Exists, Resting, SectionPc, TypeOK, StoreTypeOK

\* A step that rewrites the status of one item and nothing else.
LEMMA ItemWrite ==
    ASSUME StoreTypeOK, NEW i, NEW s \in ItemStatus, NEW ok \in BOOLEAN, Storage(ok),
           items' = items \/ items' = WithStatus(i, s),
           UNCHANGED <<run, job, lock>>
    PROVE  Keeps
<1>1. items' \in Seq(ItemRow)
  BY WithStatusType DEF StoreTypeOK, ItemRow
<1> QED BY <1>1, StorageType DEF StoreTypeOK, Keeps, ItemRow

LEMMA CoordinatorMoves ==
    ASSUME TypeInv, NEW p \in Proc, NEW ok \in BOOLEAN, CoordinatorStep(p, ok)
    PROVE  Keeps /\ ThreadTypeOK' /\ Moves(p)
<1> USE DEF SectionPc, Exception
<1>0. /\ StoreTypeOK /\ ThreadTypeOK /\ exc[p] \in Exception
      /\ pc[p] \in SectionPc => op[p].run \in Run /\ run[op[p].run] \in RunStatus
  BY WorkingRun DEF TypeInv, TypeOK, ThreadTypeOK
<1>1. CASE NotQueued(p)
  BY <1>0, <1>1, ReturnMoves DEF NotQueued, storeVars, Keeps, StoreTypeOK
<1>2. CASE AcquireLock(p)
  <2>1. Keeps
    BY <1>0, <1>2 DEF AcquireLock, Keeps, StoreTypeOK
  <2> QED BY <1>0, <1>2, <2>1, ContinueMoves DEF AcquireLock
<1>3. CASE AcquireFailed(p, ok)
  <2>1. Keeps
    BY <1>0, <1>3, StorageType DEF AcquireFailed, Keeps, StoreTypeOK
  <2> QED BY <1>0, <1>3, <2>1, ReturnMoves, RaiseMoves DEF AcquireFailed
<1>4. CASE MarkRunning(p, ok)
  <2>1. Keeps
    BY <1>0, <1>4, ItemWrite DEF MarkRunning, ItemStatus, RunStatus, LiveRun
  <2> QED BY <1>0, <1>4, <2>1, ContinueMoves, RaiseMoves DEF MarkRunning
<1>5. CASE FailItem(p, ok)
  <2>1. Keeps
    BY <1>0, <1>5, ItemWrite DEF FailItem, ItemStatus, RunStatus, TerminalRun
  <2> QED BY <1>0, <1>5, <2>1, ContinueMoves, ReturnMoves DEF FailItem
<1>6. CASE FinishItem(p, ok)
  <2>1. Keeps
    BY <1>0, <1>6, ItemWrite DEF FinishItem, ItemStatus
  <2> QED BY <1>0, <1>6, <2>1, ContinueMoves, RaiseMoves DEF FinishItem
<1>7. CASE ErrorItem(p, ok)
  <2>1. Keeps
    BY <1>0, <1>7, ItemWrite DEF ErrorItem, ItemStatus, RunStatus, TerminalRun
  <2> QED BY <1>0, <1>7, <2>1, ContinueMoves DEF ErrorItem
<1>8. CASE ReleaseLock(p, ok)
  <2>1. Keeps
    BY <1>0, <1>8, StorageType DEF ReleaseLock, Keeps, StoreTypeOK
  <2> QED BY <1>0, <1>8, <2>1, ReturnMoves DEF ReleaseLock
<1> QED BY <1>1, <1>2, <1>3, <1>4, <1>5, <1>6, <1>7, <1>8 DEF CoordinatorStep

\* A step that writes the run row and the jobs of one run and nothing else.
LEMMA RunWrite ==
    ASSUME StoreTypeOK, faults' \in 0..MaxFaults,
           NEW r \in Run, NEW s \in RunStatus,
           run' = run \/ run' = [run EXCEPT ![r] = s],
           job' \in [Run -> [Job -> JobStatus]],
           UNCHANGED <<items, lock>>
    PROVE  Keeps
  BY DEF StoreTypeOK, Keeps, RunStatus, LiveRun, TerminalRun

LEMMA JobWrites ==
    ASSUME StoreTypeOK, NEW r \in Run, NEW j, NEW s \in JobStatus
    PROVE  /\ [job EXCEPT ![r][j] = s] \in [Run -> [Job -> JobStatus]]
           /\ [job EXCEPT ![r] = Closed(r)] \in [Run -> [Job -> JobStatus]]
           /\ [job EXCEPT ![r] = [Closed(r) EXCEPT ![j] = s]] \in [Run -> [Job -> JobStatus]]
<1>1. Closed(r) \in [Job -> JobStatus]
  BY DEF StoreTypeOK, Closed, JobStatus
<1> QED BY <1>1 DEF StoreTypeOK

LEMMA BodyMoves ==
    ASSUME TypeInv, NEW p \in Proc, NEW ok \in BOOLEAN, BodyStep(p, ok)
    PROVE  Keeps /\ ThreadTypeOK' /\ Moves(p)
<1> USE DEF SectionPc, Exception
<1> DEFINE r == op[p].run
<1>0. /\ StoreTypeOK /\ ThreadTypeOK /\ exc[p] \in Exception
      /\ pc[p] \in SectionPc => r \in Run /\ run[r] \in RunStatus
      /\ faults \in 0..MaxFaults /\ job \in [Run -> [Job -> JobStatus]]
      /\ Handler(p) \in SectionPc
  BY WorkingRun DEF TypeInv, TypeOK, ThreadTypeOK, StoreTypeOK, Handler
<1>a. {"running", "queued", "waiting", "completed", "failed", "cancelled"} = RunStatus
  BY DEF RunStatus, LiveRun, TerminalRun
<1>b. {"required", "approved", "completed", "cancelled", "rejected"} \subseteq JobStatus
  BY DEF JobStatus, OpenJob
<1> HIDE DEF r
<1>1. CASE Load(p, ok)
  <2>1. Keeps
    BY <1>0, <1>1, StorageType DEF Load, Keeps, StoreTypeOK
  <2>2. Decision(op[p].kind, op[p].run, op[p].job) \in SectionPc \cup {"conflict"}
    BY DEF Decision
  <2> QED BY <1>0, <1>1, <2>1, <2>2, ContinueMoves, RaiseMoves DEF Load
<1>2. CASE ApplyApproval(p, ok)
  <2>0. r \in Run /\ faults' \in 0..MaxFaults
    BY <1>0, <1>2, StorageType DEF ApplyApproval
  <2>1. job' \in [Run -> [Job -> JobStatus]]
    <3>1. [job EXCEPT ![r][op[p].job] = "approved"] \in [Run -> [Job -> JobStatus]]
      BY <1>0, <1>b, <2>0, JobWrites
    <3> QED BY <1>0, <1>2, <3>1 DEF ApplyApproval, SetJob, r
  <2>2. Keeps
    BY <1>0, <1>2, <2>0, <2>1 DEF ApplyApproval, Keeps, StoreTypeOK
  <2> QED BY <1>0, <1>2, <2>2, ContinueMoves, RaiseMoves DEF ApplyApproval
<1>3. CASE TerminalAction(p, ok)
  <2>0. r \in Run /\ faults' \in 0..MaxFaults
    BY <1>0, <1>3, StorageType DEF TerminalAction
  <2>1. job' \in [Run -> [Job -> JobStatus]]
    <3>1. \A s \in {"rejected", "cancelled"} :
             [job EXCEPT ![r] = [Closed(r) EXCEPT ![op[p].job] = s]]
                \in [Run -> [Job -> JobStatus]]
      BY <1>0, <1>b, <2>0, JobWrites
    <3> QED BY <1>0, <1>3, <3>1 DEF TerminalAction, r
  <2>2. Keeps
    BY <1>0, <1>3, <1>a, <2>0, <2>1, RunWrite DEF TerminalAction, SetRun, r
  <2> QED BY <1>0, <1>3, <2>2, ContinueMoves, RaiseMoves DEF TerminalAction
<1>4. CASE EnqueueApproved(p, ok)
  <2>0. pc[p] = "enqueue" /\ faults' \in 0..MaxFaults
    BY <1>0, <1>4, StorageType DEF EnqueueApproved
  <2>1. CASE Raise(p, "storage", "release") /\ UNCHANGED <<run, items>>
    BY <1>0, <1>4, <2>0, <2>1, RaiseMoves DEF EnqueueApproved, Keeps, StoreTypeOK
  <2>2. CASE Raise(p, "conflict", "release") /\ UNCHANGED <<run, items>>
    BY <1>0, <1>4, <2>0, <2>2, RaiseMoves DEF EnqueueApproved, Keeps, StoreTypeOK
  <2>3. CASE /\ SetRun(r, "queued")
             /\ items' = IF BackgroundItems(r, ActiveItem) = {}
                         THEN Append(items, NewItem(r, TRUE)) ELSE items
             /\ op' = [op EXCEPT ![p].item = IF BackgroundItems(r, ActiveItem) = {}
                                             THEN Len(items) + 1
                                             ELSE Latest(BackgroundItems(r, ActiveItem))]
             /\ Goto(p, "release")
             /\ UNCHANGED exc
    <3> DEFINE A == BackgroundItems(r, ActiveItem)
    <3>1. items \in Seq(ItemRow) /\ Len(items) \in Nat /\ DOMAIN items = 1..Len(items)
      BY <1>0, LenProperties DEF StoreTypeOK, ItemRow
    <3>2. A \in SUBSET (1..Len(items))
      BY <3>1 DEF BackgroundItems
    <3>3. A # {} => Latest(A) \in Nat
      <4> HIDE DEF A
      <4>1. A # {} => Latest(A) \in A
        BY <3>1, <3>2, LatestIsMember
      <4>2. A \subseteq Nat
        BY <3>1, <3>2
      <4> QED BY <4>1, <4>2
    <3>4. items' \in Seq(ItemRow)
      BY <1>0, <2>0, <2>3, <3>1, AppendItem
    <3>5. Keeps
      BY <1>0, <1>4, <1>a, <2>0, <2>3, <3>4 DEF EnqueueApproved, SetRun, Keeps, StoreTypeOK, ItemRow
    <3>6. ThreadTypeOK'
      <4>1. PICK i \in Nat : op' = [op EXCEPT ![p].item = i]
        <5> HIDE DEF A
        <5>1. (IF A = {} THEN Len(items) + 1 ELSE Latest(A)) \in Nat
          BY <3>1, <3>3
        <5> QED BY <2>3, <5>1 DEF A
      <4>2. op' \in [Proc -> [kind : Kind, run : Run \cup {NoRun},
                              job : Job \cup {NoJob}, item : Nat]]
        BY <1>0, <4>1 DEF ThreadTypeOK
      <4> QED BY <1>0, <2>3, <4>2 DEF ThreadTypeOK, Goto, Pc
    <3>7. Moves(p)
      BY <1>0, <2>0, <2>3 DEF ThreadTypeOK, Goto, Moves
    <3> QED BY <3>5, <3>6, <3>7
  <2> QED BY <1>4, <2>1, <2>2, <2>3 DEF EnqueueApproved, r
<1>5. CASE Activate(p, ok)
  <2>2. Keeps
    BY <1>0, <1>5, <1>a, StorageType, RunWrite DEF Activate, SetRun, r
  <2> QED BY <1>0, <1>5, <2>2, ContinueMoves, RaiseMoves DEF Activate
<1>6. CASE RunnerUnavailable(p)
  BY <1>0, <1>6, RaiseMoves DEF RunnerUnavailable, storeVars, Keeps, StoreTypeOK
<1>7. ASSUME NEW j \in Job, RequestApproval(p, j) PROVE Keeps /\ ThreadTypeOK' /\ Moves(p)
  <2>1. job' \in [Run -> [Job -> JobStatus]]
    BY <1>0, <1>7, <1>b, JobWrites DEF RequestApproval, SetJob, r
  <2>2. Keeps
    BY <1>0, <1>7, <1>a, <2>1, RunWrite DEF RequestApproval, SetRun, r
  <2> QED BY <1>0, <1>7, <2>2, ContinueMoves DEF RequestApproval
<1>8. ASSUME NEW j \in Job, CommitApproved(p, j) PROVE Keeps /\ ThreadTypeOK' /\ Moves(p)
  <2>1. job' \in [Run -> [Job -> JobStatus]]
    BY <1>0, <1>8, <1>b, JobWrites DEF CommitApproved, SetJob, r
  <2>2. Keeps
    BY <1>0, <1>8, <1>a, <2>1, RunWrite DEF CommitApproved, SetRun, r
  <2> QED BY <1>0, <1>8, <2>2, ContinueMoves DEF CommitApproved
<1>9. CASE WaitRun(p, ok)
  <2>2. Keeps
    BY <1>0, <1>9, <1>a, StorageType, RunWrite DEF WaitRun, SetRun, r
  <2> QED BY <1>0, <1>9, <2>2, ContinueMoves, RaiseMoves DEF WaitRun
<1>10. CASE CompleteRun(p)
  <2>2. Keeps
    BY <1>0, <1>10, <1>a, RunWrite DEF CompleteRun, SetRun, r
  <2> QED BY <1>0, <1>10, <2>2, ContinueMoves DEF CompleteRun
<1>11. CASE FailRun(p)
  <2>2. Keeps
    BY <1>0, <1>11, <1>a, RunWrite DEF FailRun, SetRun, r
  <2> QED BY <1>0, <1>11, <2>2, ContinueMoves DEF FailRun
<1>12. CASE CloseRuntimeState(p, ok)
  <2>1. faults' \in 0..MaxFaults /\ job' \in [Run -> [Job -> JobStatus]]
    BY <1>0, <1>12, <1>b, StorageType, JobWrites DEF CloseRuntimeState, CloseJobs, r
  <2>2. Keeps
    BY <1>0, <1>12, <2>1 DEF CloseRuntimeState, Keeps, StoreTypeOK
  <2> QED BY <1>0, <1>12, <2>2, RaiseMoves DEF CloseRuntimeState
<1>13. CASE SegmentInterrupted(p)
  <2>2. Keeps
    BY <1>0, <1>13, StorageType DEF SegmentInterrupted, Keeps, StoreTypeOK
  <2> QED BY <1>0, <1>13, <2>2, RaiseMoves DEF SegmentInterrupted
<1> QED BY <1>1, <1>2, <1>3, <1>4, <1>5, <1>6, <1>7, <1>8, <1>9, <1>10, <1>11, <1>12, <1>13
        DEF BodyStep

----------------------------------------------------------------------------
(* TypeInv is inductive.                                                   *)

\* Runs are never deleted, so what exists before a step exists after it.
LEMMA StillExists ==
    ASSUME Keeps, NEW r, Exists(r)
    PROVE  Exists(r)'
  BY DEF Keeps, Exists

LEMMA SectionType ==
    ASSUME TypeInv, NEW p \in Proc, NEW ok \in BOOLEAN, SectionStep(p, ok)
    PROVE  TypeInv'
<1>1. Keeps /\ ThreadTypeOK' /\ Moves(p)
  BY CoordinatorMoves, BodyMoves DEF SectionStep
<1>2. UNCHANGED <<phase, todo, fixing, queue, scheduled, pending, requests, starts, history>>
  BY DEF SectionStep, memVars
<1>3. TypeOK'
  BY <1>1, <1>2 DEF TypeInv, TypeOK, Keeps
<1>4. ThreadsExist'
  <2>1. \A q \in Proc : q # p => pc'[q] = pc[q] /\ op'[q] = op[q]
    BY <1>1 DEF Moves
  <2>2. op[p].run \in Run /\ Exists(op[p].run)
    BY <1>1 DEF TypeInv, ThreadsExist, Moves, SectionPc, Resting
  <2>3. op'[p].run = op[p].run \/ (pc'[p] \in Resting /\ op'[p].run \notin Run)
    BY <1>1, RunStoreAssumption DEF Moves, Resting, NoOp
  <2>4. \A q \in Proc : pc'[q] \notin Resting => op'[q].run \in Run
    BY <2>1, <2>2, <2>3 DEF TypeInv, ThreadsExist
  <2>5. \A q \in Proc : op'[q].run \in Run => Exists(op[q].run) /\ op'[q].run = op[q].run
    BY <2>1, <2>2, <2>3 DEF TypeInv, ThreadsExist
  <2> QED BY <1>1, <2>4, <2>5, StillExists DEF ThreadsExist, Exists
<1>5. QueueExists' /\ StartupExists'
  BY <1>1, <1>2, StillExists DEF TypeInv, QueueExists, StartupExists, Sentinel, Wake
<1> QED BY <1>3, <1>4, <1>5 DEF TypeInv

LEMMA ContinueType ==
    ASSUME ThreadTypeOK, NEW p \in Proc, NEW l \in Pc, Continue(p, l)
    PROVE  ThreadTypeOK'
  BY DEF Continue, Goto, ThreadTypeOK

\* A step of the worker that goes on with the wake item it has.
LEMMA WorkerContinues ==
    ASSUME TypeInv, Keeps, NEW l \in Pc, Continue(Worker, l),
           l \in Resting \/ pc[Worker] \notin Resting,
           UNCHANGED <<memVars, requests, starts>>, stolen' \subseteq Run, disturbed' \subseteq Run
    PROVE  TypeInv'
<1>0. Worker \in Proc
  BY DEF Proc
<1>1. TypeOK'
  BY <1>0, ContinueType DEF TypeInv, TypeOK, Keeps, memVars
<1>2. ThreadsExist'
  <2>1. \A q \in Proc : pc'[q] = IF q = Worker THEN l ELSE pc[q]
    BY DEF Continue, Goto, TypeInv, TypeOK, ThreadTypeOK
  <2>2. op' = op
    BY DEF Continue
  <2> QED BY <2>1, <2>2, StillExists, <1>0 DEF TypeInv, ThreadsExist, Exists
<1>3. QueueExists' /\ StartupExists'
  BY StillExists DEF TypeInv, QueueExists, StartupExists, Sentinel, Wake, memVars
<1> QED BY <1>1, <1>2, <1>3 DEF TypeInv

\* A step of the worker that leaves the records alone and drops its wake item.
LEMMA WorkerDrops ==
    ASSUME TypeInv,
           pc' = [pc EXCEPT ![Worker] = "loop"], op' = [op EXCEPT ![Worker] = NoOp],
           exc' = exc,
           UNCHANGED storeVars, QueueExists', queue' \in Seq(WakeRow),
           scheduled' \subseteq Run, pending' \in [Run -> Nat],
           UNCHANGED <<phase, todo, fixing, requests, starts, history>>
    PROVE  TypeInv'
<1>0. Worker \in Proc
  BY DEF Proc
<1>1. TypeOK'
  BY <1>0, NoOpType DEF TypeInv, TypeOK, StoreTypeOK, ThreadTypeOK, storeVars, WakeRow, Pc, WorkerPc
<1>2. ThreadsExist'
  BY RunStoreAssumption DEF TypeInv, TypeOK, ThreadTypeOK, ThreadsExist, Exists, Resting, NoOp, storeVars
<1>3. StartupExists'
  BY DEF TypeInv, StartupExists, Exists, storeVars
<1> QED BY <1>1, <1>2, <1>3 DEF TypeInv

\* Appending a wake item of an existing run to the queue.
LEMMA AppendWake ==
    ASSUME TypeInv, NEW i \in Nat, NEW r, Exists(r)
    PROVE  LET new == Append(queue, Wake(i, r))
           IN  /\ new \in Seq(WakeRow)
               /\ DOMAIN new = DOMAIN queue \cup {Len(queue) + 1}
               /\ \A k \in DOMAIN queue : new[k] = queue[k]
               /\ new[Len(queue) + 1] = Wake(i, r)
               /\ \A k \in DOMAIN new : new[k] = Sentinel \/ Exists(new[k].run)
<1>1. queue \in Seq(WakeRow) /\ Wake(i, r) \in WakeRow /\ Wake(i, r).run = r
  BY DEF TypeInv, TypeOK, WakeRow, Wake, Exists
<1> HIDE DEF WakeRow, Wake
<1>2. LET new == Append(queue, Wake(i, r))
      IN  /\ new \in Seq(WakeRow)
          /\ DOMAIN new = DOMAIN queue \cup {Len(queue) + 1}
          /\ \A k \in DOMAIN queue : new[k] = queue[k]
          /\ new[Len(queue) + 1] = Wake(i, r)
  BY <1>1
<1> QED BY <1>1, <1>2 DEF TypeInv, QueueExists

LEMMA WorkerType ==
    ASSUME TypeInv, NEW ok \in BOOLEAN, WorkerStep(ok)
    PROVE  TypeInv'
<1> DEFINE r == op[Worker].run
<1> DEFINE i == op[Worker].item
<1>0. /\ Worker \in Proc /\ StoreTypeOK /\ ThreadTypeOK /\ faults \in 0..MaxFaults
      /\ job \in [Run -> [Job -> JobStatus]]
      /\ i \in Nat
      /\ pc[Worker] \notin Resting => r \in Run /\ run[r] \in RunStatus /\ Exists(r)
  BY DEF TypeInv, TypeOK, ThreadTypeOK, StoreTypeOK, ThreadsExist, Exists, Proc
<1>a. {"running", "queued", "waiting", "completed", "failed", "cancelled"} = RunStatus
  BY DEF RunStatus, LiveRun, TerminalRun
<1>b. /\ stolen' = stolen => stolen' \subseteq Run
      /\ disturbed' = disturbed => disturbed' \subseteq Run
      /\ \A x \in Run : Overwrite(x) => disturbed' \subseteq Run
  BY DEF TypeInv, TypeOK, Overwrite
<1> HIDE DEF r, i
<1> USE DEF Pc, WorkerPc, SectionPc, Resting
<1>1. CASE LoopTest
  <2>1. Keeps
    BY <1>0, <1>1 DEF LoopTest, Keeps, StoreTypeOK, storeVars
  <2> QED BY <1>1, <1>b, <2>1, WorkerContinues DEF LoopTest
<1>2. CASE GetWake
  <2>1. /\ queue \in Seq(WakeRow) /\ queue # << >> /\ Head(queue) \in WakeRow
        /\ queue' \in Seq(WakeRow) /\ Len(queue) \in Nat
        /\ \A k \in DOMAIN queue' : k + 1 \in DOMAIN queue /\ queue'[k] = queue[k + 1]
        /\ Head(queue) = queue[1] /\ 1 \in DOMAIN queue
    <3>1. queue \in Seq(WakeRow) /\ queue # << >> /\ queue' = Tail(queue)
      BY <1>2 DEF GetWake, TypeInv, TypeOK, WakeRow
    <3>2. Len(queue) \in Nat /\ DOMAIN queue = 1..Len(queue) /\ Len(queue) # 0
      BY <3>1, LenProperties, EmptySeq
    <3>3. /\ Head(queue) \in WakeRow /\ Tail(queue) \in Seq(WakeRow)
          /\ Len(Tail(queue)) = Len(queue) - 1
          /\ \A k \in 1..Len(Tail(queue)) : Tail(queue)[k] = queue[k + 1]
      BY <3>1, HeadTailProperties
    <3>4. DOMAIN Tail(queue) = 1..Len(Tail(queue))
      BY <3>3, LenProperties
    <3> HIDE DEF WakeRow
    <3> QED BY <3>1, <3>2, <3>3, <3>4
  <2>2. QueueExists'
    BY <1>2, <2>1 DEF GetWake, storeVars, TypeInv, QueueExists, Exists, Sentinel, Wake
  <2>3. StartupExists'
    BY <1>2 DEF GetWake, storeVars, TypeInv, StartupExists, Exists
  <2>4. CASE Continue(Worker, "dead")
    <3>1. TypeOK'
      BY <1>0, <1>2, <2>1, <2>4, ContinueType
         DEF TypeInv, TypeOK, GetWake, storeVars, StoreTypeOK, WakeRow
    <3>2. ThreadsExist'
      BY <1>2, <2>4 DEF GetWake, Continue, Goto, storeVars, TypeInv, TypeOK, ThreadTypeOK, ThreadsExist, Exists
    <3> QED BY <2>2, <2>3, <3>1, <3>2 DEF TypeInv
  <2>5. CASE /\ Head(queue) # Sentinel
             /\ Begin(Worker, "wake", Head(queue).run, NoJob, Head(queue).item, "wake")
    <3>0. Exists(Head(queue).run) /\ Head(queue).item \in Nat
      BY <2>1, <2>5 DEF TypeInv, QueueExists, WakeRow
    <3>1. [kind |-> "wake", run |-> Head(queue).run, job |-> NoJob, item |-> Head(queue).item]
             \in [kind : Kind, run : Run \cup {NoRun}, job : Job \cup {NoJob}, item : Nat]
      BY <3>0 DEF Exists, Kind
    <3>2. ThreadTypeOK'
      BY <1>0, <2>5, <3>1 DEF Begin, Goto, ThreadTypeOK
    <3>3. TypeOK'
      BY <1>2, <2>1, <3>2 DEF TypeInv, TypeOK, GetWake, storeVars, StoreTypeOK, WakeRow
    <3>4. ThreadsExist'
      <4>1. \A q \in Proc : pc'[q] = (IF q = Worker THEN "wake" ELSE pc[q])
        BY <2>5, <1>0 DEF Begin, Goto, ThreadTypeOK
      <4>2. \A q \in Proc : op'[q].run = (IF q = Worker THEN Head(queue).run ELSE op[q].run)
        BY <2>5, <1>0 DEF Begin, ThreadTypeOK
      <4> QED BY <1>2, <3>0, <4>1, <4>2 DEF GetWake, storeVars, TypeInv, ThreadsExist, Exists
    <3> QED BY <2>2, <2>3, <3>3, <3>4 DEF TypeInv
  <2> QED BY <1>2, <2>4, <2>5 DEF GetWake
<1>3. CASE ReadWake(ok)
  <2>1. Keeps
    BY <1>0, <1>3, StorageType DEF ReadWake, Keeps, StoreTypeOK
  <2>2. Branch(op[Worker].run, op[Worker].item) \in Pc
    BY DEF Branch
  <2> QED BY <1>3, <1>b, <2>1, <2>2, WorkerContinues DEF ReadWake
<1>4. CASE RequeueSegment(ok)
  <2>1. items' = items \/ items' = WithStatus(i, "queued")
    BY <1>4 DEF RequeueSegment, i
  <2>2. items' \in Seq(ItemRow)
    BY <1>0, <1>a, <2>1, WithStatusType DEF StoreTypeOK, ItemRow, ItemStatus
  <2>3. r \in Run /\ faults' \in 0..MaxFaults
    BY <1>0, <1>4, StorageType DEF RequeueSegment
  <2>4. job' \in [Run -> [Job -> JobStatus]]
    <3>1. [job EXCEPT ![r] = Closed(r)] \in [Run -> [Job -> JobStatus]]
      BY <1>0, <2>3, JobWrites DEF JobStatus
    <3> QED BY <1>0, <1>4, <3>1 DEF RequeueSegment, CloseJobs, r
  <2>5. Keeps
    BY <1>0, <1>4, <1>a, <2>2, <2>3, <2>4 DEF RequeueSegment, SetRun, Keeps, StoreTypeOK, ItemRow, r
  <2>6. disturbed' \subseteq Run
    BY <1>4, <1>b, <2>3 DEF RequeueSegment, r
  <2> QED BY <1>4, <1>b, <2>5, <2>6, WorkerContinues DEF RequeueSegment
<1>5. CASE ReleaseOrphans(ok)
  <2>1. Keeps
    BY <1>0, <1>5, StorageType DEF ReleaseOrphans, Keeps, StoreTypeOK
  <2>2. stolen' \subseteq Run /\ disturbed' \subseteq Run
    BY <1>0, <1>5 DEF ReleaseOrphans, TypeInv, TypeOK, r
  <2> QED BY <1>5, <2>1, <2>2, WorkerContinues DEF ReleaseOrphans
<1>6. CASE Reconcile(ok)
  <2>1. Storage(ok) \/ UNCHANGED faults
    BY <1>6 DEF Reconcile
  <2>2. r \in Run /\ run[r] \in ItemStatus /\ faults' \in 0..MaxFaults
    BY <1>0, <1>6, <2>1, StorageType DEF Reconcile, ItemStatus
  <2>3. items' = items \/ items' = WithStatus(i, run[r])
    BY <1>6 DEF Reconcile, i, r
  <2>4. items' \in Seq(ItemRow)
    BY <1>0, <2>2, <2>3, WithStatusType DEF StoreTypeOK, ItemRow
  <2>5. Keeps
    BY <1>0, <1>6, <2>2, <2>4 DEF Reconcile, Keeps, StoreTypeOK, ItemRow
  <2> QED BY <1>6, <1>b, <2>5, WorkerContinues DEF Reconcile
<1>7. CASE ConfigurationMissing(ok)
  <2>1. items' = items \/ items' = WithStatus(i, "failed")
    BY <1>7 DEF ConfigurationMissing, i
  <2>2. items' \in Seq(ItemRow)
    BY <1>0, <1>a, <2>1, WithStatusType DEF StoreTypeOK, ItemRow, ItemStatus
  <2>3. r \in Run /\ faults' \in 0..MaxFaults
    BY <1>0, <1>7, StorageType DEF ConfigurationMissing
  <2>4. job' \in [Run -> [Job -> JobStatus]]
    <3>1. [job EXCEPT ![r] = Closed(r)] \in [Run -> [Job -> JobStatus]]
      BY <1>0, <2>3, JobWrites DEF JobStatus
    <3> QED BY <1>0, <1>7, <3>1 DEF ConfigurationMissing, CloseJobs, r
  <2>5. Keeps
    BY <1>0, <1>7, <1>a, <2>2, <2>3, <2>4 DEF ConfigurationMissing, SetRun, Keeps, StoreTypeOK, ItemRow, r
  <2>6. disturbed' \subseteq Run
    BY <1>7, <1>b, <2>3 DEF ConfigurationMissing, r
  <2> QED BY <1>7, <1>b, <2>5, <2>6, WorkerContinues DEF ConfigurationMissing
<1>8. CASE Terminalize(ok)
  <2>1. items' = items \/ items' = WithStatus(i, "failed")
    BY <1>8 DEF Terminalize, i
  <2>2. items' \in Seq(ItemRow)
    BY <1>0, <1>a, <2>1, WithStatusType DEF StoreTypeOK, ItemRow, ItemStatus
  <2>3. r \in Run /\ faults' \in 0..MaxFaults
    BY <1>0, <1>8, StorageType DEF Terminalize
  <2>4. job' \in [Run -> [Job -> JobStatus]]
    <3>1. [job EXCEPT ![r] = Closed(r)] \in [Run -> [Job -> JobStatus]]
      BY <1>0, <2>3, JobWrites DEF JobStatus
    <3> QED BY <1>0, <1>8, <3>1 DEF Terminalize, CloseJobs, r
  <2>5. Keeps
    BY <1>0, <1>8, <1>a, <2>2, <2>3, <2>4 DEF Terminalize, Keeps, StoreTypeOK, ItemRow, r
  <2>6. disturbed' \subseteq Run
    BY <1>8, <1>b, <2>3 DEF Terminalize, r
  <2> QED BY <1>8, <1>b, <2>5, <2>6, WorkerContinues DEF Terminalize
<1>9. CASE PutBack
  <2>1. CASE Continue(Worker, "settle") /\ UNCHANGED queue
    <3>1. Keeps
      BY <1>0, <1>9 DEF PutBack, Keeps, StoreTypeOK, storeVars
    <3> QED BY <1>9, <1>b, <2>1, <3>1, WorkerContinues DEF PutBack, memVars
  <2>2. CASE phase # "stopping"
    <3>1. QueueExists' /\ queue' \in Seq(WakeRow)
      <4>1. queue' = Append(queue, Wake(i, r)) /\ run' = run /\ i \in Nat /\ Exists(r)
        BY <1>0, <1>9, <2>2 DEF PutBack, storeVars, i, r
      <4>2. /\ queue' \in Seq(WakeRow)
            /\ \A k \in DOMAIN queue' : queue'[k] = Sentinel \/ Exists(queue'[k].run)
        BY <4>1, AppendWake
      <4> QED BY <4>1, <4>2 DEF QueueExists, Exists, Sentinel, Wake
    <3> QED BY <1>9, <2>2, <3>1, WorkerDrops DEF PutBack, TypeInv, TypeOK
  <2> QED BY <1>9, <2>1, <2>2 DEF PutBack
<1>10. CASE Settle
  <2>1. QueueExists' /\ queue' \in Seq(WakeRow)
    <3>1. CASE queue' = queue
      <4>1. run' = run /\ queue \in Seq(WakeRow) /\ QueueExists
        BY <1>10 DEF Settle, storeVars, TypeInv, TypeOK, WakeRow
      <4> QED BY <3>1, <4>1 DEF QueueExists, Exists, Sentinel, Wake
    <3>2. CASE queue' = Append(queue, Wake(pending[r], r))
      <4>1. pending[r] \in Nat /\ Exists(r)
        BY <1>0, <1>10 DEF Settle, TypeInv, TypeOK
      <4> QED BY <1>10, <3>2, <4>1, AppendWake DEF Settle, QueueExists, Exists, storeVars, Sentinel, Wake
    <3> QED BY <1>10, <3>1, <3>2 DEF Settle, r
  <2>2. scheduled' \subseteq Run /\ pending' \in [Run -> Nat]
    <3>1. scheduled \subseteq Run /\ pending \in [Run -> Nat]
      BY DEF TypeInv, TypeOK
    <3> QED BY <1>10, <3>1 DEF Settle
  <2> QED BY <1>10, <2>1, <2>2, WorkerDrops DEF Settle
<1> QED BY <1>1, <1>2, <1>3, <1>4, <1>5, <1>6, <1>7, <1>8, <1>9, <1>10 DEF WorkerStep

\* A step of client c: a request begins with a row of its own, or goes on.
LEMMA ClientType ==
    ASSUME TypeInv, NEW c \in Client, Request(c) \/ Schedule(c) \/ Put(c)
    PROVE  TypeInv'
<1>0. c \in Proc /\ StoreTypeOK /\ ThreadTypeOK
  BY DEF TypeInv, TypeOK, Proc
<1>1. ASSUME NEW kind \in Kind, NEW r, Exists(r)', NEW j \in Job \cup {NoJob}, NEW i \in Nat,
             NEW l \in Pc, Begin(c, kind, r, j, i, l),
             Keeps, requests < MaxRequests, requests' = requests + 1,
             UNCHANGED <<memVars, starts, history>>
      PROVE  TypeInv'
  <2>1. [kind |-> kind, run |-> r, job |-> j, item |-> i]
             \in [kind : Kind, run : Run \cup {NoRun}, job : Job \cup {NoJob}, item : Nat]
    BY <1>1 DEF Exists
  <2>2. ThreadTypeOK'
    BY <1>0, <1>1, <2>1 DEF Begin, Goto, ThreadTypeOK
  <2>3. TypeOK'
    BY <1>1, <2>2, RunWorkerAssumption DEF TypeInv, TypeOK, Keeps, memVars
  <2>4. ThreadsExist'
    <3>1. \A q \in Proc : pc'[q] = (IF q = c THEN l ELSE pc[q])
      BY <1>0, <1>1 DEF Begin, Goto, ThreadTypeOK
    <3>2. \A q \in Proc : op'[q].run = (IF q = c THEN r ELSE op[q].run)
      BY <1>0, <1>1 DEF Begin, ThreadTypeOK
    <3>3. \A q \in Proc : q # c => (pc[q] \notin Resting => op[q].run \in Run)
                                   /\ (op[q].run \in Run => run'[op[q].run] # "absent")
      BY <1>1 DEF TypeInv, ThreadsExist, Keeps, Exists
    <3> QED BY <1>1, <3>1, <3>2, <3>3 DEF ThreadsExist, Exists
  <2>5. QueueExists' /\ StartupExists'
    <3>1. UNCHANGED <<queue, todo, fixing>> /\ QueueExists /\ StartupExists
      BY <1>1 DEF memVars, TypeInv
    <3>2. \A x : Exists(x) => Exists(x)'
      BY <1>1, StillExists
    <3> QED BY <3>1, <3>2 DEF QueueExists, StartupExists, Sentinel, Wake
  <2> QED BY <2>3, <2>4, <2>5 DEF TypeInv
<1> USE DEF Pc, SectionPc, Kind
<1>2. ASSUME NEW r \in Run, NEW bg \in BOOLEAN, StartRun(c, r, bg) PROVE TypeInv'
  <2>1. items \in Seq(ItemRow)
    BY <1>0 DEF StoreTypeOK, ItemRow
  <2>2. items' \in Seq(ItemRow) /\ Len(items) + 1 \in Nat
    BY <1>2, <2>1, AppendItem DEF StartRun
  <2>3. Keeps
    BY <1>0, <1>2, <2>2 DEF StartRun, SetRun, Keeps, StoreTypeOK, RunStatus, LiveRun, ItemRow
  <2>4. Exists(r)'
    BY <1>0, <1>2 DEF StartRun, SetRun, Exists, StoreTypeOK
  <2> QED BY <1>1, <1>2, <2>2, <2>3, <2>4 DEF StartRun, Admitted
<1>3. ASSUME NEW r \in Run, NEW j \in Job, NEW kind \in {"approve", "reject", "cancel"},
             JobRequest(c, kind, r, j)
      PROVE TypeInv'
  <2>1. items \in Seq(ItemRow)
    BY <1>0 DEF StoreTypeOK, ItemRow
  <2>2. items' \in Seq(ItemRow) /\ Len(items) + 1 \in Nat
    BY <1>3, <2>1, AppendItem DEF JobRequest
  <2>3. Keeps
    BY <1>0, <1>3, <2>2 DEF JobRequest, Keeps, StoreTypeOK, ItemRow
  <2>4. Exists(r)'
    BY <1>0, <1>3 DEF JobRequest, Exists
  <2> QED BY <1>1, <1>3, <2>2, <2>3, <2>4 DEF JobRequest, Admitted
<1>4. ASSUME NEW r \in Run, NEW j \in Job, BackgroundApproval(c, r, j) PROVE TypeInv'
  <2>1. Keeps /\ Exists(r)'
    BY <1>0, <1>4 DEF BackgroundApproval, Keeps, StoreTypeOK, Exists, storeVars
  <2> QED BY <1>1, <1>4, <2>1 DEF BackgroundApproval, Admitted
<1>5. CASE Schedule(c)
  <2>0. op[c].run \in Run /\ op[c].item \in Nat
    BY <1>0, <1>5 DEF Schedule, TypeInv, ThreadsExist, Resting, ThreadTypeOK
  <2>1. ThreadTypeOK'
    BY <1>0, <1>5, LeaveType, ContinueType DEF Schedule
  <2>2. TypeOK'
    BY <1>5, <2>0, <2>1 DEF Schedule, TypeInv, TypeOK, StoreTypeOK, storeVars
  <2>3. /\ run' = run
        /\ \A q \in Proc : /\ pc'[q] = pc[q] \/ pc'[q] \in Resting \/ (q = c /\ op'[c] = op[c])
                           /\ op'[q] = op[q] \/ (op'[q] = NoOp /\ pc'[q] \in Resting)
    BY <1>0, <1>5 DEF Schedule, Leave, Continue, Goto, ThreadTypeOK, Resting, storeVars
  <2>4. ThreadsExist'
    BY <2>0, <2>3, RunStoreAssumption DEF TypeInv, ThreadsExist, Exists, NoOp
  <2>5. QueueExists' /\ StartupExists'
    BY <1>5, <2>3 DEF Schedule, TypeInv, QueueExists, StartupExists, Exists, Sentinel, Wake
  <2> QED BY <2>2, <2>4, <2>5 DEF TypeInv
<1>6. CASE Put(c)
  <2>0. op[c].run \in Run /\ op[c].item \in Nat /\ Exists(op[c].run)
    BY <1>0, <1>6 DEF Put, TypeInv, ThreadsExist, Resting, ThreadTypeOK
  <2>1. ThreadTypeOK'
    BY <1>0, <1>6, LeaveType DEF Put
  <2>2. queue' = Append(queue, Wake(op[c].item, op[c].run)) /\ run' = run
    BY <1>6 DEF Put, storeVars
  <2>3. queue' \in Seq(WakeRow) /\ QueueExists'
    BY <2>0, <2>2, AppendWake DEF QueueExists, Exists, Sentinel, Wake
  <2>4. TypeOK'
    BY <1>6, <2>1, <2>3 DEF Put, TypeInv, TypeOK, StoreTypeOK, storeVars, WakeRow
  <2>5. \A q \in Proc : (pc'[q] = pc[q] /\ op'[q] = op[q]) \/ (op'[q] = NoOp /\ pc'[q] \in Resting)
    BY <1>0, <1>6 DEF Put, Leave, ThreadTypeOK, Resting
  <2>6. ThreadsExist'
    BY <2>2, <2>5, RunStoreAssumption DEF TypeInv, ThreadsExist, Exists, NoOp
  <2>7. StartupExists'
    BY <1>6, <2>2 DEF Put, TypeInv, StartupExists, Exists
  <2> QED BY <2>3, <2>4, <2>6, <2>7 DEF TypeInv
<1> QED BY <1>2, <1>3, <1>4, <1>5, <1>6 DEF Request

\* The life cycle of the process.
LEMMA LifecycleType ==
    ASSUME TypeInv, Start \/ Startup \/ Stop \/ Stopped \/ Crash
    PROVE  TypeInv'
<1>0. /\ StoreTypeOK /\ ThreadTypeOK /\ Worker \in Proc
      /\ items \in Seq(ItemRow) /\ queue \in Seq(WakeRow)
      /\ QueueExists /\ StartupExists /\ ThreadsExist
  BY DEF TypeInv, TypeOK, StoreTypeOK, ItemRow, WakeRow, Proc
<1>1. CASE Start
  <2>1. TypeOK'
    BY <1>0, <1>1, RunWorkerAssumption
       DEF Start, TypeInv, TypeOK, StoreTypeOK, ThreadTypeOK, storeVars, threadVars, Phase
  <2> QED BY <1>0, <1>1, <2>1
       DEF Start, TypeInv, ThreadsExist, QueueExists, StartupExists, Exists, storeVars, threadVars, Sentinel, Wake
<1>a. ASSUME Keeps, UNCHANGED <<threadVars, queue>>, todo' \subseteq todo, fixing' \in todo \cup {NoRun, fixing},
             UNCHANGED <<phase, scheduled, pending, requests, starts, history>>
      PROVE  TypeInv'
  <2>0. pc' = pc /\ op' = op /\ exc' = exc /\ queue' = queue
    BY <1>a DEF threadVars
  <2>1. TypeOK'
    BY <1>0, <1>a, <2>0 DEF TypeInv, TypeOK, ThreadTypeOK, Keeps
  <2>2. ThreadsExist'
    BY <1>0, <1>a, <2>0 DEF ThreadsExist, Exists, Keeps
  <2>3. QueueExists' /\ StartupExists'
    <3>1. \A x : Exists(x) => Exists(x)'
      BY <1>a, StillExists
    <3> QED BY <1>0, <1>a, <2>0, <3>1 DEF QueueExists, StartupExists, Sentinel, Wake
  <2> QED BY <2>1, <2>2, <2>3 DEF TypeInv
<1>2. ASSUME NEW r \in Run, ReleaseLocks(r) PROVE TypeInv'
  <2>1. Keeps
    BY <1>0, <1>2 DEF ReleaseLocks, Keeps, StoreTypeOK
  <2> QED BY <1>2, <1>a, <2>1 DEF ReleaseLocks
<1>b. phase = "recover" /\ fixing # NoRun => fixing \in Run /\ run[fixing] \in RunStatus
  BY <1>0 DEF StartupExists, Exists, StoreTypeOK
<1>3. ASSUME NEW i \in DOMAIN items, RecoverItem(i) PROVE TypeInv'
  <2>1. PICK s \in ItemStatus : items' = WithStatus(i, s)
    BY <1>3, <1>b DEF RecoverItem, ItemStatus, RunStatus, TerminalRun
  <2>2. items' \in Seq(ItemRow)
    BY <1>0, <2>1, WithStatusType
  <2>3. Keeps
    BY <1>0, <1>3, <2>2 DEF RecoverItem, Keeps, StoreTypeOK, ItemRow
  <2> QED BY <1>3, <1>a, <2>3 DEF RecoverItem, memVars
<1>4. CASE RecoverRun
  <2>1. fixing \in Run /\ run[fixing] \in RunStatus
    BY <1>4, <1>b DEF RecoverRun
  <2>2. items' \in Seq(ItemRow)
    BY <1>0, <1>4, RewrittenType DEF RecoverRun, ItemStatus, RunStatus, TerminalRun
  <2>4. run' \in [Run -> RunStatus \cup {"absent"}] /\ \A r \in Run : run[r] # "absent" => run'[r] # "absent"
    BY <1>0, <1>4, <2>1 DEF RecoverRun, SetRun, StoreTypeOK, RunStatus, LiveRun, TerminalRun
  <2>5. Keeps
    BY <1>0, <1>4, <2>2, <2>4 DEF RecoverRun, Keeps, StoreTypeOK, ItemRow
  <2> QED BY <1>4, <1>a, <2>5 DEF RecoverRun
<1>c. CASE RecoverJobs
  <2>1. fixing \in Run /\ job' = [job EXCEPT ![fixing] = Closed(fixing)]
    BY <1>b, <1>c DEF RecoverJobs, CloseJobs
  <2>2. job' \in [Run -> [Job -> JobStatus]]
    BY <1>0, <2>1, JobWrites DEF JobStatus
  <2>3. Keeps
    BY <1>0, <1>c, <2>2 DEF RecoverJobs, Keeps, StoreTypeOK
  <2> QED BY <1>c, <1>a, <2>3 DEF RecoverJobs, memVars
<1>5. CASE StartThread
  <2>1. ThreadTypeOK'
    BY <1>0, <1>5, ContinueType DEF StartThread, Pc, WorkerPc
  <2>2. TypeOK'
    BY <1>0, <1>5, <2>1 DEF StartThread, TypeInv, TypeOK, StoreTypeOK, storeVars, Phase
  <2>3. \A q \in Proc : pc'[q] = pc[q] \/ pc'[q] \in Resting
    BY <1>0, <1>5 DEF StartThread, Continue, Goto, ThreadTypeOK, Resting
  <2>4. ThreadsExist'
    BY <1>0, <1>5, <2>3 DEF StartThread, Continue, ThreadsExist, Exists, storeVars
  <2>5. QueueExists' /\ StartupExists'
    BY <1>0, <1>5 DEF StartThread, QueueExists, StartupExists, Exists, storeVars, Sentinel, Wake
  <2> QED BY <2>2, <2>4, <2>5 DEF TypeInv
<1>6. ASSUME NEW r \in Run, ScheduleRecovered(r) PROVE TypeInv'
  <2> DEFINE Q == BackgroundItems(r, {"queued"})
  <2> DEFINE i == IF Q = {} THEN Len(items) + 1 ELSE Latest(Q)
  <2>0. Exists(r)
    BY <1>0, <1>6 DEF ScheduleRecovered, StartupExists
  <2>1. Len(items) \in Nat /\ DOMAIN items = 1..Len(items)
    BY <1>0, LenProperties
  <2>2. Q \in SUBSET (1..Len(items))
    BY <2>1 DEF BackgroundItems
  <2>3. i \in Nat
    <3> HIDE DEF Q
    <3>1. Q # {} => Latest(Q) \in Q
      BY <2>1, <2>2, LatestIsMember
    <3>2. Q \subseteq Nat
      BY <2>1, <2>2
    <3>3. Q # {} => Latest(Q) \in Nat
      BY <3>1, <3>2, Zenon
    <3> QED BY <2>1, <3>3
  <2>4. items' \in Seq(ItemRow)
    BY <1>0, <1>6, AppendItem DEF ScheduleRecovered
  <2>5. queue' = Append(queue, Wake(i, r)) /\ run' = run
    BY <1>6 DEF ScheduleRecovered
  <2> HIDE DEF i, Q
  <2>6. /\ queue' \in Seq(WakeRow)
        /\ \A k \in DOMAIN queue' : queue'[k] = Sentinel \/ Exists(queue'[k].run)
    BY <2>0, <2>3, <2>5, AppendWake
  <2>7. QueueExists'
    BY <2>5, <2>6 DEF QueueExists, Exists, Sentinel, Wake
  <2>8. TypeOK'
    BY <1>0, <1>6, <2>4, <2>6
       DEF ScheduleRecovered, TypeInv, TypeOK, StoreTypeOK, ThreadTypeOK, threadVars, ItemRow, WakeRow
  <2>9. ThreadsExist' /\ StartupExists'
    BY <1>0, <1>6 DEF ScheduleRecovered, ThreadsExist, StartupExists, Exists, threadVars
  <2> QED BY <2>7, <2>8, <2>9 DEF TypeInv
<1>7. CASE Accept
  <2>1. TypeOK'
    BY <1>0, <1>7 DEF Accept, TypeInv, TypeOK, StoreTypeOK, ThreadTypeOK, storeVars, threadVars, Phase
  <2> QED BY <1>0, <1>7, <2>1
       DEF Accept, TypeInv, ThreadsExist, QueueExists, StartupExists, Exists, storeVars, threadVars, Sentinel, Wake
<1>8. CASE Stop
  <2>1. Sentinel \in WakeRow /\ queue' = Append(queue, Sentinel) /\ run' = run
    BY <1>8 DEF Stop, Sentinel, Wake, WakeRow, storeVars
  <2>2. queue' \in Seq(WakeRow)
    <3> HIDE DEF WakeRow
    <3> QED BY <1>0, <2>1
  <2>3. QueueExists'
    <3>1. \A k \in DOMAIN queue' : queue'[k] = Sentinel \/ (k \in DOMAIN queue /\ queue'[k] = queue[k])
      <4> HIDE DEF WakeRow, Sentinel
      <4>1. Len(queue) \in Nat /\ DOMAIN queue = 1..Len(queue)
        BY <1>0, LenProperties
      <4>2. DOMAIN queue' = 1..(Len(queue) + 1)
        BY <1>0, <2>1, <4>1
      <4>3. \A k \in 1..(Len(queue) + 1) :
               queue'[k] = IF k = Len(queue) + 1 THEN Sentinel ELSE queue[k]
        BY <1>0, <2>1, <4>1
      <4> QED BY <4>1, <4>2, <4>3
    <3> QED BY <1>0, <2>1, <3>1 DEF QueueExists, Exists, Sentinel, Wake
  <2>4. TypeOK'
    BY <1>0, <1>8, <2>2 DEF Stop, TypeInv, TypeOK, StoreTypeOK, ThreadTypeOK, storeVars, threadVars, Phase, WakeRow
  <2>5. ThreadsExist' /\ StartupExists'
    BY <1>0, <1>8 DEF Stop, ThreadsExist, StartupExists, Exists, storeVars, threadVars
  <2> QED BY <2>3, <2>4, <2>5 DEF TypeInv
<1>9. CASE Stopped
  <2>1. TypeOK'
    BY <1>0, <1>9 DEF Stopped, TypeInv, TypeOK, StoreTypeOK, ThreadTypeOK, storeVars, threadVars, Phase
  <2> QED BY <1>0, <1>9, <2>1
       DEF Stopped, TypeInv, ThreadsExist, QueueExists, StartupExists, Exists, storeVars, threadVars, Sentinel, Wake
<1>10. CASE Crash
  <2>1. ThreadTypeOK'
    BY <1>10, NoOpType DEF Crash, ThreadTypeOK, Pc, WorkerPc
  <2>2. TypeOK'
    BY <1>0, <1>10, <2>1 DEF Crash, TypeInv, TypeOK, StoreTypeOK, storeVars, Phase
  <2>3. ThreadsExist'
    BY <1>10, RunStoreAssumption DEF Crash, ThreadsExist, Resting, NoOp
  <2>4. QueueExists' /\ StartupExists'
    BY <1>10 DEF Crash, QueueExists, StartupExists
  <2> QED BY <2>2, <2>3, <2>4 DEF TypeInv
<1> QED BY <1>1, <1>2, <1>3, <1>4, <1>c, <1>5, <1>6, <1>7, <1>8, <1>9, <1>10 DEF Startup

LEMMA InitType == Init => TypeInv
<1> SUFFICES ASSUME Init PROVE TypeInv
  OBVIOUS
<1>1. StoreTypeOK
  <2>1. job \in [Run -> [Job -> JobStatus]]
    BY DEF Init, JobStatus
  <2> QED BY <2>1, RunStoreAssumption DEF Init, StoreTypeOK, RunStatus, LiveRun
<1>2. ThreadTypeOK
  BY NoOpType DEF Init, ThreadTypeOK, Pc, WorkerPc
<1>3. TypeOK
  BY <1>1, <1>2, RunWorkerAssumption DEF Init, TypeOK, Phase
<1>4. ThreadsExist
  BY RunStoreAssumption DEF Init, ThreadsExist, Resting, NoOp
<1> QED BY <1>3, <1>4 DEF Init, TypeInv, QueueExists, StartupExists

LEMMA StutterType ==
    ASSUME TypeInv, UNCHANGED vars
    PROVE  TypeInv'
<1>1. UNCHANGED <<run, job, items, lock, faults, pc, op, exc, phase, todo, fixing, queue,
                  scheduled, pending, requests, starts, history>>
  BY DEF vars, storeVars, threadVars, memVars
<1> QED BY <1>1 DEF TypeInv, TypeOK, StoreTypeOK, ThreadTypeOK, ThreadsExist, QueueExists,
                    StartupExists, Exists, Sentinel, Wake

LEMMA TypeInductive == TypeInv /\ [Next]_vars => TypeInv'
<1> SUFFICES ASSUME TypeInv, [Next]_vars PROVE TypeInv'
  OBVIOUS
<1>1. ASSUME NEW c \in Client, Request(c) \/ Schedule(c) \/ Put(c) PROVE TypeInv'
  BY <1>1, ClientType
<1>2. ASSUME NEW p \in Proc, NEW ok \in BOOLEAN, SectionStep(p, ok) PROVE TypeInv'
  BY <1>2, SectionType
<1>3. ASSUME NEW ok \in BOOLEAN, WorkerStep(ok) PROVE TypeInv'
  BY <1>3, WorkerType
<1>4. CASE Start \/ Startup \/ Stop \/ Stopped \/ Crash
  BY <1>4, LifecycleType
<1>5. CASE UNCHANGED vars
  BY <1>5, StutterType
<1> QED BY <1>1, <1>2, <1>3, <1>4, <1>5 DEF Next

\* Type correctness of the whole run machinery (run_worker.py, run_control.py,
\* runtime_control.py): in particular no queue item ever gets the status of a
\* run that was not created.
THEOREM TypeCorrect == Spec => []TypeOK
<1>1. TypeInv => TypeOK
  BY DEF TypeInv
<1> QED BY <1>1, InitType, TypeInductive, PTL DEF Spec

----------------------------------------------------------------------------
(* The wake-up tokens.  WakeUpTokens is inductive together with what holds  *)
(* while the process starts: no thread works before the worker thread is    *)
(* started, and no run is scheduled twice by the startup.                   *)

Quiet ==
    /\ phase \in {"down", "recover"} => pc[Worker] = "dead" /\ scheduled = {}
    /\ phase \in {"down", "recover", "schedule"} => \A c \in Client : pc[c] = "idle"
    /\ phase = "schedule" => todo \cap scheduled = {}

TokenInv == TypeInv /\ Quiet /\ WakeUpTokens

\* A step that moves no wake item.
LEMMA TokensStay ==
    ASSUME WakeUpTokens, UNCHANGED <<queue, scheduled, pending>>,
           phase' # "stopped" => phase # "stopped",
           \A r \in Run : Handling(r)' <=> Handling(r),
           \A c \in Client : /\ pc'[c] = "put" <=> pc[c] = "put"
                             /\ pc[c] = "put" => op'[c].run = op[c].run
    PROVE  WakeUpTokens'
<1>1. \A r \in Run : Putting(r)' <=> Putting(r)
  BY DEF Putting
<1>2. \A r \in Run : InQueue(r)' <=> InQueue(r)
  BY DEF InQueue
<1> QED BY <1>1, <1>2 DEF WakeUpTokens

LEMMA SectionTokens ==
    ASSUME TokenInv, NEW p \in Proc, NEW ok \in BOOLEAN, SectionStep(p, ok)
    PROVE  Quiet' /\ WakeUpTokens'
<1>1. Moves(p)
  BY CoordinatorMoves, BodyMoves DEF SectionStep, TokenInv
<1>2. UNCHANGED <<phase, todo, queue, scheduled, pending>>
  BY DEF SectionStep, memVars
<1>3. Worker \in Proc /\ Client \subseteq Proc /\ Worker \notin Client
  BY RunStoreAssumption DEF Proc
<1>4. \A r \in Run : Handling(r)' <=> Handling(r)
  BY <1>1, <1>3 DEF Moves, Handling, SectionPc
<1>5. \A c \in Client : /\ pc'[c] = "put" <=> pc[c] = "put"
                        /\ pc[c] = "put" => op'[c].run = op[c].run
  BY <1>1, <1>3 DEF Moves, SectionPc
<1>6. WakeUpTokens'
  BY <1>2, <1>4, <1>5, TokensStay DEF TokenInv
<1>7. Quiet'
  BY <1>1, <1>2, <1>3 DEF TokenInv, Quiet, Moves, SectionPc, Proc
<1> QED BY <1>6, <1>7

LEMMA WorkerTokens ==
    ASSUME TokenInv, NEW ok \in BOOLEAN, WorkerStep(ok)
    PROVE  Quiet' /\ WakeUpTokens'
<1> DEFINE w == op[Worker].run
<1> DEFINE i == op[Worker].item
<1>0. /\ ThreadTypeOK /\ Worker \in Proc /\ Client \subseteq Proc /\ Worker \notin Client
      /\ TypeInv /\ Quiet /\ WakeUpTokens
      /\ queue \in Seq(WakeRow) /\ DOMAIN queue = 1..Len(queue) /\ Len(queue) \in Nat
      /\ scheduled \subseteq Run /\ pending \in [Run -> Nat]
      /\ pc[Worker] \notin Resting => w \in Run /\ Exists(w) /\ i \in Nat
  <2>1. queue \in Seq(WakeRow)
    BY DEF TokenInv, TypeInv, TypeOK, WakeRow
  <2>2. DOMAIN queue = 1..Len(queue) /\ Len(queue) \in Nat
    BY <2>1, LenProperties
  <2> QED BY <2>1, <2>2, RunStoreAssumption
          DEF TokenInv, TypeInv, TypeOK, Proc, ThreadsExist, ThreadTypeOK
<1>1. /\ phase' = phase /\ todo' = todo /\ scheduled' \subseteq scheduled
      /\ pc[Worker] # "dead"
      /\ \A c \in Client : pc'[c] = pc[c] /\ op'[c] = op[c]
  BY <1>0 DEF WorkerStep, LoopTest, GetWake, ReadWake, RequeueSegment, ReleaseOrphans, Reconcile,
              ConfigurationMissing, Terminalize, PutBack, Settle, Continue, Goto, Begin, memVars,
              ThreadTypeOK
<1>2. Quiet'
  BY <1>0, <1>1 DEF Quiet
<1> SUFFICES WakeUpTokens'
  BY <1>2
<1>p. \A r \in Run : Putting(r)' <=> Putting(r)
  BY <1>1 DEF Putting
<1> HIDE DEF w, i
<1>3. ASSUME UNCHANGED <<queue, scheduled, pending, op>>,
             (pc'[Worker] \in {"dead", "loop", "get"}) <=> (pc[Worker] \in {"dead", "loop", "get"})
      PROVE  WakeUpTokens'
  <2>1. \A r \in Run : Handling(r)' <=> Handling(r)
    BY <1>3 DEF Handling
  <2> QED BY <1>0, <1>1, <1>3, <2>1, TokensStay
<1> USE DEF Continue, Goto, memVars
<1>4. CASE LoopTest
  BY <1>0, <1>3, <1>4 DEF LoopTest, ThreadTypeOK
<1>5. CASE ReadWake(ok)
  <2>1. Branch(op[Worker].run, op[Worker].item) \notin {"dead", "loop", "get"}
    BY DEF Branch
  <2> QED BY <1>0, <1>3, <1>5, <2>1 DEF ReadWake, ThreadTypeOK
<1>6. CASE \/ RequeueSegment(ok) \/ ReleaseOrphans(ok) \/ Reconcile(ok)
           \/ ConfigurationMissing(ok) \/ Terminalize(ok)
  BY <1>0, <1>3, <1>6 DEF RequeueSegment, ReleaseOrphans, Reconcile, ConfigurationMissing,
                          Terminalize, ThreadTypeOK
<1>7. CASE GetWake
  <2>1. /\ queue # << >> /\ queue' = Tail(queue) /\ Len(queue) # 0
        /\ Head(queue) = queue[1]
        /\ UNCHANGED <<scheduled, pending>>
        /\ pc[Worker] = "get"
    BY <1>0, <1>7, EmptySeq DEF GetWake
  <2>2. /\ DOMAIN queue' = 1..(Len(queue) - 1)
        /\ \A k \in 1..(Len(queue) - 1) : queue'[k] = queue[k + 1]
    BY <1>0, <2>1, HeadTailProperties, LenProperties
  <2>3. \A r \in Run : ~Handling(r)
    BY <2>1 DEF Handling
  <2>4. \A r \in Run : Handling(r)' <=> queue[1].run = r
    <3>1. CASE Head(queue) = Sentinel
      <4>1. pc'[Worker] = "dead"
        BY <1>0, <1>7, <3>1 DEF GetWake, Continue, Goto, ThreadTypeOK
      <4>2. queue[1].run = NoRun
        BY <2>1, <3>1 DEF Sentinel, Wake
      <4> QED BY <4>1, <4>2, RunStoreAssumption DEF Handling
    <3>2. CASE Head(queue) # Sentinel
      <4>1. pc'[Worker] = "wake" /\ op'[Worker].run = queue[1].run
        BY <1>0, <1>7, <2>1, <3>2 DEF GetWake, Begin, Goto, ThreadTypeOK
      <4> QED BY <4>1 DEF Handling
    <3> QED BY <3>1, <3>2
  <2>5. \A r \in Run : InQueue(r) <=> InQueue(r)' \/ queue[1].run = r
    <3>1. \A k \in 1..Len(queue) : k = 1 \/ (k - 1 \in 1..(Len(queue) - 1) /\ queue'[k - 1] = queue[k])
      BY <1>0, <2>2
    <3>2. 1 \in 1..Len(queue) /\ \A k \in 1..(Len(queue) - 1) : k + 1 \in 1..Len(queue)
      BY <1>0, <2>1
    <3>3. \A r \in Run : /\ InQueue(r) <=> \E k \in 1..Len(queue) : queue[k].run = r
                         /\ InQueue(r)' <=> \E k \in 1..(Len(queue) - 1) : queue'[k].run = r
      BY <1>0, <2>2 DEF InQueue
    <3> QED BY <2>2, <3>1, <3>2, <3>3
  <2>6. CASE phase = "stopped"
    BY <1>1, <2>6 DEF WakeUpTokens
  <2>7. CASE phase # "stopped"
    <3>1. \A k, m \in 1..Len(queue) : queue[k].run = queue[m].run /\ queue[k].run # NoRun => k = m
      BY <1>0, <2>7 DEF WakeUpTokens
    <3>2. \A k, m \in 1..(Len(queue) - 1) :
             queue'[k].run = queue'[m].run /\ queue'[k].run # NoRun => k = m
      BY <1>0, <2>1, <2>2, <3>1
    <3>3. \A r \in Run : queue[1].run = r => ~InQueue(r)'
      <4> SUFFICES ASSUME NEW k \in 1..(Len(queue) - 1), queue[1].run \in Run,
                          queue'[k].run = queue[1].run
                   PROVE  FALSE
        BY <2>2 DEF InQueue
      <4> QED BY <1>0, <2>1, <2>2, <3>1, RunStoreAssumption
    <3>4. ASSUME NEW r \in Run
          PROVE  /\ r \in scheduled' <=> InQueue(r)' \/ Handling(r)' \/ Putting(r)'
                 /\ InQueue(r)' => ~Handling(r)' /\ ~Putting(r)'
                 /\ Handling(r)' => ~Putting(r)'
                 /\ pending'[r] # 0 => r \in scheduled'
      BY <1>0, <1>p, <2>1, <2>3, <2>4, <2>5, <2>7, <3>3 DEF WakeUpTokens
    <3>5. \A c, d \in Client :
             pc'[c] = "put" /\ pc'[d] = "put" /\ op'[c].run = op'[d].run => c = d
      BY <1>0, <1>1, <2>7 DEF WakeUpTokens
    <3> QED BY <2>2, <3>2, <3>4, <3>5 DEF WakeUpTokens
  <2> QED BY <2>6, <2>7
\* An item of the run at hand is put back in the queue.
<1>8. ASSUME NEW x \in Nat, queue' = Append(queue, Wake(x, w)), scheduled' = scheduled,
             \A r \in Run : pending'[r] # 0 => pending[r] # 0,
             pc[Worker] \notin Resting, pc'[Worker] = "loop"
      PROVE  WakeUpTokens'
  <2>1. w \in Run /\ Exists(w)
    BY <1>0, <1>8
  <2>2. /\ DOMAIN queue' = 1..(Len(queue) + 1)
        /\ \A k \in 1..Len(queue) : queue'[k] = queue[k]
        /\ queue'[Len(queue) + 1].run = w
    <3>1. Wake(x, w).run = w
      BY DEF Wake
    <3> QED BY <1>0, <1>8, <2>1, <3>1, AppendWake
  <2>3. \A r \in Run : InQueue(r)' <=> InQueue(r) \/ r = w
    <3>1. \A r \in Run : /\ InQueue(r) <=> \E k \in 1..Len(queue) : queue[k].run = r
                         /\ InQueue(r)' <=> \E k \in 1..(Len(queue) + 1) : queue'[k].run = r
      BY <1>0, <2>2 DEF InQueue
    <3>2. \A k \in 1..(Len(queue) + 1) : k \in 1..Len(queue) \/ k = Len(queue) + 1
      BY <1>0
    <3>3. Len(queue) + 1 \in 1..(Len(queue) + 1) /\ \A k \in 1..Len(queue) : k \in 1..(Len(queue) + 1)
      BY <1>0
    <3> QED BY <2>2, <3>1, <3>2, <3>3
  <2>4. \A r \in Run : (Handling(r) <=> r = w) /\ ~Handling(r)'
    BY <1>8 DEF Handling, Resting, w
  <2>5. CASE phase = "stopped"
    BY <1>1, <2>5 DEF WakeUpTokens
  <2>6. CASE phase # "stopped"
    <3>1. ASSUME NEW r \in Run
          PROVE  /\ r \in scheduled' <=> InQueue(r)' \/ Handling(r)' \/ Putting(r)'
                 /\ InQueue(r)' => ~Handling(r)' /\ ~Putting(r)'
                 /\ Handling(r)' => ~Putting(r)'
                 /\ pending'[r] # 0 => r \in scheduled'
      BY <1>0, <1>8, <1>p, <2>3, <2>4, <2>6 DEF WakeUpTokens
    <3>2. \A k \in 1..Len(queue) : queue[k].run # w
      BY <1>0, <2>1, <2>4, <2>6 DEF WakeUpTokens, InQueue
    <3>3. \A k, m \in 1..(Len(queue) + 1) :
             queue'[k].run = queue'[m].run /\ queue'[k].run # NoRun => k = m
      <4>1. \A k, m \in 1..Len(queue) : queue[k].run = queue[m].run /\ queue[k].run # NoRun => k = m
        BY <1>0, <2>6 DEF WakeUpTokens
      <4> QED BY <1>0, <2>2, <3>2, <4>1
    <3>4. \A c, d \in Client :
             pc'[c] = "put" /\ pc'[d] = "put" /\ op'[c].run = op'[d].run => c = d
      BY <1>0, <1>1, <2>6 DEF WakeUpTokens
    <3> QED BY <2>2, <3>1, <3>3, <3>4 DEF WakeUpTokens
  <2> QED BY <2>5, <2>6
<1>9. CASE PutBack
  <2>1. CASE phase = "stopping"
    BY <1>0, <1>3, <1>9, <2>1 DEF PutBack, ThreadTypeOK
  <2>2. CASE phase # "stopping"
    <3>1. queue' = Append(queue, Wake(i, w)) /\ pc[Worker] = "reput"
      BY <1>9, <2>2 DEF PutBack, i, w
    <3>2. i \in Nat /\ pc'[Worker] = "loop" /\ UNCHANGED <<scheduled, pending>>
      BY <1>0, <1>9, <2>2 DEF PutBack, ThreadTypeOK, Resting
    <3> QED BY <1>8, <3>1, <3>2 DEF Resting
  <2> QED BY <2>1, <2>2
<1>10. CASE Settle
  <2>0. w \in Run /\ pending[w] \in Nat /\ pc[Worker] = "settle" /\ pc'[Worker] = "loop"
    BY <1>0, <1>10 DEF Settle, ThreadTypeOK, Resting
  <2>1. CASE pending[w] # 0
    <3>1. queue' = Append(queue, Wake(pending[w], w)) /\ scheduled' = scheduled
      BY <1>10, <2>1 DEF Settle, w
    <3>2. \A r \in Run : pending'[r] # 0 => pending[r] # 0
      BY <1>0, <1>10, <2>1 DEF Settle, w
    <3> QED BY <1>8, <2>0, <3>1, <3>2 DEF Resting
  <2>2. CASE pending[w] = 0
    <3>1. queue' = queue /\ pending' = pending /\ scheduled' = scheduled \ {w}
      BY <1>10, <2>2 DEF Settle, w
    <3>2. \A r \in Run : (Handling(r) <=> r = w) /\ ~Handling(r)'
      BY <2>0 DEF Handling, w
    <3>3. \A r \in Run : InQueue(r)' <=> InQueue(r)
      BY <3>1 DEF InQueue
    <3>4. CASE phase = "stopped"
      BY <1>1, <3>4 DEF WakeUpTokens
    <3>5. CASE phase # "stopped"
      <4>1. ASSUME NEW r \in Run
            PROVE  /\ r \in scheduled' <=> InQueue(r)' \/ Handling(r)' \/ Putting(r)'
                   /\ InQueue(r)' => ~Handling(r)' /\ ~Putting(r)'
                   /\ Handling(r)' => ~Putting(r)'
                   /\ pending'[r] # 0 => r \in scheduled'
        BY <1>0, <1>p, <2>2, <3>1, <3>2, <3>3, <3>5 DEF WakeUpTokens
      <4>2. \A c, d \in Client :
               pc'[c] = "put" /\ pc'[d] = "put" /\ op'[c].run = op'[d].run => c = d
        BY <1>0, <1>1, <3>5 DEF WakeUpTokens
      <4> QED BY <1>0, <3>1, <3>5, <4>1, <4>2 DEF WakeUpTokens
    <3> QED BY <3>4, <3>5
  <2> QED BY <2>1, <2>2
<1> QED BY <1>4, <1>5, <1>6, <1>7, <1>9, <1>10 DEF WorkerStep

LEMMA ClientTokens ==
    ASSUME TokenInv, NEW c \in Client, Request(c) \/ Schedule(c) \/ Put(c)
    PROVE  Quiet' /\ WakeUpTokens'
<1>0. /\ ThreadTypeOK /\ c \in Proc /\ Client \subseteq Proc /\ c # Worker /\ Worker \in Proc
      /\ TypeInv /\ Quiet /\ WakeUpTokens
      /\ queue \in Seq(WakeRow) /\ DOMAIN queue = 1..Len(queue) /\ Len(queue) \in Nat
      /\ scheduled \subseteq Run /\ pending \in [Run -> Nat]
      /\ pc[c] \notin Resting => op[c].run \in Run /\ Exists(op[c].run) /\ op[c].item \in Nat
  <2>1. queue \in Seq(WakeRow)
    BY DEF TokenInv, TypeInv, TypeOK, WakeRow
  <2>2. DOMAIN queue = 1..Len(queue) /\ Len(queue) \in Nat
    BY <2>1, LenProperties
  <2> QED BY <2>1, <2>2, RunStoreAssumption
          DEF TokenInv, TypeInv, TypeOK, Proc, ThreadsExist, ThreadTypeOK
<1>1. ASSUME NEW kind, NEW r, NEW j, NEW i, NEW l, Begin(c, kind, r, j, i, l), l # "put",
             pc[c] = "idle", phase = "serving", UNCHANGED memVars
      PROVE  Quiet' /\ WakeUpTokens'
  <2>1. \A q \in Proc : q # c => pc'[q] = pc[q] /\ op'[q] = op[q]
    BY <1>0, <1>1 DEF Begin, Goto, ThreadTypeOK
  <2>2. pc'[c] = l
    BY <1>0, <1>1 DEF Begin, Goto, ThreadTypeOK
  <2>3. \A r1 \in Run : Handling(r1)' <=> Handling(r1)
    BY <1>0, <2>1 DEF Handling
  <2>4. WakeUpTokens'
    BY <1>0, <1>1, <2>1, <2>2, <2>3, TokensStay DEF memVars
  <2> QED BY <1>1, <2>4 DEF Quiet, memVars
<1>2. CASE Request(c)
  <2>1. ASSUME NEW r \in Run, NEW bg \in BOOLEAN, StartRun(c, r, bg) PROVE Quiet' /\ WakeUpTokens'
    BY <1>1, <2>1 DEF StartRun, Admitted
  <2>2. ASSUME NEW r \in Run, NEW j \in Job, NEW kind \in {"approve", "reject", "cancel"},
               JobRequest(c, kind, r, j)
        PROVE Quiet' /\ WakeUpTokens'
    BY <1>1, <2>2 DEF JobRequest, Admitted
  <2>3. ASSUME NEW r \in Run, NEW j \in Job, BackgroundApproval(c, r, j)
        PROVE Quiet' /\ WakeUpTokens'
    BY <1>1, <2>3 DEF BackgroundApproval, Admitted
  <2> QED BY <1>2, <2>1, <2>2, <2>3 DEF Request
<1>a. ASSUME phase' = phase, pc[c] \notin {"idle"} PROVE Quiet'
  BY <1>0, <1>a DEF Quiet
<1>3. CASE Schedule(c)
  <2> DEFINE r == op[c].run
  <2>0. /\ r \in Run /\ phase' = phase /\ queue' = queue /\ pc[c] = "schedule"
    BY <1>0, <1>3 DEF Schedule, Resting
  <2>1. \A q \in Proc : q # c => pc'[q] = pc[q] /\ op'[q] = op[q]
    BY <1>0, <1>3 DEF Schedule, Leave, Continue, Goto, ThreadTypeOK
  <2>2. \A x \in Run : (Handling(x)' <=> Handling(x)) /\ (InQueue(x)' <=> InQueue(x))
    BY <1>0, <2>0, <2>1 DEF Handling, InQueue
  <2>3. CASE phase = "stopped"
    BY <1>a, <2>0, <2>3 DEF WakeUpTokens
  <2>4. CASE phase # "stopped" /\ r \in scheduled
    <3>1. pc'[c] = "idle" /\ scheduled' = scheduled /\ \A x \in Run : x # r => pending'[x] = pending[x]
      BY <1>0, <1>3, <2>4 DEF Schedule, Leave, ThreadTypeOK
    <3>2. \A x \in Run : Putting(x)' <=> Putting(x)
      BY <1>0, <2>0, <2>1, <3>1 DEF Putting
    <3>3. ASSUME NEW x \in Run
          PROVE  /\ x \in scheduled' <=> InQueue(x)' \/ Handling(x)' \/ Putting(x)'
                 /\ InQueue(x)' => ~Handling(x)' /\ ~Putting(x)'
                 /\ Handling(x)' => ~Putting(x)'
                 /\ pending'[x] # 0 => x \in scheduled'
      BY <1>0, <2>2, <2>4, <3>1, <3>2 DEF WakeUpTokens
    <3>4. \A d, e \in Client :
             pc'[d] = "put" /\ pc'[e] = "put" /\ op'[d].run = op'[e].run => d = e
      BY <1>0, <2>1, <2>4, <3>1 DEF WakeUpTokens
    <3> QED BY <1>0, <1>a, <2>0, <2>4, <3>3, <3>4 DEF WakeUpTokens
  <2>5. CASE phase # "stopped" /\ r \notin scheduled
    <3>1. pc'[c] = "put" /\ op' = op /\ scheduled' = scheduled \cup {r} /\ pending' = pending
      BY <1>0, <1>3, <2>5 DEF Schedule, Continue, Goto, ThreadTypeOK
    <3>2. \A x \in Run : Putting(x)' <=> Putting(x) \/ x = r
      BY <1>0, <2>0, <2>1, <3>1 DEF Putting
    <3>3. ASSUME NEW x \in Run
          PROVE  /\ x \in scheduled' <=> InQueue(x)' \/ Handling(x)' \/ Putting(x)'
                 /\ InQueue(x)' => ~Handling(x)' /\ ~Putting(x)'
                 /\ Handling(x)' => ~Putting(x)'
                 /\ pending'[x] # 0 => x \in scheduled'
      BY <1>0, <2>2, <2>5, <3>1, <3>2 DEF WakeUpTokens
    <3>4. \A d \in Client : pc[d] = "put" => op[d].run # r
      BY <1>0, <2>0, <2>5 DEF WakeUpTokens, Putting
    <3>5. \A d, e \in Client :
             pc'[d] = "put" /\ pc'[e] = "put" /\ op'[d].run = op'[e].run => d = e
      BY <1>0, <2>1, <2>5, <3>1, <3>4 DEF WakeUpTokens
    <3> QED BY <1>0, <1>a, <2>0, <2>5, <3>3, <3>5 DEF WakeUpTokens
  <2> QED BY <2>3, <2>4, <2>5
<1>4. CASE Put(c)
  <2> DEFINE r == op[c].run
  <2>0. /\ r \in Run /\ Exists(r) /\ op[c].item \in Nat /\ phase' = phase /\ pc[c] = "put"
        /\ queue' = Append(queue, Wake(op[c].item, r))
        /\ scheduled' = scheduled /\ pending' = pending /\ pc'[c] = "idle"
    BY <1>0, <1>4 DEF Put, Resting, Leave, ThreadTypeOK
  <2>1. \A q \in Proc : q # c => pc'[q] = pc[q] /\ op'[q] = op[q]
    BY <1>0, <1>4 DEF Put, Leave, ThreadTypeOK
  <2>2. /\ DOMAIN queue' = 1..(Len(queue) + 1)
        /\ \A k \in 1..Len(queue) : queue'[k] = queue[k]
        /\ queue'[Len(queue) + 1].run = r
    <3>1. Wake(op[c].item, r).run = r
      BY DEF Wake
    <3> HIDE DEF r
    <3> QED BY <1>0, <2>0, <3>1, AppendWake
  <2> HIDE DEF r
  <2>3. \A x \in Run : InQueue(x)' <=> InQueue(x) \/ x = r
    <3>1. \A x \in Run : /\ InQueue(x) <=> \E k \in 1..Len(queue) : queue[k].run = x
                         /\ InQueue(x)' <=> \E k \in 1..(Len(queue) + 1) : queue'[k].run = x
      BY <1>0, <2>2 DEF InQueue
    <3>2. \A k \in 1..(Len(queue) + 1) : k \in 1..Len(queue) \/ k = Len(queue) + 1
      BY <1>0
    <3>3. Len(queue) + 1 \in 1..(Len(queue) + 1) /\ \A k \in 1..Len(queue) : k \in 1..(Len(queue) + 1)
      BY <1>0
    <3> QED BY <2>2, <3>1, <3>2, <3>3
  <2>4. \A x \in Run : Handling(x)' <=> Handling(x)
    BY <1>0, <2>1 DEF Handling
  <2>5. CASE phase = "stopped"
    BY <1>a, <2>0, <2>5 DEF WakeUpTokens
  <2>6. CASE phase # "stopped"
    <3>1. Putting(r) /\ \A d \in Client : d # c /\ pc[d] = "put" => op[d].run # r
      BY <1>0, <2>0, <2>6 DEF Putting, WakeUpTokens, r
    <3>2. \A x \in Run : (Putting(x)' <=> Putting(x) /\ x # r)
      BY <1>0, <2>0, <2>1, <3>1 DEF Putting, r
    <3>3. ASSUME NEW x \in Run
          PROVE  /\ x \in scheduled' <=> InQueue(x)' \/ Handling(x)' \/ Putting(x)'
                 /\ InQueue(x)' => ~Handling(x)' /\ ~Putting(x)'
                 /\ Handling(x)' => ~Putting(x)'
                 /\ pending'[x] # 0 => x \in scheduled'
      BY <1>0, <2>0, <2>3, <2>4, <2>6, <3>1, <3>2 DEF WakeUpTokens
    <3>4. \A k \in 1..Len(queue) : queue[k].run # r
      BY <1>0, <2>0, <2>6, <3>1 DEF WakeUpTokens, InQueue
    <3>5. \A k, m \in 1..(Len(queue) + 1) :
             queue'[k].run = queue'[m].run /\ queue'[k].run # NoRun => k = m
      <4>1. \A k, m \in 1..Len(queue) : queue[k].run = queue[m].run /\ queue[k].run # NoRun => k = m
        BY <1>0, <2>6 DEF WakeUpTokens
      <4> QED BY <1>0, <2>2, <3>4, <4>1
    <3>6. \A d, e \in Client :
             pc'[d] = "put" /\ pc'[e] = "put" /\ op'[d].run = op'[e].run => d = e
      BY <1>0, <2>0, <2>1, <2>6 DEF WakeUpTokens
    <3> QED BY <1>a, <2>0, <2>2, <3>3, <3>5, <3>6 DEF WakeUpTokens
  <2> QED BY <2>5, <2>6
<1> QED BY <1>2, <1>3, <1>4

LEMMA LifecycleTokens ==
    ASSUME TokenInv, Start \/ Startup \/ Stop \/ Stopped \/ Crash
    PROVE  Quiet' /\ WakeUpTokens'
<1>0. /\ ThreadTypeOK /\ Client \subseteq Proc /\ Worker \in Proc /\ Worker \notin Client
      /\ TypeInv /\ Quiet /\ WakeUpTokens
      /\ queue \in Seq(WakeRow) /\ DOMAIN queue = 1..Len(queue) /\ Len(queue) \in Nat
      /\ scheduled \subseteq Run
  <2>1. queue \in Seq(WakeRow)
    BY DEF TokenInv, TypeInv, TypeOK, WakeRow
  <2>2. DOMAIN queue = 1..Len(queue) /\ Len(queue) \in Nat
    BY <2>1, LenProperties
  <2> QED BY <2>1, <2>2, RunStoreAssumption
          DEF TokenInv, TypeInv, TypeOK, Proc, ThreadTypeOK
<1>a. ASSUME UNCHANGED <<threadVars, queue, scheduled, pending>>,
             phase' # "stopped" => phase # "stopped"
      PROVE  WakeUpTokens'
  <2>1. pc' = pc /\ op' = op
    BY <1>a DEF threadVars
  <2>2. \A r \in Run : Handling(r)' <=> Handling(r)
    BY <2>1 DEF Handling
  <2> QED BY <1>0, <1>a, <2>1, <2>2, TokensStay
<1>1. CASE Start
  BY <1>0, <1>1, <1>a DEF Start, Quiet, threadVars
<1>2. ASSUME NEW r \in Run, ReleaseLocks(r) PROVE Quiet' /\ WakeUpTokens'
  BY <1>0, <1>2, <1>a DEF ReleaseLocks, Quiet, threadVars
<1>3. ASSUME NEW i \in DOMAIN items, RecoverItem(i) PROVE Quiet' /\ WakeUpTokens'
  BY <1>0, <1>3, <1>a DEF RecoverItem, Quiet, threadVars, memVars
<1>4. CASE RecoverRun
  <2>1. UNCHANGED <<threadVars, phase, todo, queue, scheduled, pending>> /\ phase = "recover"
    BY <1>4 DEF RecoverRun
  <2> QED BY <1>0, <1>a, <2>1 DEF Quiet, threadVars
<1>c. CASE RecoverJobs
  BY <1>0, <1>a, <1>c DEF RecoverJobs, Quiet, threadVars, memVars
<1>5. CASE StartThread
  <2>1. /\ pc[Worker] = "dead" /\ scheduled = {} /\ \A c \in Client : pc[c] = "idle"
        /\ phase = "recover"
    BY <1>0, <1>5 DEF StartThread, Quiet
  <2>2. /\ pc'[Worker] = "loop" /\ \A c \in Client : pc'[c] = pc[c]
        /\ UNCHANGED <<op, queue, scheduled, pending>> /\ phase' = "schedule"
    BY <1>0, <1>5 DEF StartThread, Continue, Goto, ThreadTypeOK
  <2>3. \A r \in Run : Handling(r)' <=> Handling(r)
    BY <2>1, <2>2 DEF Handling
  <2>4. WakeUpTokens'
    BY <1>0, <2>1, <2>2, <2>3, TokensStay
  <2> QED BY <2>1, <2>2, <2>4 DEF Quiet
<1>6. ASSUME NEW r \in Run, ScheduleRecovered(r) PROVE Quiet' /\ WakeUpTokens'
  <2> DEFINE Q == BackgroundItems(r, {"queued"})
  <2> DEFINE i == IF Q = {} THEN Len(items) + 1 ELSE Latest(Q)
  <2>0. /\ phase = "schedule" /\ r \in todo /\ todo' = todo \ {r} /\ phase' = phase
        /\ queue' = Append(queue, Wake(i, r)) /\ scheduled' = scheduled \cup {r}
        /\ pending' = pending /\ pc' = pc /\ op' = op
    BY <1>6 DEF ScheduleRecovered, threadVars
  <2> HIDE DEF i, Q
  <2>1. r \notin scheduled /\ \A c \in Client : pc[c] = "idle"
    BY <1>0, <2>0 DEF Quiet
  <2>2. queue' \in Seq(WakeRow)
    BY <1>6, LifecycleType DEF TokenInv, TypeInv, TypeOK, WakeRow, Startup
  <2>3. /\ DOMAIN queue' = 1..(Len(queue) + 1)
        /\ \A k \in 1..Len(queue) : queue'[k] = queue[k]
        /\ queue'[Len(queue) + 1].run = r
    <3>1. Wake(i, r).run = r
      BY DEF Wake
    <3> QED BY <1>0, <2>0, <3>1
  <2>4. \A x \in Run : InQueue(x)' <=> InQueue(x) \/ x = r
    <3>1. \A x \in Run : /\ InQueue(x) <=> \E k \in 1..Len(queue) : queue[k].run = x
                         /\ InQueue(x)' <=> \E k \in 1..(Len(queue) + 1) : queue'[k].run = x
      BY <1>0, <2>3 DEF InQueue
    <3>2. \A k \in 1..(Len(queue) + 1) : k \in 1..Len(queue) \/ k = Len(queue) + 1
      BY <1>0
    <3>3. Len(queue) + 1 \in 1..(Len(queue) + 1) /\ \A k \in 1..Len(queue) : k \in 1..(Len(queue) + 1)
      BY <1>0
    <3> QED BY <2>3, <3>1, <3>2, <3>3
  <2>5. \A x \in Run : (Handling(x)' <=> Handling(x)) /\ ~Putting(x) /\ ~Putting(x)'
    BY <2>0, <2>1 DEF Handling, Putting
  <2>6. ASSUME NEW x \in Run
        PROVE  /\ x \in scheduled' <=> InQueue(x)' \/ Handling(x)' \/ Putting(x)'
               /\ InQueue(x)' => ~Handling(x)' /\ ~Putting(x)'
               /\ Handling(x)' => ~Putting(x)'
               /\ pending'[x] # 0 => x \in scheduled'
    BY <1>0, <2>0, <2>1, <2>4, <2>5 DEF WakeUpTokens
  <2>7. \A k, m \in 1..(Len(queue) + 1) :
           queue'[k].run = queue'[m].run /\ queue'[k].run # NoRun => k = m
    <3>1. \A k, m \in 1..Len(queue) : queue[k].run = queue[m].run /\ queue[k].run # NoRun => k = m
      BY <1>0, <2>0 DEF WakeUpTokens
    <3>2. \A k \in 1..Len(queue) : queue[k].run # r
      BY <1>0, <2>0, <2>1 DEF WakeUpTokens, InQueue
    <3> QED BY <1>0, <2>3, <3>1, <3>2
  <2>8. WakeUpTokens'
    BY <2>0, <2>1, <2>3, <2>6, <2>7 DEF WakeUpTokens
  <2> QED BY <1>0, <2>0, <2>1, <2>8 DEF Quiet
<1>7. CASE Accept
  BY <1>0, <1>7, <1>a DEF Accept, Quiet, threadVars
<1>8. CASE Stop
  <2>0. /\ queue' = Append(queue, Sentinel) /\ scheduled' = scheduled /\ pending' = pending
        /\ pc' = pc /\ op' = op /\ phase = "serving" /\ phase' = "stopping"
    BY <1>8 DEF Stop, threadVars
  <2>1. /\ DOMAIN queue' = 1..(Len(queue) + 1)
        /\ \A k \in 1..Len(queue) : queue'[k] = queue[k]
        /\ queue'[Len(queue) + 1].run = NoRun
    <3>1. Sentinel.run = NoRun
      BY DEF Sentinel, Wake
    <3>2. Sentinel \in WakeRow
      BY DEF Sentinel, Wake, WakeRow
    <3> HIDE DEF Sentinel, WakeRow
    <3> QED BY <1>0, <2>0, <3>1, <3>2
  <2>2. \A x \in Run : InQueue(x)' <=> InQueue(x)
    <3>1. \A x \in Run : /\ InQueue(x) <=> \E k \in 1..Len(queue) : queue[k].run = x
                         /\ InQueue(x)' <=> \E k \in 1..(Len(queue) + 1) : queue'[k].run = x
      BY <1>0, <2>1 DEF InQueue
    <3>2. \A k \in 1..(Len(queue) + 1) : k \in 1..Len(queue) \/ k = Len(queue) + 1
      BY <1>0
    <3>3. \A k \in 1..Len(queue) : k \in 1..(Len(queue) + 1)
      BY <1>0
    <3> QED BY <2>1, <3>1, <3>2, <3>3, RunStoreAssumption
  <2>3. \A x \in Run : (Handling(x)' <=> Handling(x)) /\ (Putting(x)' <=> Putting(x))
    BY <2>0 DEF Handling, Putting
  <2>4. \A k, m \in 1..(Len(queue) + 1) :
           queue'[k].run = queue'[m].run /\ queue'[k].run # NoRun => k = m
    <3>1. \A k, m \in 1..Len(queue) : queue[k].run = queue[m].run /\ queue[k].run # NoRun => k = m
      BY <1>0, <2>0 DEF WakeUpTokens
    <3> QED BY <1>0, <2>1, <3>1
  <2>5. ASSUME NEW x \in Run
        PROVE  /\ x \in scheduled' <=> InQueue(x)' \/ Handling(x)' \/ Putting(x)'
               /\ InQueue(x)' => ~Handling(x)' /\ ~Putting(x)'
               /\ Handling(x)' => ~Putting(x)'
               /\ pending'[x] # 0 => x \in scheduled'
    BY <1>0, <2>0, <2>2, <2>3 DEF WakeUpTokens
  <2>6. \A d, e \in Client :
           pc'[d] = "put" /\ pc'[e] = "put" /\ op'[d].run = op'[e].run => d = e
    BY <1>0, <2>0 DEF WakeUpTokens
  <2> QED BY <2>0, <2>1, <2>4, <2>5, <2>6 DEF WakeUpTokens, Quiet
<1>9. CASE Stopped
  BY <1>9 DEF Stopped, WakeUpTokens, Quiet
<1>10. CASE Crash
  <2>1. /\ phase' = "down" /\ queue' = << >> /\ scheduled' = {} /\ \A r \in Run : pending'[r] = 0
        /\ pc'[Worker] = "dead" /\ \A c \in Client : pc'[c] = "idle"
    BY <1>0, <1>10 DEF Crash
  <2>2. \A r \in Run : ~InQueue(r)' /\ ~Handling(r)' /\ ~Putting(r)'
    BY <2>1 DEF InQueue, Handling, Putting
  <2> QED BY <2>1, <2>2 DEF WakeUpTokens, Quiet
<1> QED BY <1>1, <1>2, <1>3, <1>4, <1>c, <1>5, <1>6, <1>7, <1>8, <1>9, <1>10 DEF Startup

LEMMA InitTokens == Init => Quiet /\ WakeUpTokens
<1> SUFFICES ASSUME Init PROVE Quiet /\ WakeUpTokens
  OBVIOUS
<1>1. /\ queue = << >> /\ scheduled = {} /\ phase = "down" /\ \A r \in Run : pending[r] = 0
      /\ pc[Worker] = "dead" /\ \A c \in Client : pc[c] = "idle"
  BY RunStoreAssumption DEF Init, Proc
<1>2. \A r \in Run : ~InQueue(r) /\ ~Handling(r) /\ ~Putting(r)
  BY <1>1 DEF InQueue, Handling, Putting
<1> QED BY <1>1, <1>2 DEF WakeUpTokens, Quiet

LEMMA StutterTokens ==
    ASSUME TokenInv, UNCHANGED vars
    PROVE  Quiet' /\ WakeUpTokens'
<1>1. UNCHANGED <<pc, op, phase, todo, queue, scheduled, pending>>
  BY DEF vars, threadVars, memVars
<1>2. \A r \in Run : Handling(r)' <=> Handling(r)
  BY <1>1 DEF Handling
<1> QED BY <1>1, <1>2, TokensStay DEF TokenInv, Quiet

LEMMA TokensInductive == TokenInv /\ [Next]_vars => TokenInv'
<1> SUFFICES ASSUME TokenInv, [Next]_vars PROVE TokenInv'
  OBVIOUS
<1>0. TypeInv'
  BY TypeInductive DEF TokenInv
<1>1. ASSUME NEW c \in Client, Request(c) \/ Schedule(c) \/ Put(c) PROVE Quiet' /\ WakeUpTokens'
  BY <1>1, ClientTokens
<1>2. ASSUME NEW p \in Proc, NEW ok \in BOOLEAN, SectionStep(p, ok) PROVE Quiet' /\ WakeUpTokens'
  BY <1>2, SectionTokens
<1>3. ASSUME NEW ok \in BOOLEAN, WorkerStep(ok) PROVE Quiet' /\ WakeUpTokens'
  BY <1>3, WorkerTokens
<1>4. CASE Start \/ Startup \/ Stop \/ Stopped \/ Crash
  BY <1>0, <1>4, LifecycleTokens DEF TokenInv
<1>5. CASE UNCHANGED vars
  BY <1>0, <1>5, StutterTokens DEF TokenInv
<1> QED BY <1>0, <1>1, <1>2, <1>3, <1>4, <1>5 DEF Next, TokenInv

\* The wake-up bookkeeping of BackgroundRunWorker never loses or duplicates a
\* token: _scheduled, _pending_schedules and the queue stay in agreement under
\* any interleaving, storage failure, restart and crash.
THEOREM WakeUpTokensCorrect == Spec => []WakeUpTokens
<1>1. Init => TokenInv
  BY InitType, InitTokens DEF TokenInv
<1>2. TokenInv => WakeUpTokens
  BY DEF TokenInv
<1> QED BY <1>1, <1>2, TokensInductive, PTL DEF Spec

----------------------------------------------------------------------------
(* Startup recovery.  At every point of it the runs already visited are     *)
(* recovered, and the run being recovered holds no lock.                    *)

RecoveryInv ==
    IF phase = "recover"
    THEN /\ \A r \in Run : run[r] # "absent" /\ r \notin todo /\ r # fixing => Recovered(r)
         /\ fixing # NoRun => lock[fixing] = NoProc
    ELSE fixing = NoRun

\* Requests and threads take no step while the process recovers.
LEMMA QuietRecovery ==
    ASSUME TokenInv, phase = "recover"
    PROVE  /\ \A c \in Client : ~(Request(c) \/ Schedule(c) \/ Put(c))
           /\ \A p \in Proc, ok \in BOOLEAN : ~SectionStep(p, ok)
           /\ \A ok \in BOOLEAN : ~WorkerStep(ok)
<1>1. pc[Worker] = "dead" /\ \A c \in Client : pc[c] = "idle"
  BY DEF TokenInv, Quiet
<1>2. \A c \in Client : ~Request(c)
  BY DEF Request, StartRun, JobRequest, BackgroundApproval
<1>3. \A c \in Client : ~Schedule(c) /\ ~Put(c)
  BY <1>1 DEF Schedule, Put
<1>4. \A p \in Proc, ok \in BOOLEAN : ~SectionStep(p, ok)
  <2>1. \A p \in Proc : pc[p] \in {"idle", "dead"}
    BY <1>1 DEF Proc
  <2>2. \A p \in Proc, ok \in BOOLEAN : CoordinatorStep(p, ok) \/ BodyStep(p, ok) => Moves(p)
    BY CoordinatorMoves, BodyMoves DEF TokenInv
  <2> QED BY <2>1, <2>2 DEF SectionStep, Moves, SectionPc
<1>5. \A ok \in BOOLEAN : ~WorkerStep(ok)
  BY <1>1 DEF WorkerStep, LoopTest, GetWake, ReadWake, RequeueSegment, ReleaseOrphans, Reconcile,
              ConfigurationMissing, Terminalize, PutBack, Settle
<1> QED BY <1>2, <1>3, <1>4, <1>5

LEMMA RecoveryInductive == TokenInv /\ RecoveryInv /\ [Next]_vars => RecoveryInv'
<1> SUFFICES ASSUME TokenInv, RecoveryInv, [Next]_vars PROVE RecoveryInv'
  OBVIOUS
<1>0. /\ StoreTypeOK /\ items \in Seq(ItemRow) /\ DOMAIN items = 1..Len(items)
      /\ NoRun \notin Run /\ todo \subseteq Run /\ fixing \in Run \cup {NoRun}
      /\ fixing # NoRun => Exists(fixing)
  <2>1. items \in Seq(ItemRow)
    BY DEF TokenInv, TypeInv, TypeOK, StoreTypeOK, ItemRow
  <2> QED BY <2>1, LenProperties, RunStoreAssumption DEF TokenInv, TypeInv, TypeOK, StartupExists
\* A thread's step: the process is not recovering and does not begin to.
<1>a. ASSUME phase # "recover", UNCHANGED <<phase, fixing>> PROVE RecoveryInv'
  BY <1>a DEF RecoveryInv
<1>1. ASSUME NEW c \in Client, Request(c) \/ Schedule(c) \/ Put(c) PROVE RecoveryInv'
  <2>1. UNCHANGED <<phase, fixing>>
    BY <1>1 DEF Request, StartRun, JobRequest, BackgroundApproval, Schedule, Put, memVars
  <2> QED BY <1>1, <1>a, <2>1, QuietRecovery
<1>2. ASSUME NEW p \in Proc, NEW ok \in BOOLEAN, SectionStep(p, ok) PROVE RecoveryInv'
  <2>1. UNCHANGED <<phase, fixing>>
    BY <1>2 DEF SectionStep, memVars
  <2> QED BY <1>2, <1>a, <2>1, QuietRecovery
<1>3. ASSUME NEW ok \in BOOLEAN, WorkerStep(ok) PROVE RecoveryInv'
  <2>1. UNCHANGED <<phase, fixing>>
    BY <1>3 DEF WorkerStep, LoopTest, GetWake, ReadWake, RequeueSegment, ReleaseOrphans, Reconcile,
                ConfigurationMissing, Terminalize, PutBack, Settle, memVars
  <2> QED BY <1>3, <1>a, <2>1, QuietRecovery
<1>4. CASE Start
  <2>1. /\ UNCHANGED <<run, job, items, lock, fixing>> /\ phase' = "recover" /\ phase = "down"
        /\ todo' = {r \in Run : run[r] # "absent" /\ RequiresRecovery(r)}
    BY <1>4 DEF Start, storeVars
  <2>2. ASSUME NEW r \in Run, run[r] # "absent", ~RequiresRecovery(r) PROVE Recovered(r)
    BY <2>2 DEF RequiresRecovery, Recovered, ApprovedJob, TerminalIntent
  <2>3. fixing = NoRun
    BY <2>1 DEF RecoveryInv
  <2>4. \A r \in Run : Recovered(r)' <=> Recovered(r)
    BY <2>1 DEF Recovered, ApprovedJob, TerminalIntent
  <2> QED BY <2>1, <2>2, <2>3, <2>4 DEF RecoveryInv
<1>5. ASSUME NEW r \in Run, ReleaseLocks(r) PROVE RecoveryInv'
  <2>1. /\ UNCHANGED <<run, job, items, phase>> /\ phase = "recover" /\ fixing = NoRun
        /\ todo' = todo \ {r} /\ fixing' = r /\ lock' = [lock EXCEPT ![r] = NoProc]
    BY <1>5 DEF ReleaseLocks
  <2>2. \A x \in Run : Recovered(x) => Recovered(x)'
    BY <1>0, <2>1 DEF Recovered, ApprovedJob, TerminalIntent, StoreTypeOK
  <2>3. lock'[fixing'] = NoProc
    BY <1>0, <2>1 DEF StoreTypeOK
  <2> QED BY <1>0, <2>1, <2>2, <2>3 DEF RecoveryInv
\* The items of other runs keep their status.
<1>6. ASSUME NEW i \in DOMAIN items, RecoverItem(i) PROVE RecoveryInv'
  <2>1. /\ UNCHANGED <<run, job, lock, phase, todo, fixing>> /\ phase = "recover" /\ fixing # NoRun
        /\ items[i].run = fixing
        /\ \E s : items' = [items EXCEPT ![i] = [items[i] EXCEPT !.status = s]]
    BY <1>6 DEF RecoverItem, InterruptedItems, memVars, WithStatus
  <2>2. /\ DOMAIN items' = DOMAIN items
        /\ \A k \in DOMAIN items : k # i => items'[k] = items[k]
        /\ items'[i].run = fixing
    BY <1>0, <2>1 DEF ItemRow
  <2>3. \A x \in Run : x # fixing /\ Recovered(x) => Recovered(x)'
    BY <2>1, <2>2 DEF Recovered, ApprovedJob, TerminalIntent
  <2> QED BY <2>1, <2>3 DEF RecoveryInv
<1>7. CASE RecoverRun
  <2>f. PICK f \in Run : f = fixing
    BY <1>0, <1>7 DEF RecoverRun
  <2>0. /\ phase = "recover" /\ f \in Run /\ UNCHANGED <<lock, phase, todo>> /\ fixing' = NoRun
        /\ Exists(f) /\ lock[f] = NoProc
        /\ Intended(f) \/ InterruptedItems(f) = {}
    BY <1>0, <1>7, <2>f DEF RecoverRun, RecoveryInv
  <2>1. /\ DOMAIN items' = DOMAIN items
        /\ \A k \in DOMAIN items : items'[k].run = items[k].run
        /\ \A k \in DOMAIN items : items[k].run # f => items'[k] = items[k]
    <3>1. items' = items \/ items' = Rewritten(f, ActiveItem, "cancelled")
      BY <1>7, <2>f DEF RecoverRun
    <3>2. "cancelled" \in ItemStatus
      BY DEF ItemStatus, RunStatus, TerminalRun
    <3>3. DOMAIN Rewritten(f, ActiveItem, "cancelled") = DOMAIN items
          /\ \A k \in DOMAIN items : Rewritten(f, ActiveItem, "cancelled")[k].run = items[k].run
      BY <1>0, <3>2, RewrittenType
    <3>4. \A k \in DOMAIN items : items[k].run # f => Rewritten(f, ActiveItem, "cancelled")[k] = items[k]
      BY DEF Rewritten
    <3> QED BY <3>1, <3>3, <3>4
  <2>2. \A x \in Run : x # f => run'[x] = run[x] /\ job'[x] = job[x]
    BY <1>0, <1>7, <2>f, <2>0 DEF RecoverRun, SetRun, CloseJobs, StoreTypeOK
  <2>3. \A x \in Run : x # f /\ Recovered(x) => Recovered(x)'
    <3>1. \A x \in Run : x # f => (ApprovedJob(x)' <=> ApprovedJob(x)) /\ (TerminalIntent(x)' <=> TerminalIntent(x))
      BY <2>2 DEF ApprovedJob, TerminalIntent
    <3> QED BY <2>0, <2>1, <2>2, <3>1 DEF Recovered
  <2>4. Recovered(f)'
    <3>1. CASE Intended(f)
      <4>1. run'[f] = "cancelled" /\ items' = Rewritten(f, ActiveItem, "cancelled")
        BY <1>0, <1>7, <2>f, <2>0, <3>1 DEF RecoverRun, SetRun, StoreTypeOK, Intended
      <4>2. \A k \in DOMAIN items : items[k].run = f => items'[k].status \notin ActiveItem
        BY <1>0, <4>1 DEF Rewritten, ActiveItem, ItemRow
      <4> QED BY <2>0, <2>1, <4>1, <4>2 DEF Recovered
    <3>2. CASE ~Intended(f)
      <4>1. /\ items' = items
            /\ \/ run'[f] = "queued" /\ run[f] # "queued"
               \/ run'[f] = run[f] /\ job' = job /\ run[f] # "running"
                  /\ ~(run[f] = "waiting" /\ ApprovedJob(f))
        BY <1>0, <1>7, <2>f, <2>0, <3>2 DEF RecoverRun, SetRun, StoreTypeOK
      <4>2. \A k \in DOMAIN items : items[k].run = f /\ items[k].status \in ActiveItem =>
               run[f] = "queued" /\ items[k].status = "queued"
        BY <2>0, <3>2 DEF InterruptedItems, ActiveItem
      <4>3. ~(run'[f] = "running") /\ (run'[f] = "waiting" => ~ApprovedJob(f)' /\ ~TerminalIntent(f)')
        <5>1. CASE run'[f] = "queued"
          BY <5>1
        <5>2. CASE run'[f] = run[f] /\ job' = job /\ run[f] # "running"
                   /\ ~(run[f] = "waiting" /\ ApprovedJob(f))
          <6>1. job'[f] = job[f]
            BY <5>2
          <6> QED BY <3>2, <5>2, <6>1 DEF Intended, ApprovedJob, TerminalIntent
        <5> QED BY <4>1, <5>1, <5>2
      <4> QED BY <2>0, <4>1, <4>2, <4>3 DEF Recovered
    <3> QED BY <3>1, <3>2
  <2>5. \A x \in Run : run'[x] # "absent" /\ x \notin todo' => Recovered(x)'
    BY <2>f, <2>0, <2>2, <2>3, <2>4 DEF RecoveryInv
  <2> QED BY <1>0, <2>0, <2>5 DEF RecoveryInv
<1>b. CASE RecoverJobs
  <2>1. /\ UNCHANGED <<run, items, lock, phase, todo, fixing>> /\ phase = "recover" /\ fixing \in Run
        /\ \A x \in Run : x # fixing => job'[x] = job[x]
    BY <1>0, <1>b DEF RecoverJobs, CloseJobs, StoreTypeOK, memVars
  <2>2. \A x \in Run : x # fixing /\ Recovered(x) => Recovered(x)'
    BY <2>1 DEF Recovered, ApprovedJob, TerminalIntent
  <2> QED BY <2>1, <2>2 DEF RecoveryInv
<1>8. CASE StartThread
  BY <1>8 DEF StartThread, RecoveryInv
<1>9. ASSUME NEW r \in Run, ScheduleRecovered(r) PROVE RecoveryInv'
  BY <1>9, <1>a DEF ScheduleRecovered
<1>10. CASE Accept \/ Stop \/ Stopped
  BY <1>10 DEF Accept, Stop, Stopped, RecoveryInv
<1>11. CASE Crash
  BY <1>11 DEF Crash, RecoveryInv
<1>12. CASE UNCHANGED vars
  <2>1. UNCHANGED <<run, job, items, lock, phase, todo, fixing>>
    BY <1>12 DEF vars, storeVars, memVars
  <2>2. \A r \in Run : Recovered(r)' <=> Recovered(r)
    BY <2>1 DEF Recovered, ApprovedJob, TerminalIntent
  <2> QED BY <2>1, <2>2 DEF RecoveryInv
<1> QED BY <1>1, <1>2, <1>3, <1>4, <1>5, <1>6, <1>7, <1>b, <1>8, <1>9, <1>10, <1>11, <1>12
        DEF Next, Startup

\* _recover_interrupted_runs leaves nothing of the previous process behind,
\* wherever that process crashed, an earlier recovery included.
THEOREM RecoveryCorrect == Spec => []RecoveryComplete
<1>1. Init => TokenInv /\ RecoveryInv
  <2>1. Init => RecoveryInv
    BY DEF Init, RecoveryInv
  <2> QED BY <2>1, InitType, InitTokens DEF TokenInv
<1>2. TokenInv /\ RecoveryInv /\ [Next]_vars => (TokenInv /\ RecoveryInv)'
  BY TokensInductive, RecoveryInductive
<1>3. RecoveryInv => RecoveryComplete
  BY RunStoreAssumption DEF RecoveryInv, RecoveryComplete
<1> QED BY <1>1, <1>2, <1>3, PTL DEF Spec

----------------------------------------------------------------------------
(* The critical section.  A thread between its acquire and the end of the   *)
(* body is the one the lock row names: this is stronger than exclusion, and *)
(* inductive, because nobody but the holder and release_orphaned_locks      *)
(* releases a row while threads run.                                        *)

LockInv == \A r \in Run \ stolen, p \in Proc : Using(p, r) => lock[r] = p

UsedPc == BodyPc \cup {"mark"}

\* Every step of the body is taken from inside it and leaves the lock alone.
LEMMA BodyKeepsLock ==
    ASSUME NEW p \in Proc, NEW ok \in BOOLEAN, BodyStep(p, ok)
    PROVE  pc[p] \in UsedPc /\ lock' = lock
<1> USE DEF UsedPc, BodyPc
<1> QED BY DEF BodyStep, Load, ApplyApproval, TerminalAction, EnqueueApproved, Activate,
               RunnerUnavailable, RequestApproval, CommitApproved, WaitRun, CompleteRun, FailRun,
               CloseRuntimeState, SegmentInterrupted, storeVars

\* The caller of the coordinator is outside the section.
LEMMA ReturnIsOutside ==
    ASSUME ThreadTypeOK, NEW p \in Proc, NEW e, Return(p, e)
    PROVE  pc'[p] \notin UsedPc
  BY DEF Return, Goto, Leave, ThreadTypeOK, UsedPc, BodyPc

\* The coordinator enters the section only over a free lock, and gives back
\* only a lock that is its own.
LEMMA CoordinatorLock ==
    ASSUME TypeInv, NEW p \in Proc, NEW ok \in BOOLEAN, CoordinatorStep(p, ok)
    PROVE  LET r == op[p].run
           IN  \/ lock' = lock /\ (pc'[p] \in UsedPc => pc[p] \in UsedPc)
               \/ lock[r] = NoProc /\ lock' = [lock EXCEPT ![r] = p] /\ op' = op
               \/ lock[r] = p /\ lock' = [lock EXCEPT ![r] = NoProc] /\ pc'[p] \notin UsedPc
<1>0. ThreadTypeOK
  BY DEF TypeInv, TypeOK
<1>1. CASE NotQueued(p)
  BY <1>0, <1>1, ReturnIsOutside DEF NotQueued, storeVars
<1>2. CASE AcquireLock(p)
  BY <1>2 DEF AcquireLock, Continue
<1>3. CASE AcquireFailed(p, ok)
  <2>1. pc'[p] \notin UsedPc
    BY <1>0, <1>3, ReturnIsOutside DEF AcquireFailed, Raise, Goto, ThreadTypeOK, UsedPc, BodyPc
  <2> QED BY <1>3, <2>1 DEF AcquireFailed
<1>4. CASE MarkRunning(p, ok)
  BY <1>4 DEF MarkRunning, UsedPc
<1>5. CASE FailItem(p, ok)
  <2>1. pc'[p] \notin UsedPc
    BY <1>0, <1>5, ReturnIsOutside DEF FailItem, Continue, Goto, ThreadTypeOK, UsedPc, BodyPc
  <2> QED BY <1>5, <2>1 DEF FailItem
<1>6. CASE FinishItem(p, ok)
  <2>1. pc'[p] \notin UsedPc
    BY <1>0, <1>6 DEF FinishItem, Continue, Raise, Goto, ThreadTypeOK, UsedPc, BodyPc
  <2> QED BY <1>6, <2>1 DEF FinishItem
<1>7. CASE ErrorItem(p, ok)
  <2>1. pc'[p] \notin UsedPc
    BY <1>0, <1>7 DEF ErrorItem, Continue, Goto, ThreadTypeOK, UsedPc, BodyPc
  <2> QED BY <1>7, <2>1 DEF ErrorItem
<1>8. CASE ReleaseLock(p, ok)
  <2>1. pc'[p] \notin UsedPc
    BY <1>0, <1>8, ReturnIsOutside DEF ReleaseLock
  <2> QED BY <1>8, <2>1 DEF ReleaseLock
<1> QED BY <1>1, <1>2, <1>3, <1>4, <1>5, <1>6, <1>7, <1>8 DEF CoordinatorStep

LEMMA SectionLocks ==
    ASSUME TypeInv, LockInv, NEW p \in Proc, NEW ok \in BOOLEAN, SectionStep(p, ok)
    PROVE  LockInv'
<1>0. /\ StoreTypeOK /\ ThreadTypeOK /\ stolen' = stolen
      /\ NoProc \notin Proc
  BY RunStoreAssumption DEF TypeInv, TypeOK, SectionStep, Proc
<1>1. Moves(p)
  BY CoordinatorMoves, BodyMoves DEF SectionStep
<1>2. op[p].run \in Run
  BY <1>1, WorkingRun DEF Moves
<1>3. \A q \in Proc : \A r : q # p => (Using(q, r)' <=> Using(q, r))
  BY <1>1 DEF Moves, Using
<1>4. \A r \in Run : Using(p, r)' => op[p].run = r /\ pc'[p] \in UsedPc
  BY <1>1 DEF Moves, Using, UsedPc, BodyPc
<1>5. CASE lock' = lock /\ (pc'[p] \in UsedPc => pc[p] \in UsedPc)
  <2>1. \A r \in Run : Using(p, r)' => Using(p, r)
    BY <1>4, <1>5 DEF Using, UsedPc
  <2> QED BY <1>0, <1>3, <1>5, <2>1 DEF LockInv
<1>6. CASE lock[op[p].run] = NoProc /\ lock' = [lock EXCEPT ![op[p].run] = p]
  BY <1>0, <1>2, <1>3, <1>4, <1>6 DEF LockInv, StoreTypeOK
<1>7. CASE /\ lock[op[p].run] = p /\ lock' = [lock EXCEPT ![op[p].run] = NoProc]
           /\ pc'[p] \notin UsedPc
  BY <1>0, <1>2, <1>3, <1>4, <1>7 DEF LockInv, StoreTypeOK
<1> QED BY <1>5, <1>6, <1>7, BodyKeepsLock, CoordinatorLock DEF SectionStep

\* A step in which threads only leave the section and no lock is released.
LEMMA LocksStay ==
    ASSUME LockInv, lock' = lock, stolen' = stolen,
           \A p \in Proc, r \in Run : Using(p, r)' => Using(p, r)
    PROVE  LockInv'
  BY DEF LockInv

\* The worker's own steps leave it outside every section.
LEMMA WorkerStepOutside ==
    ASSUME TypeInv, NEW ok \in BOOLEAN, WorkerStep(ok)
    PROVE  /\ \A q \in Proc : q # Worker => pc'[q] = pc[q] /\ op'[q] = op[q]
           /\ pc'[Worker] \notin UsedPc /\ pc[Worker] # "close"
           /\ phase' = phase /\ starts' = starts
<1>0. Worker \in Proc /\ StoreTypeOK /\ ThreadTypeOK
  BY DEF TypeInv, TypeOK, Proc
<1> USE <1>0 DEF memVars, Continue, Goto, Begin, ThreadTypeOK, UsedPc, BodyPc
<1>1. CASE LoopTest
  BY <1>1 DEF LoopTest
<1>2. CASE GetWake
  BY <1>2 DEF GetWake
<1>3. CASE ReadWake(ok)
  <2>1. Branch(op[Worker].run, op[Worker].item) \in {"requeue", "acquire", "orphans", "reconcile"}
    BY DEF Branch
  <2> QED BY <1>3, <2>1 DEF ReadWake
<1>4. CASE RequeueSegment(ok)
  BY <1>4 DEF RequeueSegment
<1>5. CASE ReleaseOrphans(ok)
  BY <1>5 DEF ReleaseOrphans
<1>6. CASE Reconcile(ok)
  BY <1>6 DEF Reconcile
<1>7. CASE ConfigurationMissing(ok)
  BY <1>7 DEF ConfigurationMissing
<1>8. CASE Terminalize(ok)
  BY <1>8 DEF Terminalize
<1>9. CASE PutBack
  BY <1>9 DEF PutBack
<1>10. CASE Settle
  BY <1>10 DEF Settle
<1> QED BY <1>1, <1>2, <1>3, <1>4, <1>5, <1>6, <1>7, <1>8, <1>9, <1>10 DEF WorkerStep

LEMMA WorkerLocks ==
    ASSUME TypeInv, LockInv, NEW ok \in BOOLEAN, WorkerStep(ok)
    PROVE  LockInv'
<1>0. Worker \in Proc /\ StoreTypeOK /\ ThreadTypeOK
  BY DEF TypeInv, TypeOK, Proc
<1>1. /\ \A q \in Proc : q # Worker => pc'[q] = pc[q] /\ op'[q] = op[q]
      /\ pc'[Worker] \notin UsedPc
  BY WorkerStepOutside
<1>2. \A p \in Proc, r \in Run : Using(p, r)' => Using(p, r)
  BY <1>1 DEF Using, UsedPc
<1>3. CASE ReleaseOrphans(ok)
  <2> DEFINE x == op[Worker].run
  <2>1. \/ lock' = lock /\ stolen' = stolen
        \/ /\ lock' = [lock EXCEPT ![x] = NoProc]
           /\ stolen' = IF UsedLock(x) THEN stolen \cup {x} ELSE stolen
    BY <1>3 DEF ReleaseOrphans
  <2>2. ASSUME lock' = [lock EXCEPT ![x] = NoProc],
               stolen' = IF UsedLock(x) THEN stolen \cup {x} ELSE stolen,
               NEW r \in Run \ stolen', NEW p \in Proc, Using(p, r)
        PROVE  lock'[r] = p
    <3>1. r \notin stolen /\ lock[r] = p
      BY <2>2 DEF LockInv
    <3>2. p # NoProc
      BY RunStoreAssumption DEF Proc
    <3>3. r # x
      BY <2>2, <3>1, <3>2 DEF UsedLock
    <3> QED BY <1>0, <2>2, <3>1, <3>3 DEF StoreTypeOK
  <2> QED BY <1>2, <2>1, <2>2, LocksStay DEF LockInv
<1>4. CASE ~ReleaseOrphans(ok)
  <2>1. lock' = lock /\ stolen' = stolen
    BY <1>4 DEF WorkerStep, LoopTest, GetWake, ReadWake, RequeueSegment, Reconcile,
                ConfigurationMissing, Terminalize, PutBack, Settle, storeVars
  <2> QED BY <1>2, <2>1, LocksStay
<1> QED BY <1>3, <1>4

LEMMA LocksInductive == TokenInv /\ LockInv /\ [Next]_vars => LockInv'
<1> SUFFICES ASSUME TokenInv, LockInv, [Next]_vars PROVE LockInv'
  OBVIOUS
<1>0. TypeInv /\ StoreTypeOK /\ ThreadTypeOK
  BY DEF TokenInv, TypeInv, TypeOK
<1>1. ASSUME NEW c \in Client, Request(c) \/ Schedule(c) \/ Put(c) PROVE LockInv'
  <2>1. lock' = lock /\ stolen' = stolen
    BY <1>1 DEF Request, StartRun, JobRequest, BackgroundApproval, Schedule, Put, storeVars
  <2>2. /\ \A q \in Proc : q # c => pc'[q] = pc[q] /\ op'[q] = op[q]
        /\ c \in Proc => pc'[c] \notin UsedPc
    BY <1>0, <1>1 DEF Request, StartRun, JobRequest, BackgroundApproval, Schedule, Put, Begin, Goto,
                      Continue, Leave, ThreadTypeOK, UsedPc, BodyPc
  <2> QED BY <2>1, <2>2, LocksStay DEF Using, UsedPc
<1>2. ASSUME NEW p \in Proc, NEW ok \in BOOLEAN, SectionStep(p, ok) PROVE LockInv'
  BY <1>0, <1>2, SectionLocks
<1>3. ASSUME NEW ok \in BOOLEAN, WorkerStep(ok) PROVE LockInv'
  BY <1>0, <1>3, WorkerLocks
\* Startup releases every lock it finds while no thread is running.
<1>4. ASSUME NEW r \in Run, ReleaseLocks(r) PROVE LockInv'
  <2>1. \A p \in Proc : pc[p] \in {"idle", "dead"}
    BY <1>4 DEF ReleaseLocks, TokenInv, Quiet, Proc
  <2>2. \A p \in Proc, x \in Run : ~Using(p, x)'
    BY <1>4, <2>1 DEF ReleaseLocks, threadVars, Using, BodyPc
  <2> QED BY <2>2 DEF LockInv
<1>5. CASE StartThread
  <2>1. \A p \in Proc : p # Worker => pc'[p] = pc[p]
    BY <1>0, <1>5 DEF StartThread, Continue, Goto, ThreadTypeOK
  <2>2. pc'[Worker] = "loop" /\ op' = op /\ lock' = lock /\ stolen' = stolen
    BY <1>0, <1>5 DEF StartThread, Continue, Goto, ThreadTypeOK, storeVars, Proc
  <2>3. \A p \in Proc, r \in Run : Using(p, r)' => Using(p, r)
    BY <2>1, <2>2 DEF Using, BodyPc
  <2> QED BY <2>2, <2>3, LocksStay
<1>6. CASE Crash
  <2>1. \A p \in Proc : pc'[p] \in {"idle", "dead"}
    BY <1>6 DEF Crash
  <2> QED BY <2>1 DEF LockInv, Using, BodyPc
<1>7. ASSUME UNCHANGED <<pc, op, lock, stolen>> PROVE LockInv'
  BY <1>7 DEF LockInv, Using
<1>8. CASE Start \/ Accept \/ Stop \/ Stopped \/ RecoverJobs \/ RecoverRun
  BY <1>7, <1>8 DEF Start, Accept, Stop, Stopped, RecoverJobs, RecoverRun, storeVars, threadVars
<1>9. ASSUME NEW r \in Run, ScheduleRecovered(r) PROVE LockInv'
  BY <1>7, <1>9 DEF ScheduleRecovered, threadVars
<1>10. ASSUME NEW i \in DOMAIN items, RecoverItem(i) PROVE LockInv'
  BY <1>7, <1>10 DEF RecoverItem, threadVars
<1>11. CASE UNCHANGED vars
  BY <1>7, <1>11 DEF vars, storeVars, threadVars
<1> QED BY <1>1, <1>2, <1>3, <1>4, <1>5, <1>6, <1>8, <1>9, <1>10, <1>11 DEF Next, Startup

\* RunCoordinator's lock row keeps two threads from running the body of one
\* run's critical section together, through storage failures, retries, recovery
\* and crashes, as long as release_orphaned_locks has not taken the row from a
\* thread that was using it.
THEOREM SectionIsExclusive == Spec => []SectionExclusive
<1>1. Init => TokenInv /\ LockInv
  <2>1. Init => LockInv
    BY DEF Init, LockInv, Using, BodyPc
  <2> QED BY <2>1, InitType, InitTokens DEF TokenInv
<1>2. TokenInv /\ LockInv /\ [Next]_vars => (TokenInv /\ LockInv)'
  BY TokensInductive, LocksInductive
<1>3. LockInv => SectionExclusive
  BY DEF LockInv, SectionExclusive, Inside, Using
<1> QED BY <1>1, <1>2, <1>3, PTL DEF Spec

----------------------------------------------------------------------------
(* The rows of a run.  A thread that relies on the row it read finds it as  *)
(* it was, because whoever else writes it holds the lock, or is the worker  *)
(* and disturbs the run.  With that, a finished run stays finished and      *)
(* closed.                                                                  *)

Required(p) == IF pc[p] = "segment" THEN "running" ELSE "waiting"

RowInv == \A r \in Run \ disturbed, p \in Proc : Relying(p, r) => run[r] = Required(p)

\* A stolen lock disturbs the run, and before the first start nothing has run.
StartInv ==
    /\ stolen \subseteq disturbed
    /\ starts = 0 => phase = "down" /\ \A r \in Run : run[r] \notin TerminalRun

Shut(r) == \A j \in Job : job[r][j] \notin OpenJob

\* The failed run that TerminalRunClosed lets keep an open job.
Excused(r) ==
    /\ run[r] = "failed"
    /\ \/ faults > 0
       \/ starts > 1
       \/ phase = "down"
       \/ \E p \in Proc : pc[p] = "close" /\ op[p].run = r

FinishedInv == \A r \in Run \ disturbed : run[r] \in TerminalRun => Shut(r) \/ Excused(r)

WriteInv == TokenInv /\ LockInv /\ StartInv /\ RowInv /\ FinishedInv

\* What a step may do to the row of run r and to what relies on it.
Sound(r) ==
    /\ \A p \in Proc : Relying(p, r)' => run'[r] = Required(p)'
    /\ run'[r] \in TerminalRun => Shut(r)' \/ Excused(r)'
    /\ run[r] \in TerminalRun => run'[r] \in TerminalRun

\* A step that leaves the row alone, and of the threads at most moves some out
\* of the places that rely on it.
LEMMA RowStays ==
    ASSUME WriteInv, NEW r \in Run \ disturbed,
           run'[r] = run[r], job'[r] = job[r],
           faults > 0 => faults' > 0, starts > 1 => starts' > 1,
           phase = "down" => phase' = "down" \/ starts' > 1 \/ starts = 0,
           \A p \in Proc : Relying(p, r)' => Relying(p, r) /\ pc'[p] = pc[p],
           \/ phase' = "down"
           \/ \A p \in Proc : pc[p] = "close" /\ op[p].run = r => pc'[p] = "close" /\ op'[p].run = r
    PROVE  Sound(r)
<1>1. \A p \in Proc : Relying(p, r)' => run'[r] = Required(p)'
  BY DEF WriteInv, RowInv, Required
<1>2. Shut(r) => Shut(r)'
  BY DEF Shut
<1>3. run[r] \in TerminalRun => starts # 0
  BY DEF WriteInv, StartInv
<1>4. run[r] \in TerminalRun /\ Excused(r) => Excused(r)'
  BY <1>3 DEF Excused
<1> QED BY <1>1, <1>2, <1>4 DEF Sound, WriteInv, FinishedInv

LEMMA ClosedIsShut ==
    ASSUME StoreTypeOK, NEW r \in Run
    PROVE  /\ \A j \in Job : Closed(r)[j] \notin OpenJob
           /\ \A x \in {"rejected", "cancelled"} : \A i, j \in Job :
                 [Closed(r) EXCEPT ![i] = x][j] \notin OpenJob
           /\ CloseJobs(r) => Shut(r)'
<1>1. \A j \in Job : Closed(r)[j] \notin OpenJob
  BY DEF Closed, OpenJob
<1>2. DOMAIN Closed(r) = Job
  BY DEF Closed
<1>3. \A x \in {"rejected", "cancelled"} : \A i, j \in Job :
                 [Closed(r) EXCEPT ![i] = x][j] \notin OpenJob
  BY <1>1, <1>2 DEF OpenJob
<1>4. CloseJobs(r) => job'[r] = Closed(r)
  BY DEF CloseJobs, StoreTypeOK
<1> QED BY <1>1, <1>3, <1>4 DEF Shut

\* A step of the body touches only its own run, and that one soundly.
LEMMA BodyRow ==
    ASSUME WriteInv, NEW p \in Proc, NEW ok \in BOOLEAN, BodyStep(p, ok),
           UNCHANGED <<memVars, requests, starts, history>>,
           NEW r \in Run, op[p].run = r
    PROVE  /\ \A x \in Run : x # r => run'[x] = run[x] /\ job'[x] = job[x]
           /\ r \notin disturbed =>
                 /\ Relying(p, r)' => run'[r] = Required(p)'
                 /\ run'[r] \in TerminalRun => Shut(r)' \/ Excused(r)'
                 /\ run[r] \in TerminalRun => run'[r] \in TerminalRun
<1> DEFINE Others == \A x \in Run : x # r => run'[x] = run[x] /\ job'[x] = job[x]
<1> DEFINE Own == /\ Relying(p, r)' => run'[r] = Required(p)'
                  /\ run'[r] \in TerminalRun => Shut(r)' \/ Excused(r)'
                  /\ run[r] \in TerminalRun => run'[r] \in TerminalRun
<1> SUFFICES Others /\ (r \notin disturbed => Own)
  OBVIOUS
<1>0. /\ StoreTypeOK /\ ThreadTypeOK /\ faults \in Nat /\ job[r] \in [Job -> JobStatus]
      /\ TypeInv
  BY RunStoreAssumption DEF WriteInv, TokenInv, TypeInv, TypeOK, StoreTypeOK
<1>1. /\ r \notin disturbed /\ Relying(p, r) => run[r] = Required(p)
      /\ r \notin disturbed /\ run[r] \in TerminalRun => Shut(r) \/ Excused(r)
  BY DEF WriteInv, RowInv, FinishedInv
<1>2. \A q \in Proc : q # p => pc'[q] = pc[q] /\ op'[q] = op[q]
  BY <1>0, BodyMoves DEF Moves
<1> USE DEF TerminalRun
\* A step that writes neither the row nor the jobs.
<1>a. ASSUME run' = run, job' = job, pc[p] # "close", (faults > 0 => faults' > 0),
             r \notin disturbed /\ Relying(p, r)' => run[r] = Required(p)'
      PROVE  Others /\ (r \notin disturbed => Own)
  <2>1. Shut(r) => Shut(r)'
    BY <1>a DEF Shut
  <2>2. Excused(r) => Excused(r)'
    BY <1>0, <1>2, <1>a DEF Excused, memVars
  <2> QED BY <1>a, <1>1, <2>1, <2>2
\* A step that makes the row one that is not finished.
<1>b. ASSUME NEW s \in {"running", "queued", "waiting"}, SetRun(r, s),
             run[r] \notin TerminalRun \/ r \in disturbed,
             \A x \in Run : x # r => job'[x] = job[x],
             Relying(p, r)' => s = Required(p)'
      PROVE  Others /\ (r \notin disturbed => Own)
  BY <1>0, <1>b DEF SetRun, StoreTypeOK
<1>c. Storage(ok) => (faults > 0 => faults' > 0) /\ (~ok => faults' > 0)
  BY <1>0 DEF Storage
<1>d. \A j, s : SetJob(r, j, s) => \A x \in Run : x # r => job'[x] = job[x]
  BY <1>0 DEF SetJob, StoreTypeOK
<1>e. CloseJobs(r) => \A x \in Run : x # r => job'[x] = job[x]
  BY <1>0 DEF CloseJobs, StoreTypeOK
<1>f. \A l, e : Raise(p, e, l) \/ Continue(p, l) => pc'[p] = l /\ op' = op
  BY <1>0 DEF Raise, Continue, Goto, ThreadTypeOK
<1>g. Handler(p) \in {"release", "error_item"}
  BY DEF Handler
<1>h. \A l \in {"release", "error_item", "finish", "close", "activate", "enqueue"} :
         pc'[p] = l => ~Relying(p, r)'
  BY DEF Relying
<1> HIDE DEF Others, Own
<1>3. CASE Load(p, ok)
  <2>1. Decision(op[p].kind, r, op[p].job) # "segment"
    BY DEF Decision
  <2>2. Decision(op[p].kind, r, op[p].job) = "apply" /\ op[p].kind \in {"approve", "bgapprove"}
           => run[r] = "waiting"
    BY DEF Decision
  <2>3. Relying(p, r)' => run[r] = Required(p)'
    BY <1>3, <1>f, <1>g, <2>1, <2>2 DEF Load, Relying, Required
  <2> QED BY <1>3, <1>a, <1>c, <2>3 DEF Load
<1>4. CASE ApplyApproval(p, ok)
  <2>1. r \notin disturbed => run[r] = "waiting"
    BY <1>1, <1>4 DEF ApplyApproval, Relying, Required
  <2>2. run' = run /\ (\A x \in Run : x # r => job'[x] = job[x])
    BY <1>4, <1>d DEF ApplyApproval
  <2>3. ~Relying(p, r)'
    BY <1>4, <1>f, <1>g, <1>h DEF ApplyApproval
  <2> QED BY <2>1, <2>2, <2>3 DEF Others, Own
<1>5. CASE TerminalAction(p, ok)
  <2>1. ~Relying(p, r)'
    BY <1>5, <1>f, <1>g, <1>h DEF TerminalAction
  <2>2. CASE ok
    <3>1. run' = [run EXCEPT ![r] = "cancelled"] 
      BY <1>5, <2>2 DEF TerminalAction, SetRun
    <3>2. PICK x \in {"rejected", "cancelled"} :
             job' = [job EXCEPT ![r] = [Closed(r) EXCEPT ![op[p].job] = x]]
      BY <1>5, <2>2 DEF TerminalAction
    <3>3. Shut(r)'
      BY <1>0, <3>2, ClosedIsShut DEF Shut, StoreTypeOK
    <3> QED BY <1>0, <2>1, <3>1, <3>2, <3>3 DEF Others, Own, StoreTypeOK
  <2>3. CASE ~ok
    BY <1>5, <2>1, <2>3, <1>a, <1>c DEF TerminalAction
  <2> QED BY <2>2, <2>3
<1>6. CASE EnqueueApproved(p, ok)
  <2>1. pc'[p] = "release" /\ pc[p] = "enqueue" /\ job' = job /\ (faults > 0 => faults' > 0)
    BY <1>0, <1>6, <1>c, <1>f DEF EnqueueApproved, Goto, ThreadTypeOK
  <2>2. run' = run \/ (SetRun(r, "queued") /\ run[r] \in {"waiting", "queued"})
    BY <1>6 DEF EnqueueApproved
  <2>3. ~Relying(p, r)'
    BY <2>1, <1>h
  <2>4. CASE run' = run
    BY <1>a, <2>1, <2>3, <2>4
  <2> QED BY <1>b, <2>1, <2>2, <2>3, <2>4
<1>7. CASE Activate(p, ok)
  <2>1. pc[p] = "activate" /\ job' = job /\ (faults > 0 => faults' > 0)
    BY <1>7, <1>c DEF Activate
  <2>2. \/ run' = run /\ pc'[p] = "error_item"
        \/ SetRun(r, "running") /\ pc'[p] = "segment" /\ run[r] \in {"queued", "waiting"}
    BY <1>7, <1>f DEF Activate
  <2>3. CASE run' = run /\ pc'[p] = "error_item"
    BY <1>a, <1>h, <2>1, <2>3
  <2>4. CASE SetRun(r, "running") /\ pc'[p] = "segment" /\ run[r] \in {"queued", "waiting"}
    BY <1>b, <2>1, <2>4 DEF Required
  <2> QED BY <2>2, <2>3, <2>4
<1>8. CASE RunnerUnavailable(p)
  BY <1>0, <1>8, <1>a, <1>f, <1>h DEF RunnerUnavailable, storeVars
<1>9. ASSUME NEW j \in Job, RequestApproval(p, j) \/ CommitApproved(p, j)
      PROVE  Others /\ (r \notin disturbed => Own)
  <2>1. /\ pc[p] = "segment" /\ pc'[p] = "segment" /\ SetRun(r, "running")
        /\ \A x \in Run : x # r => job'[x] = job[x]
    BY <1>9, <1>d, <1>f DEF RequestApproval, CommitApproved
  <2>2. r \notin disturbed => run[r] = "running"
    BY <1>1, <2>1 DEF Relying, Required
  <2> QED BY <1>b, <2>1, <2>2 DEF Required
<1>10. CASE WaitRun(p, ok)
  <2>1. /\ pc[p] = "segment" /\ pc'[p] \in {"finish", "error_item"} /\ SetRun(r, "waiting")
        /\ job' = job
    BY <1>10, <1>f DEF WaitRun
  <2>2. r \notin disturbed => run[r] = "running"
    BY <1>1, <2>1 DEF Relying, Required
  <2> QED BY <1>b, <1>h, <2>1, <2>2
<1>11. CASE CompleteRun(p)
  <2>1. /\ pc'[p] = "finish" /\ run' = [run EXCEPT ![r] = "completed"] /\ job' = job
        /\ Shut(r)
    BY <1>11, <1>f DEF CompleteRun, SetRun, Shut, OpenJob
  <2>2. Shut(r)' /\ ~Relying(p, r)'
    BY <1>h, <2>1 DEF Shut
  <2> QED BY <1>0, <2>1, <2>2 DEF Others, Own, StoreTypeOK
<1>12. CASE FailRun(p)
  <2>1. /\ pc'[p] = "close" /\ op' = op /\ run' = [run EXCEPT ![r] = "failed"] /\ job' = job
    BY <1>12, <1>f DEF FailRun, SetRun
  <2>2. Excused(r)' /\ ~Relying(p, r)'
    BY <1>0, <1>h, <2>1 DEF Excused, StoreTypeOK
  <2> QED BY <1>0, <2>1, <2>2 DEF Others, Own, StoreTypeOK
<1>13. CASE CloseRuntimeState(p, ok)
  <2>1. pc'[p] = "error_item" /\ run' = run /\ (CloseJobs(r) \/ (job' = job /\ faults' > 0))
    <3>1. Storage(ok) /\ run' = run /\ (ok => CloseJobs(r)) /\ (~ok => job' = job)
      BY <1>13 DEF CloseRuntimeState, CloseJobs
    <3> QED BY <1>13, <1>c, <1>f, <3>1 DEF CloseRuntimeState
  <2>2. ~Relying(p, r)'
    BY <1>h, <2>1
  <2>3. CASE CloseJobs(r)
    BY <1>0, <1>e, <2>1, <2>2, <2>3, ClosedIsShut DEF Others, Own
  <2>4. CASE job' = job /\ faults' > 0
    <3>1. Shut(r) => Shut(r)'
      BY <2>4 DEF Shut
    <3>2. Excused(r) => Excused(r)'
      BY <2>1, <2>4 DEF Excused
    <3> QED BY <1>1, <2>1, <2>2, <2>4, <3>1, <3>2 DEF Others, Own
  <2> QED BY <2>1, <2>3, <2>4
<1>14. CASE SegmentInterrupted(p)
  <2>1. /\ pc[p] = "segment" /\ pc'[p] = "error_item" /\ run' = run /\ job' = job
        /\ (faults > 0 => faults' > 0)
    BY <1>0, <1>14, <1>f DEF SegmentInterrupted, Storage
  <2> QED BY <1>a, <1>h, <2>1
<1> QED BY <1>3, <1>4, <1>5, <1>6, <1>7, <1>8, <1>9, <1>10, <1>11, <1>12, <1>13, <1>14 DEF BodyStep

\* A thread in the body of an undisturbed run is alone there.
LEMMA AloneInside ==
    ASSUME WriteInv, NEW r \in Run \ disturbed, NEW p \in Proc, NEW q \in Proc,
           Using(p, r), Using(q, r)
    PROVE  p = q
  BY DEF WriteInv, StartInv, LockInv

LEMMA ReliesInside ==
    ASSUME NEW p, NEW r, Relying(p, r)
    PROVE  Using(p, r)
  BY DEF Relying, Using, BodyPc

LEMMA SectionRows ==
    ASSUME WriteInv, NEW p \in Proc, NEW ok \in BOOLEAN, SectionStep(p, ok)
    PROVE  \A r \in Run \ disturbed' : Sound(r)
<1> SUFFICES ASSUME NEW r \in Run \ disturbed PROVE Sound(r)
  BY DEF SectionStep
<1>0. /\ StoreTypeOK /\ ThreadTypeOK /\ faults \in Nat /\ TypeInv
      /\ UNCHANGED <<memVars, requests, starts, history>> /\ phase' = phase
  BY RunStoreAssumption DEF WriteInv, TokenInv, TypeInv, TypeOK, StoreTypeOK, SectionStep, memVars
<1>1. Moves(p)
  BY <1>0, CoordinatorMoves, BodyMoves DEF SectionStep
<1>2. op[p].run \in Run /\ \A q \in Proc : q # p => pc'[q] = pc[q] /\ op'[q] = op[q]
  BY <1>0, <1>1, WorkingRun DEF Moves
<1>3. \A q \in Proc : q # p /\ Relying(q, r)' => Relying(q, r) /\ Required(q)' = Required(q)
  BY <1>2 DEF Relying, Required
<1>4. CASE CoordinatorStep(p, ok)
  <2>1. run' = run /\ job' = job /\ pc[p] # "close"
    BY <1>4 DEF CoordinatorStep, NotQueued, AcquireLock, AcquireFailed, MarkRunning, FailItem, FinishItem,
                ErrorItem, ReleaseLock, storeVars
  <2>2. faults > 0 => faults' > 0
    BY <1>0, <1>4 DEF CoordinatorStep, NotQueued, AcquireLock, AcquireFailed, MarkRunning, FailItem,
                FinishItem, ErrorItem, ReleaseLock, storeVars, Storage
  <2>3. pc'[p] \notin {"segment", "apply"}
    BY <1>0, <1>4 DEF CoordinatorStep, NotQueued, AcquireLock, AcquireFailed, MarkRunning, FailItem,
                FinishItem, ErrorItem, ReleaseLock, Return, Raise, Continue, Goto, Leave, ThreadTypeOK
  <2> QED BY <1>0, <1>2, <1>3, <2>1, <2>2, <2>3, RowStays DEF Relying
<1>5. CASE BodyStep(p, ok)
  <2>1. pc[p] \in UsedPc
    BY <1>5, BodyKeepsLock
  <2>2. CASE op[p].run # r
    <3>1. run'[r] = run[r] /\ job'[r] = job[r]
      BY <1>0, <1>2, <1>5, <2>2, BodyRow
    <3>2. ~Relying(p, r)'
      BY <1>1, <2>2, RunStoreAssumption DEF Moves, Relying, NoOp
    <3>a. Storage(ok) \/ Storage(FALSE) \/ faults' = faults
      BY <1>5 DEF BodyStep, Load, ApplyApproval, TerminalAction, EnqueueApproved, Activate,
               RunnerUnavailable, RequestApproval, CommitApproved, WaitRun, CompleteRun, FailRun,
               CloseRuntimeState, SegmentInterrupted, storeVars
    <3>3. faults > 0 => faults' > 0
      BY <1>0, <3>a DEF Storage
    <3> QED BY <1>0, <1>2, <1>3, <2>2, <3>1, <3>2, <3>3, RowStays DEF Relying
  <2>3. CASE op[p].run = r
    <3>1. \A q \in Proc : Relying(q, r) => q = p
      BY <2>1, <2>3, AloneInside, ReliesInside DEF Using, UsedPc
    <3> QED BY <1>0, <1>3, <1>5, <2>3, <3>1, BodyRow DEF Sound
  <2> QED BY <2>2, <2>3
<1> QED BY <1>4, <1>5 DEF SectionStep

\* The worker's own steps: only those at "requeue", "acquire" and "terminalize"
\* write a row, and a run they write under a thread that relies on it is
\* disturbed from then on.
LEMMA WorkerRows ==
    ASSUME WriteInv, NEW ok \in BOOLEAN, WorkerStep(ok)
    PROVE  disturbed \subseteq disturbed' /\ \A r \in Run \ disturbed' : Sound(r)
<1> DEFINE w == op[Worker].run
<1>0. /\ Worker \in Proc /\ StoreTypeOK /\ ThreadTypeOK /\ faults \in Nat /\ TypeInv
      /\ NoProc \notin Proc
      /\ pc[Worker] \notin Resting => w \in Run
  BY RunStoreAssumption DEF WriteInv, TokenInv, TypeInv, TypeOK, StoreTypeOK, ThreadsExist, Proc
<1>1. /\ \A q \in Proc : q # Worker => pc'[q] = pc[q] /\ op'[q] = op[q]
      /\ pc'[Worker] \notin UsedPc /\ pc[Worker] # "close"
      /\ phase' = phase /\ starts' = starts
  BY <1>0, WorkerStepOutside
<1>2. \A q \in Proc, r \in Run : Relying(q, r)' => Relying(q, r) /\ pc'[q] = pc[q] /\ q # Worker
  BY <1>1 DEF Relying, UsedPc, BodyPc
<1>3. \A q \in Proc, r \in Run :
         pc[q] = "close" /\ op[q].run = r => pc'[q] = "close" /\ op'[q].run = r
  BY <1>1
<1>4. faults > 0 => faults' > 0
  <2>1. Storage(ok) \/ faults' = faults
    BY DEF WorkerStep, LoopTest, GetWake, ReadWake, RequeueSegment, ReleaseOrphans, Reconcile,
           ConfigurationMissing, Terminalize, PutBack, Settle, storeVars
  <2> QED BY <1>0, <2>1 DEF Storage
<1> HIDE DEF w
\* A step that writes no row.
<1>5. ASSUME run' = run, job' = job, disturbed \subseteq disturbed'
      PROVE  disturbed \subseteq disturbed' /\ \A r \in Run \ disturbed' : Sound(r)
  BY <1>1, <1>2, <1>3, <1>4, <1>5, RowStays
\* A step that writes the row of the worker's run.
<1>6. ASSUME pc[Worker] \notin Resting, Overwrite(w), CloseJobs(w),
             \A x \in Run : x # w => run'[x] = run[x],
             run[w] \in TerminalRun => run'[w] \in TerminalRun
      PROVE  disturbed \subseteq disturbed' /\ \A r \in Run \ disturbed' : Sound(r)
  <2>1. disturbed \subseteq disturbed'
    BY <1>6 DEF Overwrite
  <2>2. ASSUME NEW r \in Run \ disturbed', r # w PROVE Sound(r)
    <3>1. run'[r] = run[r] /\ job'[r] = job[r]
      BY <1>0, <1>6, <2>2 DEF CloseJobs, StoreTypeOK
    <3> QED BY <1>1, <1>2, <1>3, <1>4, <2>1, <2>2, <3>1, RowStays
  <2>3. ASSUME NEW r \in Run \ disturbed', r = w PROVE Sound(r)
    <3>1. r \notin disturbed /\ ~Midway(r)
      BY <1>6, <2>1, <2>3 DEF Overwrite
    <3>2. \A q \in Proc : ~Relying(q, r)
      <4>1. \A q \in Proc : Relying(q, r) => lock[r] = q
        BY <3>1, <2>3, ReliesInside DEF WriteInv, StartInv, LockInv
      <4> QED BY <1>0, <3>1, <4>1 DEF Midway
    <3>3. Shut(r)'
      BY <1>0, <1>6, <2>3, ClosedIsShut DEF CloseJobs
    <3> QED BY <1>2, <1>6, <2>3, <3>2, <3>3 DEF Sound
  <2> QED BY <2>1, <2>2, <2>3
<1>7. CASE RequeueSegment(ok)
  <2>1. CASE UNCHANGED <<run, job, disturbed>>
    BY <1>5, <2>1
  <2>2. CASE run[w] = "running" /\ SetRun(w, "queued") /\ CloseJobs(w) /\ Overwrite(w)
    <3>1. \A x \in Run : x # w => run'[x] = run[x]
      BY <1>0, <2>2 DEF SetRun, StoreTypeOK
    <3>2. pc[Worker] \notin Resting
      BY <1>7 DEF RequeueSegment, Resting
    <3> QED BY <1>6, <2>2, <3>1, <3>2 DEF TerminalRun
  <2> QED BY <1>7, <2>1, <2>2 DEF RequeueSegment, w
<1>8. CASE ConfigurationMissing(ok)
  <2>1. CASE UNCHANGED <<run, job, disturbed>>
    BY <1>5, <2>1
  <2>2. CASE SetRun(w, "failed") /\ CloseJobs(w) /\ Overwrite(w)
    <3>2. pc[Worker] \notin Resting
      BY <1>8 DEF ConfigurationMissing, Resting
    <3>1. run'[w] = "failed" /\ \A x \in Run : x # w => run'[x] = run[x]
      BY <1>0, <2>2, <3>2 DEF SetRun, StoreTypeOK
    <3> QED BY <1>6, <2>2, <3>1, <3>2 DEF TerminalRun
  <2> QED BY <1>8, <2>1, <2>2 DEF ConfigurationMissing, w
<1>9. CASE Terminalize(ok)
  <2>1. CASE UNCHANGED <<run, job, disturbed>>
    BY <1>5, <2>1
  <2>2. CASE /\ run' = IF run[w] \in LiveRun THEN [run EXCEPT ![w] = "failed"] ELSE run
             /\ CloseJobs(w) /\ Overwrite(w)
    <3>1. \A x \in Run : x # w => run'[x] = run[x]
      BY <1>0, <2>2 DEF StoreTypeOK
    <3>2. pc[Worker] \notin Resting
      BY <1>9 DEF Terminalize, Resting
    <3>3. run[w] \in TerminalRun => run'[w] \in TerminalRun
      BY <1>0, <2>2, <3>2 DEF TerminalRun, LiveRun, StoreTypeOK
    <3> QED BY <1>6, <2>2, <3>1, <3>2, <3>3
  <2> QED BY <1>9, <2>1, <2>2 DEF Terminalize, w
<1>10. CASE ReleaseOrphans(ok)
  BY <1>5, <1>10 DEF ReleaseOrphans
<1>11. CASE LoopTest \/ GetWake \/ ReadWake(ok) \/ Reconcile(ok) \/ PutBack \/ Settle
  BY <1>5, <1>11 DEF LoopTest, GetWake, ReadWake, Reconcile, PutBack, Settle, storeVars
<1> QED BY <1>7, <1>8, <1>9, <1>10, <1>11 DEF WorkerStep

\* While no thread runs, nothing relies on a row.
LEMMA QuietRows ==
    ASSUME WriteInv, phase \in {"down", "recover"}, NEW p \in Proc, NEW r
    PROVE  ~Relying(p, r) /\ pc[p] # "close"
  BY DEF WriteInv, TokenInv, Quiet, Proc, Relying

LEMMA LifecycleRows ==
    ASSUME WriteInv, Start \/ Startup \/ Stop \/ Stopped \/ Crash
    PROVE  disturbed' = disturbed /\ \A r \in Run \ disturbed' : Sound(r)
<1>0. /\ StoreTypeOK /\ ThreadTypeOK /\ faults \in Nat /\ starts \in Nat
      /\ disturbed' = disturbed /\ faults' = faults
  <2>1. StoreTypeOK /\ ThreadTypeOK /\ faults \in Nat /\ starts \in Nat
    BY RunStoreAssumption, RunWorkerAssumption DEF WriteInv, TokenInv, TypeInv, TypeOK, StoreTypeOK
  <2>2. disturbed' = disturbed /\ faults' = faults
    BY DEF Start, Startup, ReleaseLocks, ScheduleRecovered, RecoverItem, RecoverJobs, RecoverRun,
           StartThread, Accept, Stop, Stopped, Crash, storeVars
  <2> QED BY <2>1, <2>2
<1> SUFFICES ASSUME NEW r \in Run \ disturbed PROVE Sound(r)
  BY <1>0
<1>1. CASE Start
  <2>1. starts' = starts + 1 /\ run' = run /\ job' = job /\ pc' = pc /\ op' = op
    BY <1>1 DEF Start, storeVars, threadVars
  <2>2. starts' > 1 \/ starts = 0
    BY <1>0, <2>1
  <2>3. starts > 1 => starts' > 1
    BY <1>0, <2>1
  <2> QED BY <1>0, <2>1, <2>2, <2>3, RowStays DEF Relying
<1>2. CASE Crash
  <2>1. run' = run /\ job' = job /\ phase' = "down" /\ starts' = starts
    BY <1>2 DEF Crash, storeVars
  <2>2. \A p \in Proc : pc'[p] \in {"idle", "dead"}
    BY <1>2 DEF Crash
  <2> QED BY <1>0, <2>1, <2>2, RowStays DEF Relying
\* The steps that leave every row and every thread where it is.
<1>3. ASSUME run' = run, job' = job, starts' = starts, phase # "down",
             \A p \in Proc : pc'[p] = pc[p] \/ (pc'[p] = "loop" /\ pc[p] = "dead"), op' = op
      PROVE  Sound(r)
  BY <1>0, <1>3, RowStays DEF Relying
<1>4. CASE StartThread
  <2>1. \A p \in Proc : pc'[p] = pc[p] \/ (pc'[p] = "loop" /\ pc[p] = "dead")
    BY <1>0, <1>4 DEF StartThread, Continue, Goto, ThreadTypeOK, WriteInv, TokenInv, Quiet
  <2> QED BY <1>3, <1>4, <2>1 DEF StartThread, Continue, storeVars
<1>5. CASE Accept \/ Stop \/ Stopped
  BY <1>3, <1>5 DEF Accept, Stop, Stopped, storeVars, threadVars
<1>6. ASSUME NEW x \in Run, ReleaseLocks(x) \/ ScheduleRecovered(x) PROVE Sound(r)
  BY <1>3, <1>6 DEF ReleaseLocks, ScheduleRecovered, threadVars
<1>7. ASSUME NEW i \in DOMAIN items, RecoverItem(i) PROVE Sound(r)
  BY <1>3, <1>7 DEF RecoverItem, threadVars, memVars
<1>8. CASE RecoverJobs
  <2>1. /\ run' = run /\ CloseJobs(fixing) /\ pc' = pc /\ op' = op /\ phase' = phase
        /\ phase = "recover" /\ starts' = starts
    BY <1>8 DEF RecoverJobs, threadVars, memVars
  <2>2. \A p \in Proc : ~Relying(p, r)' /\ ~Relying(p, r)
    BY <2>1, QuietRows DEF Relying
  <2>3. CASE fixing = r
    <3>1. job'[r] = Closed(r)
      BY <1>0, <2>1, <2>3 DEF CloseJobs, StoreTypeOK
    <3>2. Shut(r)'
      BY <1>0, <3>1, ClosedIsShut DEF Shut
    <3> QED BY <2>1, <2>2, <3>2 DEF Sound
  <2>4. CASE fixing # r
    <3>1. job'[r] = job[r]
      BY <1>0, <2>1, <2>4 DEF CloseJobs, StoreTypeOK
    <3> QED BY <1>0, <2>1, <2>2, <3>1, RowStays
  <2> QED BY <2>3, <2>4
<1>9. CASE RecoverRun
  <2>1. job' = job /\ pc' = pc /\ op' = op /\ phase' = phase /\ phase = "recover" /\ starts' = starts
    BY <1>9 DEF RecoverRun, threadVars
  <2>2. \A p \in Proc : ~Relying(p, r)' /\ ~Relying(p, r)
    BY <2>1, QuietRows DEF Relying
  <2>3. CASE fixing = r /\ Intended(fixing)
    <3>1. run'[r] = "cancelled" /\ Shut(r)
      BY <1>0, <1>9, <2>3 DEF RecoverRun, SetRun, StoreTypeOK, Intended, TerminalIntent, Shut
    <3>2. Shut(r)'
      BY <2>1, <3>1 DEF Shut
    <3> QED BY <2>2, <3>1, <3>2 DEF Sound, TerminalRun
  <2>4. CASE run'[r] = run[r]
    BY <1>0, <2>1, <2>2, <2>4, RowStays
  <2>5. CASE run'[r] = "queued" /\ run[r] \in {"running", "waiting"}
    BY <2>2, <2>5 DEF Sound, TerminalRun
  <2> QED BY <1>0, <1>9, <2>3, <2>4, <2>5 DEF RecoverRun, SetRun, StoreTypeOK
<1> QED BY <1>1, <1>2, <1>4, <1>5, <1>6, <1>7, <1>8, <1>9 DEF Startup

LEMMA ClientRows ==
    ASSUME WriteInv, NEW c \in Client, Request(c) \/ Schedule(c) \/ Put(c)
    PROVE  disturbed' = disturbed /\ \A r \in Run \ disturbed' : Sound(r)
<1>0. StoreTypeOK /\ ThreadTypeOK /\ c \in Proc
  BY DEF WriteInv, TokenInv, TypeInv, TypeOK, Proc
<1>1. /\ disturbed' = disturbed /\ faults' = faults /\ starts' = starts /\ phase' = phase
      /\ job' = job /\ stolen' = stolen
  BY DEF Request, StartRun, JobRequest, BackgroundApproval, Schedule, Put, storeVars, memVars
<1>2. /\ \A q \in Proc : q # c => pc'[q] = pc[q] /\ op'[q] = op[q]
      /\ pc'[c] \in {"schedule", "acquire", "put", "idle"} /\ pc[c] \in {"idle", "schedule", "put"}
  BY <1>0 DEF Request, StartRun, JobRequest, BackgroundApproval, Schedule, Put, Begin, Goto,
              Continue, Leave, ThreadTypeOK, Admitted
<1> SUFFICES ASSUME NEW r \in Run \ disturbed PROVE Sound(r)
  BY <1>1
<1>3. \A q \in Proc : Relying(q, r)' => Relying(q, r) /\ pc'[q] = pc[q]
  BY <1>2 DEF Relying
<1>4. CASE run'[r] = run[r]
  BY <1>1, <1>2, <1>3, <1>4, RowStays
<1>5. CASE run[r] = "absent" /\ run'[r] = "queued"
  <2>1. \A q \in Proc : ~Relying(q, r)
    BY <1>5 DEF WriteInv, TokenInv, TypeInv, ThreadsExist, Exists, Relying
  <2> QED BY <1>3, <1>5, <2>1 DEF Sound, TerminalRun
<1>6. run'[r] = run[r] \/ (run[r] = "absent" /\ run'[r] = "queued")
  BY <1>0 DEF Request, StartRun, SetRun, JobRequest, BackgroundApproval, Schedule, Put, storeVars,
              StoreTypeOK
<1> QED BY <1>4, <1>5, <1>6

\* Every step of the system keeps undisturbed rows sound.
LEMMA StepRows ==
    ASSUME WriteInv, [Next]_vars
    PROVE  disturbed \subseteq disturbed' /\ \A r \in Run \ disturbed' : Sound(r)
<1>1. ASSUME NEW p \in Proc, NEW ok \in BOOLEAN, SectionStep(p, ok)
      PROVE  disturbed \subseteq disturbed' /\ \A r \in Run \ disturbed' : Sound(r)
  BY <1>1, SectionRows DEF SectionStep
<1>2. CASE UNCHANGED vars
  BY <1>2, RowStays DEF vars, storeVars, threadVars, memVars, Relying
<1> QED BY <1>1, <1>2, ClientRows, WorkerRows, LifecycleRows DEF Next

LEMMA WriteInductive == WriteInv /\ [Next]_vars => WriteInv'
<1> SUFFICES ASSUME WriteInv, [Next]_vars PROVE WriteInv'
  OBVIOUS
<1>1. TokenInv' /\ LockInv'
  BY TokensInductive, LocksInductive DEF WriteInv
<1>2. RowInv' /\ FinishedInv'
  BY StepRows DEF Sound, RowInv, FinishedInv
<1>3. stolen' \subseteq disturbed'
  <2>1. stolen \subseteq disturbed /\ disturbed \subseteq disturbed'
    BY StepRows DEF WriteInv, StartInv
  <2>2. \/ stolen' \subseteq stolen
        \/ \E ok \in BOOLEAN : ReleaseOrphans(ok)
    BY DEF Next, Request, StartRun, JobRequest, BackgroundApproval, Schedule, Put, SectionStep,
           WorkerStep, LoopTest, GetWake, ReadWake, RequeueSegment, Reconcile, ConfigurationMissing,
           Terminalize, PutBack, Settle, Start, Startup, ReleaseLocks, ScheduleRecovered, RecoverItem,
           RecoverJobs, RecoverRun, StartThread, Accept, Stop, Stopped, Crash, vars
  <2>3. ASSUME NEW ok \in BOOLEAN, ReleaseOrphans(ok) PROVE stolen' \subseteq disturbed'
    BY <2>1, <2>3 DEF ReleaseOrphans
  <2> QED BY <2>1, <2>2, <2>3
<1>4. starts' = 0 => phase' = "down" /\ \A r \in Run : run'[r] \notin TerminalRun
  <2>0. starts \in Nat
    BY RunWorkerAssumption DEF WriteInv, TokenInv, TypeInv, TypeOK
  <2>1. CASE Start
    BY <2>0, <2>1 DEF Start
  <2>2. CASE UNCHANGED vars
    BY <2>2 DEF vars, storeVars, memVars, WriteInv, StartInv
  <2>3. ASSUME ~Start, ~UNCHANGED vars, starts' = 0 PROVE FALSE
    <3>1. phase = "down" /\ \A p \in Proc : pc[p] \in {"idle", "dead"}
      <4>1. starts' = starts
        BY <2>3 DEF Next, Request, StartRun, JobRequest, BackgroundApproval, Schedule, Put, SectionStep,
           WorkerStep, LoopTest, GetWake, ReadWake, RequeueSegment, ReleaseOrphans, Reconcile,
           ConfigurationMissing, Terminalize, PutBack, Settle, Startup, ReleaseLocks, ScheduleRecovered,
           RecoverItem, RecoverJobs, RecoverRun, StartThread, Accept, Stop, Stopped, Crash
      <4>2. phase = "down"
        BY <2>3, <4>1 DEF WriteInv, StartInv
      <4> QED BY <4>2 DEF WriteInv, TokenInv, Quiet, Proc
    <3>2. ~\E p \in Proc, ok \in BOOLEAN : SectionStep(p, ok)
      BY <3>1, BodyKeepsLock DEF SectionStep, UsedPc, BodyPc, CoordinatorStep, NotQueued, AcquireLock,
                  AcquireFailed, MarkRunning, FailItem, FinishItem, ErrorItem, ReleaseLock
    <3>3. ~\E ok \in BOOLEAN : WorkerStep(ok)
      BY <3>1 DEF Proc, WorkerStep, LoopTest, GetWake, ReadWake, RequeueSegment, ReleaseOrphans, Reconcile,
                  ConfigurationMissing, Terminalize, PutBack, Settle
    <3>4. ~\E c \in Client : Request(c) \/ Schedule(c) \/ Put(c)
      BY <3>1 DEF Proc, Request, StartRun, JobRequest, BackgroundApproval, Schedule, Put
    <3>5. ~Startup /\ ~Stop /\ ~Stopped /\ ~Crash
      BY <3>1 DEF Startup, ReleaseLocks, ScheduleRecovered, RecoverItem, RecoverJobs, RecoverRun,
                  StartThread, Accept, Stop, Stopped, Crash
    <3> QED BY <2>3, <3>2, <3>3, <3>4, <3>5 DEF Next
  <2> QED BY <2>1, <2>2, <2>3
<1> QED BY <1>1, <1>2, <1>3, <1>4 DEF WriteInv, StartInv

LEMMA InitWrite == Init => WriteInv
<1> SUFFICES ASSUME Init PROVE WriteInv
  OBVIOUS
<1>1. TokenInv
  BY InitType, InitTokens DEF TokenInv
<1>2. LockInv /\ RowInv
  BY DEF Init, LockInv, RowInv, Using, Relying, BodyPc
<1>3. \A r \in Run : run[r] \notin TerminalRun
  BY DEF Init, TerminalRun
<1> QED BY <1>1, <1>2, <1>3 DEF Init, WriteInv, StartInv, FinishedInv

\* No approval survives the end of its run where a late answer could act on it,
\* but for the failed run whose closing a storage failure or a crash cut off.
THEOREM FinishedRunIsClosed == Spec => []TerminalRunClosed
<1>1. WriteInv => TerminalRunClosed
  BY DEF WriteInv, FinishedInv, TerminalRunClosed, Shut, Excused
<1> QED BY <1>1, InitWrite, WriteInductive, PTL DEF Spec

\* A finished run stays finished: no writer of the run row brings it back with
\* the copy it read, through failures, retries, recovery and crashes, unless the
\* worker wrote the row or broke the lock under it.
THEOREM FinishedRunStaysFinished == Spec => TerminalNeverReopened
<1>1. WriteInv /\ [Next]_vars =>
         [\A r \in Run \ disturbed' : run[r] \in TerminalRun => run'[r] \in TerminalRun]_vars
  BY StepRows DEF Sound
<1> QED BY <1>1, InitWrite, WriteInductive, PTL DEF Spec, TerminalNeverReopened

----------------------------------------------------------------------------
(* The shape of a thread: where the kinds of request can be, and where an   *)
(* exception can be in flight.  Without a storage failure there is none of  *)
(* kind "storage" and the worker puts no wake item back.                    *)

Placed(k, l) ==
    /\ k = "none"      => l \in Resting
    /\ k = "submit"    => l \in {"schedule", "put"}
    /\ k = "bgapprove" => l \in {"acquire", "load", "apply", "enqueue", "release", "schedule", "put"}
    /\ k = "start"     => l \in SectionPc \ {"load", "apply", "enqueue"}
    /\ k = "approve"   => l \in SectionPc \ {"enqueue"}
    /\ k \in {"reject", "cancel"} => l \in SectionPc \ {"enqueue", "activate", "segment", "close"}
    /\ k = "wake"      => l \in (SectionPc \ {"load", "apply", "enqueue"}) \cup
                                {"wake", "requeue", "orphans", "reconcile", "terminalize", "reput", "settle"}

Shape(p) ==
    /\ Placed(op[p].kind, pc[p])
    /\ p = Worker => op[p].kind \in {"none", "wake"}
    /\ p # Worker => op[p].kind # "wake"
    /\ exc[p] # "none" => pc[p] \in {"fail_item", "error_item", "release"}
    /\ pc[p] \in {"fail_item", "error_item"} => exc[p] # "none"
    /\ faults = 0 => exc[p] # "storage" /\ pc[p] # "reput"

ShapeInv == \A p \in Proc : Shape(p)

\* What a step of the section does to its thread: it leaves, or goes on with
\* the same request; only "enqueue" gives it another item.
Resumes(p) ==
    \/ p # Worker /\ pc'[p] = "idle" /\ op'[p] = NoOp /\ exc'[p] = "none"
    \/ /\ op'[p].kind = op[p].kind /\ op'[p].run = op[p].run /\ op'[p].job = op[p].job
       /\ op'[p].item = op[p].item \/ pc[p] = "enqueue"

Reshapes(p) ==
    /\ Shape(p)' /\ Resumes(p)
    /\ \A q \in Proc : q # p => exc'[q] = exc[q]
    /\ faults' = 0 => faults = 0

LEMMA ReturnShape ==
    ASSUME ThreadTypeOK, NEW p \in Proc, Shape(p), NEW e \in Exception, Return(p, e),
           pc[p] \in SectionPc, exc[p] = "none" \/ e # "none",
           faults' = 0 => faults = 0, faults' = 0 => e # "storage"
    PROVE  Reshapes(p)
<1>1. CASE p = Worker
  <2>1. PICK l \in {"settle", "reput", "terminalize"} :
           /\ pc' = [pc EXCEPT ![p] = l] /\ exc' = [exc EXCEPT ![p] = "none"] /\ op' = op
           /\ l = "reput" => e = "storage"
    BY <1>1 DEF Return, Goto
  <2>2. op[p].kind = "wake"
    BY <1>1 DEF Shape, Placed, SectionPc, Resting
  <2> QED BY <1>1, <2>1, <2>2 DEF Reshapes, Shape, Resumes, Placed, ThreadTypeOK
<1>2. CASE p # Worker /\ Leave(p)
  BY <1>2 DEF Leave, Reshapes, Shape, Resumes, Placed, ThreadTypeOK, NoOp, Resting
<1>3. CASE /\ p # Worker /\ Goto(p, "schedule") /\ UNCHANGED <<op, exc>>
           /\ op[p].kind = "bgapprove" /\ e = "none"
  BY <1>3 DEF Goto, Reshapes, Shape, Resumes, Placed, ThreadTypeOK
<1> QED BY <1>1, <1>2, <1>3 DEF Return

\* The cases of a step of the coordinator or of a body.
LEMMA SectionShape ==
    ASSUME TypeInv, NEW p \in Proc, Shape(p), NEW ok \in BOOLEAN,
           CoordinatorStep(p, ok) \/ BodyStep(p, ok)
    PROVE  Reshapes(p)
<1>0. ThreadTypeOK /\ faults \in Nat /\ exc[p] \in Exception
  BY RunStoreAssumption DEF TypeInv, TypeOK, StoreTypeOK, ThreadTypeOK, Exception
<1>1. Storage(ok) => (faults' = 0 => faults = 0 /\ ok)
  BY <1>0 DEF Storage
<1>2. ASSUME op' = op, \A q \in Proc : q # p => exc'[q] = exc[q],
             Placed(op[p].kind, pc'[p]), pc'[p] # "reput",
             exc'[p] # "none" => pc'[p] \in {"fail_item", "error_item", "release"},
             pc'[p] \in {"fail_item", "error_item"} => exc'[p] # "none",
             faults' = 0 => faults = 0 /\ exc'[p] # "storage"
      PROVE  Reshapes(p)
  BY <1>2 DEF Shape, Resumes, Reshapes
<1>3. \A l : Continue(p, l) => pc'[p] = l /\ op' = op /\ exc' = exc
  BY <1>0 DEF Continue, Goto, ThreadTypeOK
<1>4. \A l, e : Raise(p, e, l) =>
         pc'[p] = l /\ op' = op /\ exc'[p] = e /\ \A q \in Proc : q # p => exc'[q] = exc[q]
  BY <1>0 DEF Raise, Goto, ThreadTypeOK
<1> USE DEF Shape, Placed, SectionPc, Resting, Exception
<1>5. CASE NotQueued(p)
  <2>1. Return(p, "conflict") /\ pc[p] \in SectionPc /\ faults' = faults
    BY <1>5 DEF NotQueued, storeVars
  <2> QED BY <1>0, <2>1, ReturnShape
<1>6. CASE AcquireLock(p)
  BY <1>2, <1>3, <1>6 DEF AcquireLock
<1>7. CASE AcquireFailed(p, ok)
<2>1. pc[p] \in SectionPc /\ (faults' = 0 => faults = 0) /\ exc[p] = "none"
    BY <1>1, <1>7 DEF AcquireFailed
  <2>2. CASE Return(p, "conflict")
    BY <1>0, <2>1, <2>2, ReturnShape
  <2>3. CASE Raise(p, "conflict", "fail_item") /\ op[p].kind # "bgapprove"
    BY <1>2, <1>4, <1>7, <2>1, <2>3 DEF AcquireFailed
  <2> QED BY <1>7, <2>2, <2>3 DEF AcquireFailed
<1>8. CASE MarkRunning(p, ok)
  BY <1>1, <1>2, <1>3, <1>4, <1>8 DEF MarkRunning
<1>9. CASE FailItem(p, ok)
  <2>1. pc[p] = "fail_item" /\ (faults' = 0 => faults = 0) /\ exc[p] # "none"
    BY <1>1, <1>9 DEF FailItem
  <2>2. CASE Return(p, exc[p])
    BY <1>0, <2>1, <2>2, ReturnShape
  <2>3. CASE Continue(p, "release")
    BY <1>2, <1>3, <2>1, <2>3
  <2> QED BY <1>9, <2>2, <2>3 DEF FailItem
<1>10. CASE FinishItem(p, ok)
  BY <1>1, <1>2, <1>3, <1>4, <1>10 DEF FinishItem
<1>11. CASE ErrorItem(p, ok)
  BY <1>1, <1>2, <1>3, <1>11 DEF ErrorItem
<1>12. CASE ReleaseLock(p, ok)
  <2>1. pc[p] = "release" /\ (faults' = 0 => faults = 0 /\ ok)
    BY <1>1, <1>12 DEF ReleaseLock
  <2>2. CASE ok /\ Return(p, exc[p])
    BY <1>0, <2>1, <2>2, ReturnShape
  <2>3. CASE ~ok /\ Return(p, "storage")
    BY <1>0, <2>1, <2>3, ReturnShape
  <2> QED BY <1>12, <2>2, <2>3 DEF ReleaseLock
<1>13. CASE Load(p, ok)
  <2>1. Placed(op[p].kind, Handler(p)) /\ Handler(p) \in {"error_item", "release"}
    BY <1>13 DEF Load, Handler
  <2>2. Decision(op[p].kind, op[p].run, op[p].job) # "conflict" =>
          /\ Placed(op[p].kind, Decision(op[p].kind, op[p].run, op[p].job))
          /\ Decision(op[p].kind, op[p].run, op[p].job) \in
                {"activate", "apply", "finish", "enqueue", "release"}
    BY <1>13 DEF Load, Decision
  <2> QED BY <1>1, <1>2, <1>3, <1>4, <1>13, <2>1, <2>2 DEF Load
<1>14. CASE ApplyApproval(p, ok)
  <2>1. Placed(op[p].kind, Handler(p)) /\ Handler(p) \in {"error_item", "release"}
    BY <1>14 DEF ApplyApproval, Handler
  <2> QED BY <1>1, <1>2, <1>3, <1>4, <1>14, <2>1 DEF ApplyApproval
<1>15. CASE TerminalAction(p, ok)
  <2>1. Placed(op[p].kind, Handler(p)) /\ Handler(p) \in {"error_item", "release"}
    BY <1>15 DEF TerminalAction, Handler
  <2> QED BY <1>1, <1>2, <1>3, <1>4, <1>15, <2>1 DEF TerminalAction
<1>16. CASE EnqueueApproved(p, ok)
  <2>1. CASE \E e \in {"storage", "conflict"} : Raise(p, e, "release") /\ (e = "storage" => ~ok)
    BY <1>1, <1>2, <1>4, <1>16, <2>1 DEF EnqueueApproved
  <2>2. ASSUME NEW i, op' = [op EXCEPT ![p].item = i], Goto(p, "release"), UNCHANGED exc
        PROVE  Reshapes(p)
    BY <1>0, <1>1, <1>16, <2>2 DEF EnqueueApproved, Goto, ThreadTypeOK, Resumes, Reshapes
  <2> QED BY <1>16, <2>1, <2>2 DEF EnqueueApproved
<1>17. CASE Activate(p, ok)
  BY <1>1, <1>2, <1>3, <1>4, <1>17 DEF Activate
<1>18. CASE RunnerUnavailable(p)
  BY <1>2, <1>4, <1>18 DEF RunnerUnavailable, storeVars
<1>19. ASSUME NEW j \in Job, RequestApproval(p, j) \/ CommitApproved(p, j) PROVE Reshapes(p)
  BY <1>2, <1>3, <1>19 DEF RequestApproval, CommitApproved
<1>20. CASE WaitRun(p, ok)
  BY <1>1, <1>2, <1>3, <1>4, <1>20 DEF WaitRun
<1>21. CASE CompleteRun(p) \/ FailRun(p)
  BY <1>2, <1>3, <1>21 DEF CompleteRun, FailRun
<1>22. CASE CloseRuntimeState(p, ok)
  BY <1>1, <1>2, <1>4, <1>22 DEF CloseRuntimeState
<1>23. CASE SegmentInterrupted(p)
  <2>1. faults' # 0
    BY <1>0, <1>23 DEF SegmentInterrupted, Storage
  <2> QED BY <1>2, <1>4, <1>23, <2>1 DEF SegmentInterrupted
<1> QED
  BY <1>5, <1>6, <1>7, <1>8, <1>9, <1>10, <1>11, <1>12, <1>13, <1>14, <1>15, <1>16, <1>17, <1>18,
     <1>19, <1>20, <1>21, <1>22, <1>23 DEF CoordinatorStep, BodyStep

\* A thread that takes no step keeps its shape.
LEMMA ShapeStays ==
    ASSUME NEW q \in Proc, Shape(q), pc'[q] = pc[q], op'[q] = op[q], exc'[q] = exc[q],
           faults' = 0 => faults = 0
    PROVE  Shape(q)'
  BY DEF Shape

LEMMA WorkerShape ==
    ASSUME TypeInv, Shape(Worker), NEW ok \in BOOLEAN, WorkerStep(ok)
    PROVE  /\ Shape(Worker)'
           /\ \A q \in Proc : q # Worker => exc'[q] = exc[q]
           /\ faults' = 0 => faults = 0
<1>0. Worker \in Proc /\ ThreadTypeOK /\ faults \in Nat
  BY RunStoreAssumption DEF TypeInv, TypeOK, StoreTypeOK, Proc
<1>1. Storage(ok) => (faults' = 0 => faults = 0 /\ ok)
  BY <1>0 DEF Storage
<1>2. \A l : Continue(Worker, l) => pc'[Worker] = l /\ op' = op /\ exc' = exc
  BY <1>0 DEF Continue, Goto, ThreadTypeOK
<1>3. pc'  = [pc EXCEPT ![Worker] = "loop"] /\ op' = [op EXCEPT ![Worker] = NoOp]
         => pc'[Worker] = "loop" /\ op'[Worker].kind = "none"
  BY <1>0 DEF ThreadTypeOK, NoOp
<1> USE DEF Shape, Placed, SectionPc, Resting
<1>4. CASE LoopTest
  BY <1>2, <1>4 DEF LoopTest, storeVars
<1>5. CASE GetWake
  <2>1. CASE Continue(Worker, "dead")
    BY <1>2, <1>5, <2>1 DEF GetWake, storeVars
  <2>2. CASE Begin(Worker, "wake", Head(queue).run, NoJob, Head(queue).item, "wake")
    <3>1. pc'[Worker] = "wake" /\ op'[Worker].kind = "wake" /\ exc' = exc
      BY <1>0, <2>2 DEF Begin, Goto, ThreadTypeOK
    <3> QED BY <1>5, <3>1 DEF GetWake, storeVars
  <2> QED BY <1>5, <2>1, <2>2 DEF GetWake
<1>6. CASE ReadWake(ok)
  <2>1. Branch(op[Worker].run, op[Worker].item) \in {"requeue", "acquire", "orphans", "reconcile"}
    BY DEF Branch
  <2> QED BY <1>1, <1>2, <1>6, <2>1 DEF ReadWake
<1>7. CASE RequeueSegment(ok)
  BY <1>1, <1>2, <1>7 DEF RequeueSegment
<1>8. CASE ReleaseOrphans(ok)
  BY <1>1, <1>2, <1>8 DEF ReleaseOrphans
<1>9. CASE Reconcile(ok)
  BY <1>1, <1>2, <1>9 DEF Reconcile
<1>10. CASE ConfigurationMissing(ok)
  BY <1>1, <1>2, <1>10 DEF ConfigurationMissing
<1>11. CASE Terminalize(ok)
  BY <1>1, <1>2, <1>11 DEF Terminalize
<1>12. CASE PutBack
  BY <1>2, <1>3, <1>12 DEF PutBack, storeVars
<1>13. CASE Settle
  BY <1>3, <1>13 DEF Settle, storeVars
<1> QED BY <1>4, <1>5, <1>6, <1>7, <1>8, <1>9, <1>10, <1>11, <1>12, <1>13 DEF WorkerStep

LEMMA ClientShape ==
    ASSUME TypeInv, NEW c \in Client, Shape(c), Request(c) \/ Schedule(c) \/ Put(c)
    PROVE  /\ Shape(c)' /\ faults' = faults
           /\ \A q \in Proc : q # c => pc'[q] = pc[q] /\ op'[q] = op[q] /\ exc'[q] = exc[q]
<1>0. c \in Proc /\ c # Worker /\ ThreadTypeOK
  BY RunStoreAssumption DEF TypeInv, TypeOK, Proc
<1>1. faults' = faults
  BY DEF Request, StartRun, JobRequest, BackgroundApproval, Schedule, Put, storeVars
<1>2. Leave(c) => /\ pc'[c] = "idle" /\ op'[c].kind = "none" /\ exc'[c] = "none"
                  /\ \A q \in Proc : q # c => pc'[q] = pc[q] /\ op'[q] = op[q] /\ exc'[q] = exc[q]
  BY <1>0 DEF Leave, ThreadTypeOK, NoOp
<1> USE DEF Shape, Placed, SectionPc, Resting
<1>3. ASSUME NEW k \in {"submit", "start", "approve", "reject", "cancel", "bgapprove"},
             NEW l \in {"schedule", "acquire"}, NEW r, NEW j, NEW i, Begin(c, k, r, j, i, l),
             k = "submit" <=> l = "schedule", pc[c] = "idle"
      PROVE  /\ Shape(c)'
             /\ \A q \in Proc : q # c => pc'[q] = pc[q] /\ op'[q] = op[q] /\ exc'[q] = exc[q]
  <2>1. /\ pc'[c] = l /\ op'[c].kind = k /\ exc' = exc /\ exc[c] = "none"
        /\ \A q \in Proc : q # c => pc'[q] = pc[q] /\ op'[q] = op[q]
    BY <1>0, <1>3 DEF Begin, Goto, ThreadTypeOK
  <2> QED BY <1>0, <1>1, <1>3, <2>1
<1>4. ASSUME NEW r \in Run, NEW bg \in BOOLEAN, StartRun(c, r, bg)
      PROVE  /\ Shape(c)'
             /\ \A q \in Proc : q # c => pc'[q] = pc[q] /\ op'[q] = op[q] /\ exc'[q] = exc[q]
  <2>1. CASE Begin(c, "submit", r, NoJob, Len(items) + 1, "schedule")
    BY <1>3, <1>4, <2>1 DEF StartRun, Admitted
  <2>2. CASE Begin(c, "start", r, NoJob, Len(items) + 1, "acquire")
    BY <1>3, <1>4, <2>2 DEF StartRun, Admitted
  <2> QED BY <1>4, <2>1, <2>2 DEF StartRun
<1>5. ASSUME NEW kind \in {"approve", "reject", "cancel"}, NEW r \in Run, NEW j \in Job,
             JobRequest(c, kind, r, j)
      PROVE  /\ Shape(c)'
             /\ \A q \in Proc : q # c => pc'[q] = pc[q] /\ op'[q] = op[q] /\ exc'[q] = exc[q]
  <2>1. Begin(c, kind, r, j, Len(items) + 1, "acquire") /\ pc[c] = "idle"
    BY <1>5 DEF JobRequest, Admitted
  <2> QED BY <1>3, <2>1
<1>6. ASSUME NEW r \in Run, NEW j \in Job, BackgroundApproval(c, r, j)
      PROVE  /\ Shape(c)'
             /\ \A q \in Proc : q # c => pc'[q] = pc[q] /\ op'[q] = op[q] /\ exc'[q] = exc[q]
  <2>1. Begin(c, "bgapprove", r, j, 0, "acquire") /\ pc[c] = "idle"
    BY <1>6 DEF BackgroundApproval, Admitted
  <2> QED BY <1>3, <2>1
<1>7. CASE Schedule(c)
  <2>1. CASE Leave(c)
    BY <1>0, <1>1, <1>2, <2>1
  <2>2. CASE Continue(c, "put")
    <3>1. /\ pc'[c] = "put" /\ op' = op /\ exc' = exc /\ pc[c] = "schedule"
          /\ \A q \in Proc : q # c => pc'[q] = pc[q]
      BY <1>0, <1>7, <2>2 DEF Schedule, Continue, Goto, ThreadTypeOK
    <3> QED BY <1>0, <1>1, <3>1
  <2> QED BY <1>7, <2>1, <2>2 DEF Schedule
<1>8. CASE Put(c)
  BY <1>0, <1>1, <1>2, <1>8 DEF Put
<1> QED BY <1>1, <1>4, <1>5, <1>6, <1>7, <1>8 DEF Request

LEMMA ShapeInductive == TokenInv /\ ShapeInv /\ [Next]_vars => ShapeInv'
<1> SUFFICES ASSUME TokenInv, ShapeInv, [Next]_vars PROVE ShapeInv'
  OBVIOUS
<1>0. TypeInv /\ ThreadTypeOK /\ Worker \in Proc
  BY DEF TokenInv, TypeInv, TypeOK, Proc
<1>1. ASSUME NEW c \in Client, Request(c) \/ Schedule(c) \/ Put(c) PROVE ShapeInv'
  <2>1. c \in Proc /\ Shape(c)
    BY DEF Proc, ShapeInv
  <2> QED BY <1>0, <1>1, <2>1, ClientShape, ShapeStays DEF ShapeInv
<1>2. ASSUME NEW p \in Proc, NEW ok \in BOOLEAN, SectionStep(p, ok) PROVE ShapeInv'
  <2>1. Moves(p) /\ Reshapes(p)
    BY <1>0, <1>2, CoordinatorMoves, BodyMoves, SectionShape DEF SectionStep, ShapeInv
  <2> QED BY <2>1, ShapeStays DEF Moves, Reshapes, ShapeInv
<1>3. ASSUME NEW ok \in BOOLEAN, WorkerStep(ok) PROVE ShapeInv'
  <2>1. Shape(Worker)
    BY <1>0 DEF ShapeInv
  <2> QED BY <1>0, <1>3, <2>1, WorkerShape, WorkerStepOutside, ShapeStays DEF ShapeInv
<1>4. CASE Crash
  BY <1>4 DEF Crash, ShapeInv, Shape, Placed, NoOp, Resting
<1>5. CASE StartThread
  <2>1. /\ pc'[Worker] = "loop" /\ op' = op /\ exc' = exc /\ faults' = faults
        /\ \A q \in Proc : q # Worker => pc'[q] = pc[q]
    BY <1>0, <1>5 DEF StartThread, Continue, Goto, ThreadTypeOK, storeVars
  <2>2. pc[Worker] = "dead"
    BY <1>5 DEF StartThread, TokenInv, Quiet
  <2>3. Shape(Worker)'
    BY <1>0, <2>1, <2>2 DEF ShapeInv, Shape, Placed, Resting, SectionPc
  <2> QED BY <2>1, <2>3, ShapeStays DEF ShapeInv
<1>6. ASSUME UNCHANGED <<pc, op, exc, faults>> PROVE ShapeInv'
  BY <1>6 DEF ShapeInv, Shape
<1>7. CASE Start \/ Accept \/ Stop \/ Stopped \/ RecoverJobs \/ RecoverRun \/ UNCHANGED vars
  BY <1>6, <1>7 DEF Start, Accept, Stop, Stopped, RecoverJobs, RecoverRun, vars, storeVars, threadVars
<1>8. ASSUME NEW r \in Run, ScheduleRecovered(r) \/ ReleaseLocks(r) PROVE ShapeInv'
  BY <1>6, <1>8 DEF ScheduleRecovered, ReleaseLocks, threadVars
<1>9. ASSUME NEW i \in DOMAIN items, RecoverItem(i) PROVE ShapeInv'
  BY <1>6, <1>9 DEF RecoverItem, threadVars
<1> QED BY <1>1, <1>2, <1>3, <1>4, <1>5, <1>7, <1>8, <1>9 DEF Next, Startup

----------------------------------------------------------------------------
(* What the steps write.  A thread writes the records of its own run, and   *)
(* of the queue items only its own.                                         *)

LEMMA WithStatusRow ==
    ASSUME items \in Seq(ItemRow), NEW i, NEW s \in ItemStatus
    PROVE  /\ DOMAIN WithStatus(i, s) = DOMAIN items
           /\ \A k \in DOMAIN items :
                 /\ WithStatus(i, s)[k].run = items[k].run
                 /\ WithStatus(i, s)[k].bg = items[k].bg
                 /\ WithStatus(i, s)[k].status = IF k = i THEN s ELSE items[k].status
<1>1. items \in [1..Len(items) -> ItemRow] /\ Len(items) \in Nat
  BY LenProperties
<1> QED BY <1>1 DEF WithStatus, ItemRow

LEMMA RewrittenRow ==
    ASSUME items \in Seq(ItemRow), NEW r, NEW S, NEW s \in ItemStatus
    PROVE  /\ DOMAIN Rewritten(r, S, s) = DOMAIN items
           /\ \A k \in DOMAIN items :
                 /\ Rewritten(r, S, s)[k].run = items[k].run
                 /\ Rewritten(r, S, s)[k].bg = items[k].bg
                 /\ Rewritten(r, S, s)[k].status =
                       IF items[k].run = r /\ items[k].status \in S THEN s ELSE items[k].status
<1>1. items \in [1..Len(items) -> ItemRow] /\ Len(items) \in Nat
  BY LenProperties
<1> QED BY <1>1 DEF Rewritten, ItemRow

\* No step renames, moves or deletes a queue item.
RowsKept ==
    \A i \in DOMAIN items :
        i \in DOMAIN items' /\ items'[i].run = items[i].run /\ items'[i].bg = items[i].bg

\* The step rewrites the status of row i, or no row at all.
Writes(i) == items' = items \/ \E s \in ItemStatus : items' = WithStatus(i, s)

\* The step adds a row for run r.
Adds(r, bg) == items' = Append(items, NewItem(r, bg))

LEMMA WritesKeep ==
    ASSUME StoreTypeOK, NEW i, Writes(i)
    PROVE  /\ RowsKept /\ DOMAIN items' = DOMAIN items
           /\ \A k \in DOMAIN items : k # i => items'[k] = items[k]
<1>1. items \in Seq(ItemRow)
  BY DEF StoreTypeOK, ItemRow
<1>2. CASE items' = items
  BY <1>2 DEF RowsKept
<1>3. ASSUME NEW s \in ItemStatus, items' = WithStatus(i, s)
      PROVE  /\ RowsKept /\ DOMAIN items' = DOMAIN items
             /\ \A k \in DOMAIN items : k # i => items'[k] = items[k]
  <2>1. RowsKept /\ DOMAIN items' = DOMAIN items
    BY <1>1, <1>3, WithStatusRow DEF RowsKept
  <2>2. \A k \in DOMAIN items : k # i => items'[k] = items[k]
    BY <1>1, <1>3 DEF WithStatus
  <2> QED BY <2>1, <2>2
<1> QED BY <1>2, <1>3 DEF Writes

LEMMA AddsKeep ==
    ASSUME StoreTypeOK, NEW r \in Run, NEW bg \in BOOLEAN, Adds(r, bg)
    PROVE  /\ RowsKept /\ DOMAIN items' = DOMAIN items \cup {Len(items) + 1}
           /\ \A k \in DOMAIN items : items'[k] = items[k]
           /\ items'[Len(items) + 1] = NewItem(r, bg)
           /\ Len(items) + 1 \notin DOMAIN items /\ Len(items) + 1 # 0
<1>1. items \in Seq(ItemRow) /\ DOMAIN items = 1..Len(items) /\ Len(items) \in Nat
  BY LenProperties DEF StoreTypeOK, ItemRow
<1>2. /\ DOMAIN items' = DOMAIN items \cup {Len(items) + 1}
      /\ \A k \in DOMAIN items : items'[k] = items[k]
      /\ items'[Len(items) + 1] = NewItem(r, bg)
  BY <1>1, AppendItem DEF Adds
<1>3. RowsKept
  BY <1>2 DEF RowsKept
<1> QED BY <1>1, <1>2, <1>3

\* The step leaves the records of every run but r alone.
OnlyRun(r) ==
    \A x \in Run : x # r => run'[x] = run[x] /\ job'[x] = job[x] /\ lock'[x] = lock[x]

LEMMA SectionWrites ==
    ASSUME TypeInv, NEW p \in Proc, NEW ok \in BOOLEAN, CoordinatorStep(p, ok) \/ BodyStep(p, ok)
    PROVE  /\ OnlyRun(op[p].run)
           /\ \/ Writes(op[p].item) /\ pc[p] \in {"mark", "fail_item", "finish", "error_item"}
              \/ items' = items
              \/ Adds(op[p].run, TRUE) /\ pc[p] = "enqueue"
<1>0. /\ StoreTypeOK /\ ThreadTypeOK
      /\ pc[p] \in SectionPc => op[p].run \in Run /\ run[op[p].run] \in ItemStatus
  BY WorkingRun DEF TypeInv, TypeOK, ItemStatus
<1>1. CASE CoordinatorStep(p, ok)
  <2>1. run' = run /\ job' = job /\ \A x \in Run : x # op[p].run => lock'[x] = lock[x]
    BY <1>0, <1>1 DEF CoordinatorStep, NotQueued, AcquireLock, AcquireFailed, MarkRunning, FailItem,
                FinishItem, ErrorItem, ReleaseLock, storeVars, StoreTypeOK
  <2>2. CASE MarkRunning(p, ok) \/ FailItem(p, ok) \/ ErrorItem(p, ok) \/ FinishItem(p, ok)
    <3>1. {"running", "failed"} \subseteq ItemStatus
      BY DEF ItemStatus, RunStatus, LiveRun, TerminalRun
    <3>2. pc[p] \in {"mark", "fail_item", "finish", "error_item"}
      BY <2>2 DEF MarkRunning, FailItem, ErrorItem, FinishItem
    <3>3. run[op[p].run] \in ItemStatus
      BY <1>0, <3>2 DEF SectionPc
    <3>4. Writes(op[p].item)
      BY <2>2, <3>1, <3>3 DEF MarkRunning, FailItem, ErrorItem, FinishItem, Writes
    <3> QED BY <2>1, <3>2, <3>4 DEF OnlyRun
  <2>3. CASE NotQueued(p) \/ AcquireLock(p) \/ AcquireFailed(p, ok) \/ ReleaseLock(p, ok)
    BY <2>1, <2>3 DEF NotQueued, AcquireLock, AcquireFailed, ReleaseLock, storeVars, OnlyRun
  <2> QED BY <1>1, <2>2, <2>3 DEF CoordinatorStep
<1>2. CASE BodyStep(p, ok)
  <2>1. lock' = lock
    BY <1>2, BodyKeepsLock
  <2>2. \A x \in Run : x # op[p].run => run'[x] = run[x] /\ job'[x] = job[x]
    <3> USE DEF SetRun, SetJob, CloseJobs, StoreTypeOK
    <3>1. CASE Load(p, ok) \/ EnqueueApproved(p, ok) \/ Activate(p, ok) \/ RunnerUnavailable(p)
      BY <1>0, <3>1 DEF Load, EnqueueApproved, Activate, RunnerUnavailable, storeVars
    <3>2. CASE ApplyApproval(p, ok)
      BY <1>0, <3>2 DEF ApplyApproval
    <3>3. CASE TerminalAction(p, ok)
      BY <1>0, <3>3 DEF TerminalAction
    <3>4. ASSUME NEW j \in Job, RequestApproval(p, j) \/ CommitApproved(p, j)
          PROVE  \A x \in Run : x # op[p].run => run'[x] = run[x] /\ job'[x] = job[x]
      BY <1>0, <3>4 DEF RequestApproval, CommitApproved
    <3>5. CASE WaitRun(p, ok) \/ CompleteRun(p) \/ FailRun(p) \/ SegmentInterrupted(p)
      BY <1>0, <3>5 DEF WaitRun, CompleteRun, FailRun, SegmentInterrupted
    <3>6. CASE CloseRuntimeState(p, ok)
      BY <1>0, <3>6 DEF CloseRuntimeState
    <3> QED BY <1>2, <3>1, <3>2, <3>3, <3>4, <3>5, <3>6 DEF BodyStep
  <2>3. items' = items \/ (Adds(op[p].run, TRUE) /\ pc[p] = "enqueue")
    BY <1>2 DEF BodyStep, Load, ApplyApproval, TerminalAction, EnqueueApproved, Activate,
               RunnerUnavailable, RequestApproval, CommitApproved, WaitRun, CompleteRun, FailRun,
               CloseRuntimeState, SegmentInterrupted, storeVars, Adds
  <2> QED BY <2>1, <2>2, <2>3 DEF OnlyRun
<1> QED BY <1>1, <1>2

LEMMA WorkerWrites ==
    ASSUME TypeInv, NEW ok \in BOOLEAN, WorkerStep(ok)
    PROVE  OnlyRun(op[Worker].run) /\ Writes(op[Worker].item)
<1>0. /\ StoreTypeOK /\ Worker \in Proc
      /\ pc[Worker] \notin Resting => op[Worker].run \in Run /\ run[op[Worker].run] \in ItemStatus
  BY DEF TypeInv, TypeOK, StoreTypeOK, ThreadsExist, Exists, Proc, ItemStatus
<1>1. {"running", "failed", "queued"} \subseteq ItemStatus
  BY DEF ItemStatus, RunStatus, LiveRun, TerminalRun
<1> USE DEF OnlyRun, Writes, SetRun, CloseJobs, StoreTypeOK
<1>2. CASE RequeueSegment(ok)
  BY <1>0, <1>1, <1>2 DEF RequeueSegment
<1>3. CASE ConfigurationMissing(ok)
  BY <1>0, <1>1, <1>3 DEF ConfigurationMissing
<1>4. CASE Terminalize(ok)
  BY <1>0, <1>1, <1>4 DEF Terminalize
<1>5. CASE ReleaseOrphans(ok)
  BY <1>0, <1>5 DEF ReleaseOrphans
<1>6. CASE Reconcile(ok)
  <2>1. run[op[Worker].run] \in ItemStatus
    BY <1>0, <1>6 DEF Reconcile, Resting
  <2> QED BY <1>6, <2>1 DEF Reconcile
<1>7. CASE LoopTest \/ GetWake \/ ReadWake(ok) \/ PutBack \/ Settle
  BY <1>7 DEF LoopTest, GetWake, ReadWake, PutBack, Settle, storeVars
<1> QED BY <1>2, <1>3, <1>4, <1>5, <1>6, <1>7 DEF WorkerStep

----------------------------------------------------------------------------
(* What names a queue item.  Every wake item names a background segment of  *)
(* its run, every foreground request an item of its own; and a run that     *)
(* does not exist yet has left no trace.                                    *)

Background(k) == k \in {"submit", "bgapprove", "wake"}

\* Item i is a row of run r, as a request of kind k wants it.
Names(i, r, k) == i \in DOMAIN items /\ items[i].run = r /\ (items[i].bg <=> Background(k))

\* A background approval has no item before "enqueue".
Itemless(p) == op[p].kind = "bgapprove" /\ op[p].item = 0 /\ pc[p] \notin {"schedule", "put"}

Named(p) == Names(op[p].item, op[p].run, op[p].kind) \/ Itemless(p)

ThreadNames  == \A p \in Proc : pc[p] \notin Resting => Named(p)
QueueNames   == \A k \in DOMAIN queue :
                   queue[k] = Sentinel \/ Names(queue[k].item, queue[k].run, "wake")
PendingNames == \A r \in Run : pending[r] # 0 => Names(pending[r], r, "wake")
NamesInv     == ThreadNames /\ QueueNames /\ PendingNames

ExistInv ==
    \A r \in Run : run[r] = "absent" =>
        /\ lock[r] = NoProc
        /\ \A j \in Job : job[r][j] = "none"
        /\ \A i \in DOMAIN items : items[i].run # r

NameInv == TokenInv /\ ShapeInv /\ NamesInv /\ ExistInv

\* Item 0 names nothing.
LEMMA NamedIsPositive ==
    ASSUME TypeInv, NEW i, NEW r, NEW k, Names(i, r, k)
    PROVE  i # 0 /\ i \in Nat
<1>1. DOMAIN items = 1..Len(items) /\ Len(items) \in Nat
  BY LenProperties DEF TypeInv, TypeOK, StoreTypeOK
<1> QED BY <1>1 DEF Names

\* What was named stays named.
LEMMA NamesStay ==
    ASSUME RowsKept
    PROVE  /\ \A i, r, k : Names(i, r, k) =>
                 i \in DOMAIN items' /\ items'[i].run = r /\ (items'[i].bg <=> Background(k))
           /\ QueueNames => \A k \in DOMAIN queue :
                 queue[k] = Sentinel \/
                 (/\ queue[k].item \in DOMAIN items' /\ items'[queue[k].item].run = queue[k].run
                  /\ items'[queue[k].item].bg)
           /\ PendingNames /\ pending' = pending => PendingNames'
           /\ QueueNames /\ queue' = queue => QueueNames'
           /\ \A p \in Proc : Named(p) /\ pc'[p] = pc[p] /\ op'[p] = op[p] => Named(p)'
<1>1. \A i, r, k : Names(i, r, k) =>
                 i \in DOMAIN items' /\ items'[i].run = r /\ (items'[i].bg <=> Background(k))
  BY DEF RowsKept, Names
<1>2. QueueNames => \A k \in DOMAIN queue :
                 queue[k] = Sentinel \/
                 (/\ queue[k].item \in DOMAIN items' /\ items'[queue[k].item].run = queue[k].run
                  /\ items'[queue[k].item].bg)
  BY <1>1 DEF QueueNames, Background
<1>3. PendingNames /\ pending' = pending => PendingNames'
  BY <1>1 DEF PendingNames, Names
<1>4. QueueNames /\ queue' = queue => QueueNames'
  BY <1>1 DEF QueueNames, Names, Sentinel, Wake
<1>5. ASSUME NEW p \in Proc, Named(p), pc'[p] = pc[p], op'[p] = op[p] PROVE Named(p)'
  <2>1. CASE Itemless(p)
    BY <1>5, <2>1 DEF Named, Itemless
  <2>2. CASE Names(op[p].item, op[p].run, op[p].kind)
    BY <1>1, <1>5, <2>2 DEF Named, Names
  <2> QED BY <1>5, <2>1, <2>2 DEF Named
<1> QED BY <1>1, <1>2, <1>3, <1>4, <1>5

\* A wake item that names a row of its run joins the queue.
LEMMA QueueNamesGrow ==
    ASSUME TypeInv, RowsKept, QueueNames, NEW i \in Nat, NEW r, Exists(r),
           queue' = Append(queue, Wake(i, r)),
           i \in DOMAIN items', items'[i].run = r, items'[i].bg
    PROVE  QueueNames'
<1>1. /\ DOMAIN queue' = DOMAIN queue \cup {Len(queue) + 1}
      /\ \A k \in DOMAIN queue : queue'[k] = queue[k]
      /\ queue'[Len(queue) + 1] = Wake(i, r)
  BY AppendWake
<1>2. Wake(i, r).item = i /\ Wake(i, r).run = r
  BY DEF Wake
<1> SUFFICES ASSUME NEW k \in DOMAIN queue'
             PROVE  queue'[k] = Sentinel \/
                    (/\ queue'[k].item \in DOMAIN items' /\ items'[queue'[k].item].run = queue'[k].run
                     /\ items'[queue'[k].item].bg)
  BY DEF QueueNames, Names, Background, Sentinel, Wake
<1>3. CASE k \in DOMAIN queue
  BY <1>1, <1>3, NamesStay
<1>4. CASE k = Len(queue) + 1
  BY <1>1, <1>2, <1>4
<1> QED BY <1>1, <1>3, <1>4

\* The active segment an approval reuses, or the one it creates.
LEMMA EnqueuedItem ==
    ASSUME TypeInv, NEW r \in Run, NEW S,
           items' = IF BackgroundItems(r, S) = {} THEN Append(items, NewItem(r, TRUE)) ELSE items
    PROVE  LET i == IF BackgroundItems(r, S) = {} THEN Len(items) + 1 ELSE Latest(BackgroundItems(r, S))
           IN  /\ RowsKept
               /\ i \in DOMAIN items' /\ items'[i].run = r /\ items'[i].bg
               /\ items'[i].status \in S \cup {"queued"}
               /\ i \in Nat
               /\ i \in BackgroundItems(r, S) \/ (BackgroundItems(r, S) = {} /\ i \notin DOMAIN items)
<1> DEFINE A == BackgroundItems(r, S)
<1>0. /\ StoreTypeOK /\ DOMAIN items = 1..Len(items) /\ Len(items) \in Nat
  BY LenProperties DEF TypeInv, TypeOK, StoreTypeOK
<1>1. A \in SUBSET (1..Len(items))
  BY <1>0 DEF BackgroundItems
<1>2. CASE A = {}
  <2>1. Adds(r, TRUE)
    BY <1>2 DEF Adds
  <2>2. /\ RowsKept /\ Len(items) + 1 \in DOMAIN items' /\ items'[Len(items) + 1] = NewItem(r, TRUE)
        /\ Len(items) + 1 \notin DOMAIN items
    BY <1>0, <2>1, AddsKeep
  <2> QED BY <1>0, <1>2, <2>2 DEF NewItem
<1>3. CASE A # {}
  <2>1. Latest(A) \in A
    <3> HIDE DEF A
    <3> QED BY <1>0, <1>1, <1>3, LatestIsMember
  <2>2. items' = items /\ RowsKept
    BY <1>3 DEF RowsKept
  <2>3. Latest(A) \in Nat
    <3> HIDE DEF A
    <3>1. \A x \in A : x \in Nat
      BY <1>0, <1>1
    <3> QED BY <2>1, <3>1
  <2>4. /\ Latest(A) \in DOMAIN items /\ items[Latest(A)].run = r /\ items[Latest(A)].bg
        /\ items[Latest(A)].status \in S
    BY <2>1 DEF BackgroundItems
  <2> HIDE DEF A
  <2> QED BY <1>3, <2>1, <2>2, <2>3, <2>4 DEF A
<1> HIDE DEF A
<1> QED BY <1>2, <1>3

\* A thread comes to "schedule" only from a release without exception, with an item.
LEMMA SectionSchedules ==
    ASSUME TypeInv, NEW p \in Proc, Shape(p), NEW ok \in BOOLEAN,
           CoordinatorStep(p, ok) \/ BodyStep(p, ok), pc'[p] = "schedule"
    PROVE  pc[p] = "release" /\ op[p].item # 0 /\ exc[p] = "none" /\ op[p].kind = "bgapprove"
<1>0. ThreadTypeOK
  BY DEF TypeInv, TypeOK
<1>1. \A l : Continue(p, l) => l = "schedule"
  BY <1>0 DEF Continue, Goto, ThreadTypeOK
<1>2. \A l, e : Raise(p, e, l) => l = "schedule"
  BY <1>0 DEF Raise, Goto, ThreadTypeOK
<1>3. \A e : Return(p, e) => e = "none" /\ op[p].item # 0 /\ op[p].kind = "bgapprove"
  BY <1>0 DEF Return, Leave, Goto, ThreadTypeOK
<1>4. Handler(p) # "schedule" /\ Decision(op[p].kind, op[p].run, op[p].job) # "schedule"
  BY DEF Handler, Decision
<1>5. CASE CoordinatorStep(p, ok)
  <2>1. ~(NotQueued(p) \/ AcquireLock(p) \/ AcquireFailed(p, ok))
    BY <1>1, <1>2, <1>3 DEF NotQueued, AcquireLock, AcquireFailed
  <2>2. ~(MarkRunning(p, ok) \/ FinishItem(p, ok) \/ ErrorItem(p, ok))
    BY <1>1, <1>2, <1>3 DEF MarkRunning, FinishItem, ErrorItem
  <2>3. ReleaseLock(p, ok) =>
          pc[p] = "release" /\ op[p].item # 0 /\ exc[p] = "none" /\ op[p].kind = "bgapprove"
    BY <1>3 DEF ReleaseLock
  <2>4. ~FailItem(p, ok)
    BY <1>1, <1>3 DEF FailItem, Shape
  <2> QED BY <1>5, <2>1, <2>2, <2>3, <2>4 DEF CoordinatorStep
<1>6. CASE BodyStep(p, ok)
  <2>1. ~EnqueueApproved(p, ok)
    BY <1>0, <1>2 DEF EnqueueApproved, Goto, ThreadTypeOK
  <2>2. ~(Load(p, ok) \/ ApplyApproval(p, ok) \/ TerminalAction(p, ok) \/ Activate(p, ok))
    BY <1>1, <1>2, <1>4 DEF Load, ApplyApproval, TerminalAction, Activate
  <2>3. ~(RunnerUnavailable(p) \/ (\E j \in Job : RequestApproval(p, j) \/ CommitApproved(p, j)))
    BY <1>1, <1>2 DEF RunnerUnavailable, RequestApproval, CommitApproved
  <2>4. ~(WaitRun(p, ok) \/ CompleteRun(p) \/ FailRun(p) \/ CloseRuntimeState(p, ok) \/ SegmentInterrupted(p))
    BY <1>1, <1>2 DEF WaitRun, CompleteRun, FailRun, CloseRuntimeState, SegmentInterrupted
  <2> QED BY <1>6, <2>1, <2>2, <2>3, <2>4 DEF BodyStep
<1> QED BY <1>5, <1>6

\* The transaction of _prepare_background_approval that goes through.
Enqueues(p) ==
    LET r == op[p].run
        A == BackgroundItems(r, ActiveItem)
    IN  /\ pc[p] = "enqueue"
        /\ run[r] \in {"waiting", "queued"}
        /\ run' = [run EXCEPT ![r] = "queued"]
        /\ items' = IF A = {} THEN Append(items, NewItem(r, TRUE)) ELSE items
        /\ op' = [op EXCEPT ![p].item = IF A = {} THEN Len(items) + 1 ELSE Latest(A)]
        /\ pc' = [pc EXCEPT ![p] = "release"]
        /\ UNCHANGED <<exc, job, lock>>

\* Every other step of the section keeps its request until it leaves.
LEMMA SectionKeepsOp ==
    ASSUME TypeInv, NEW p \in Proc, NEW ok \in BOOLEAN, CoordinatorStep(p, ok) \/ BodyStep(p, ok)
    PROVE  \/ op' = op /\ (items' = items \/ pc[p] # "enqueue")
           \/ pc'[p] = "idle" /\ op'[p] = NoOp /\ pc[p] # "enqueue"
           \/ Enqueues(p)
<1>0. ThreadTypeOK
  BY DEF TypeInv, TypeOK
<1>1. \A l : Continue(p, l) => op' = op
  BY DEF Continue
<1>2. \A l, e : Raise(p, e, l) => op' = op
  BY DEF Raise
<1>3. \A e : Return(p, e) => op' = op \/ (pc'[p] = "idle" /\ op'[p] = NoOp)
  BY <1>0 DEF Return, Leave, ThreadTypeOK
<1>4. CASE CoordinatorStep(p, ok)
  <2>1. pc[p] # "enqueue"
    BY <1>4 DEF CoordinatorStep, NotQueued, AcquireLock, AcquireFailed, MarkRunning, FailItem,
                FinishItem, ErrorItem, ReleaseLock
  <2>2. op' = op \/ (pc'[p] = "idle" /\ op'[p] = NoOp)
    <3>1. CASE NotQueued(p) \/ AcquireLock(p) \/ AcquireFailed(p, ok) \/ ReleaseLock(p, ok)
      BY <1>1, <1>2, <1>3, <3>1 DEF NotQueued, AcquireLock, AcquireFailed, ReleaseLock
    <3>2. CASE MarkRunning(p, ok) \/ FailItem(p, ok) \/ FinishItem(p, ok) \/ ErrorItem(p, ok)
      BY <1>1, <1>2, <1>3, <3>2 DEF MarkRunning, FailItem, FinishItem, ErrorItem
    <3> QED BY <1>4, <3>1, <3>2 DEF CoordinatorStep
  <2> QED BY <2>1, <2>2
<1>5. CASE EnqueueApproved(p, ok)
  BY <1>2, <1>5 DEF EnqueueApproved, Enqueues, SetRun, Goto
<1>6. CASE BodyStep(p, ok) /\ ~EnqueueApproved(p, ok)
  <2>1. pc[p] # "enqueue"
    BY <1>6 DEF BodyStep, Load, ApplyApproval, TerminalAction, Activate,
               RunnerUnavailable, RequestApproval, CommitApproved, WaitRun, CompleteRun, FailRun,
               CloseRuntimeState, SegmentInterrupted
  <2>2. CASE Load(p, ok) \/ ApplyApproval(p, ok) \/ TerminalAction(p, ok) \/ Activate(p, ok)
    BY <1>1, <1>2, <2>1, <2>2 DEF Load, ApplyApproval, TerminalAction, Activate
  <2>3. CASE RunnerUnavailable(p) \/ (\E j \in Job : RequestApproval(p, j) \/ CommitApproved(p, j))
    BY <1>1, <1>2, <2>1, <2>3 DEF RunnerUnavailable, RequestApproval, CommitApproved
  <2>4. CASE WaitRun(p, ok) \/ CompleteRun(p) \/ FailRun(p) \/ CloseRuntimeState(p, ok) \/ SegmentInterrupted(p)
    BY <1>1, <1>2, <2>1, <2>4 DEF WaitRun, CompleteRun, FailRun, CloseRuntimeState, SegmentInterrupted
  <2> QED BY <1>6, <2>2, <2>3, <2>4 DEF BodyStep
<1> QED BY <1>4, <1>5, <1>6

LEMMA SectionNames ==
    ASSUME NameInv, NEW p \in Proc, NEW ok \in BOOLEAN, SectionStep(p, ok)
    PROVE  RowsKept /\ NamesInv' /\ ExistInv'
<1>0. /\ TypeInv /\ StoreTypeOK /\ ThreadTypeOK /\ Shape(p) /\ UNCHANGED <<queue, pending>>
      /\ CoordinatorStep(p, ok) \/ BodyStep(p, ok)
  BY DEF NameInv, TokenInv, TypeInv, TypeOK, ShapeInv, SectionStep, memVars
<1>1. Moves(p) /\ Reshapes(p) /\ Keeps
  BY <1>0, CoordinatorMoves, BodyMoves, SectionShape
<1>2. op[p].run \in Run /\ pc[p] \in SectionPc /\ run[op[p].run] # "absent"
  BY <1>0, <1>1, WorkingRun DEF Moves, RunStatus, LiveRun, TerminalRun
<1>3. RowsKept
  BY <1>0, <1>2, SectionWrites, WritesKeep, AddsKeep DEF RowsKept
<1>4. pc'[p] \notin Resting => Named(p)'
  <2>1. CASE op' = op
    <3>1. Named(p)
      BY <1>2 DEF NameInv, NamesInv, ThreadNames, SectionPc, Resting
    <3>2. CASE Itemless(p)
      <4>1. pc'[p] # "put"
        BY <1>1, <1>2 DEF Moves, SectionPc
      <4>2. pc'[p] # "schedule"
        BY <1>0, <3>2, SectionSchedules DEF Itemless
      <4> QED BY <2>1, <3>2, <4>1, <4>2 DEF Itemless, Named
    <3>3. CASE Names(op[p].item, op[p].run, op[p].kind)
      BY <1>3, <2>1, <3>3, NamesStay DEF Named, Names
    <3> QED BY <3>1, <3>2, <3>3 DEF Named
  <2>2. CASE Enqueues(p)
    <3> DEFINE i == IF BackgroundItems(op[p].run, ActiveItem) = {} THEN Len(items) + 1
                    ELSE Latest(BackgroundItems(op[p].run, ActiveItem))
    <3>1. op[p].kind = "bgapprove"
      BY <1>0, <2>2 DEF Enqueues, Shape, Placed, SectionPc, Resting, ThreadTypeOK, Kind
    <3>2. i \in DOMAIN items' /\ items'[i].run = op[p].run /\ items'[i].bg
      BY <1>0, <1>2, <2>2, EnqueuedItem DEF Enqueues
    <3>3. op'[p].item = i /\ op'[p].run = op[p].run /\ op'[p].kind = op[p].kind
      BY <1>0, <2>2 DEF Enqueues, ThreadTypeOK
    <3> HIDE DEF i
    <3> QED BY <3>1, <3>2, <3>3 DEF Named, Names, Background
  <2> QED BY <1>0, <2>1, <2>2, SectionKeepsOp DEF Resting
<1>5. NamesInv'
  <2>1. ASSUME NEW q \in Proc, pc'[q] \notin Resting, q # p PROVE Named(q)'
    <3>1. pc'[q] = pc[q] /\ op'[q] = op[q]
      BY <1>1, <2>1 DEF Moves
    <3>2. Named(q)
      BY <2>1, <3>1 DEF NameInv, NamesInv, ThreadNames
    <3> QED BY <1>3, <3>1, <3>2, NamesStay
  <2>2. QueueNames' /\ PendingNames'
    BY <1>0, <1>3, NamesStay DEF NameInv, NamesInv
  <2> QED BY <1>4, <2>1, <2>2 DEF NamesInv, ThreadNames
<1>6. ExistInv'
  <2> SUFFICES ASSUME NEW r \in Run, run'[r] = "absent"
               PROVE  /\ lock'[r] = NoProc
                      /\ \A j \in Job : job'[r][j] = "none"
                      /\ \A i \in DOMAIN items' : items'[i].run # r
    BY DEF ExistInv
  <2>1. r # op[p].run
    BY <1>1, <1>2 DEF Keeps
  <2>2. OnlyRun(op[p].run) /\ run[r] = "absent"
    BY <1>0, <1>1, SectionWrites DEF Keeps
  <2>3. lock'[r] = NoProc /\ \A j \in Job : job'[r][j] = "none"
    BY <2>1, <2>2 DEF OnlyRun, NameInv, ExistInv
  <2>4. \A i \in DOMAIN items : items[i].run # r
    BY <2>2 DEF NameInv, ExistInv
  <2>5. CASE Writes(op[p].item) \/ items' = items
    <3>1. RowsKept /\ DOMAIN items' = DOMAIN items
      BY <1>0, <2>5, WritesKeep DEF RowsKept
    <3> QED BY <2>3, <2>4, <3>1 DEF RowsKept
  <2>6. CASE Adds(op[p].run, TRUE)
    <3>1. /\ DOMAIN items' = DOMAIN items \cup {Len(items) + 1}
          /\ \A k \in DOMAIN items : items'[k] = items[k]
          /\ items'[Len(items) + 1] = NewItem(op[p].run, TRUE)
      BY <1>0, <1>2, <2>6, AddsKeep
    <3> QED BY <2>1, <2>3, <2>4, <3>1 DEF NewItem
  <2> QED BY <1>0, <2>3, <2>5, <2>6, SectionWrites
<1> QED BY <1>3, <1>5, <1>6

\* A step that writes the records of one existing run only.
LEMMA ExistStays ==
    ASSUME ExistInv, NEW x, OnlyRun(x), x \in Run => run'[x] # "absent",
           \A i \in DOMAIN items' :
              (i \in DOMAIN items /\ items'[i].run = items[i].run) \/ items'[i].run = x
    PROVE  ExistInv'
  BY DEF ExistInv, OnlyRun

\* Taking the first wake item.
LEMMA TailWake ==
    ASSUME TypeInv, queue # << >>
    PROVE  /\ 1 \in DOMAIN queue /\ Head(queue) = queue[1]
           /\ \A k \in DOMAIN Tail(queue) : k + 1 \in DOMAIN queue /\ Tail(queue)[k] = queue[k + 1]
           /\ \A k \in DOMAIN queue : k = 1 \/ (k - 1 \in DOMAIN Tail(queue) /\ Tail(queue)[k - 1] = queue[k])
<1>1. queue \in Seq(WakeRow)
  BY DEF TypeInv, TypeOK, WakeRow
<1> HIDE DEF WakeRow
<1>2. Len(queue) \in Nat /\ DOMAIN queue = 1..Len(queue) /\ Len(queue) # 0
  BY <1>1, LenProperties, EmptySeq
<1>3. /\ Tail(queue) \in Seq(WakeRow) /\ Len(Tail(queue)) = Len(queue) - 1
      /\ \A k \in 1..Len(Tail(queue)) : Tail(queue)[k] = queue[k + 1]
  BY <1>1, HeadTailProperties
<1>4. DOMAIN Tail(queue) = 1..Len(Tail(queue))
  BY <1>3, LenProperties
<1>5. Head(queue) = queue[1]
  BY <1>1, <1>2
<1>6. \A k \in 1..Len(queue) : k = 1 \/ (k - 1 \in 1..(Len(queue) - 1) /\ (k - 1) + 1 = k)
  BY <1>2
<1> QED BY <1>2, <1>3, <1>4, <1>5, <1>6

\* The worker takes a wake item, drops the one it has, or goes on with it.
LEMMA WorkerKeepsOp ==
    ASSUME TypeInv, NEW ok \in BOOLEAN, WorkerStep(ok)
    PROVE  /\ \/ GetWake
              \/ Settle
              \/ PutBack /\ phase # "stopping"
              \/ /\ op' = op /\ UNCHANGED <<queue, pending, scheduled>>
                 /\ pc[Worker] # "settle" /\ pc[Worker] # "get"
                 /\ pc[Worker] \notin Resting \/ pc'[Worker] \in Resting
           /\ todo' = todo
<1>0. ThreadTypeOK /\ Worker \in Proc
  BY DEF TypeInv, TypeOK, Proc
<1>1. \A l : Continue(Worker, l) => op' = op /\ pc'[Worker] = l
  BY <1>0 DEF Continue, Goto, ThreadTypeOK
<1> USE DEF Resting, memVars
<1>2. CASE LoopTest
  BY <1>1, <1>2 DEF LoopTest
<1>3. CASE ReadWake(ok) \/ Reconcile(ok) \/ ReleaseOrphans(ok)
  BY <1>1, <1>3 DEF ReadWake, Reconcile, ReleaseOrphans
<1>4. CASE RequeueSegment(ok) \/ ConfigurationMissing(ok) \/ Terminalize(ok)
  BY <1>1, <1>4 DEF RequeueSegment, ConfigurationMissing, Terminalize
<1>5. CASE PutBack
  BY <1>1, <1>5 DEF PutBack
<1>6. CASE GetWake \/ Settle
  BY <1>6 DEF GetWake, Settle
<1> QED BY <1>2, <1>3, <1>4, <1>5, <1>6 DEF WorkerStep

LEMMA WorkerNames ==
    ASSUME NameInv, NEW ok \in BOOLEAN, WorkerStep(ok)
    PROVE  RowsKept /\ NamesInv' /\ ExistInv'
<1>0. /\ TypeInv /\ StoreTypeOK /\ ThreadTypeOK /\ Worker \in Proc
      /\ NamesInv /\ ExistInv /\ Shape(Worker)
  BY DEF NameInv, TokenInv, TypeInv, TypeOK, ShapeInv, Proc
<1>1. OnlyRun(op[Worker].run) /\ Writes(op[Worker].item)
  BY <1>0, WorkerWrites
<1>2. RowsKept /\ DOMAIN items' = DOMAIN items
  BY <1>0, <1>1, WritesKeep
<1>3. ExistInv'
  <2>1. op[Worker].run \in Run => run'[op[Worker].run] # "absent"
    <3>1. op[Worker].run \in Run => run[op[Worker].run] # "absent"
      BY <1>0 DEF TypeInv, ThreadsExist, Exists
    <3>2. run' = run \/ \E s \in {"queued", "failed"} : run' = [run EXCEPT ![op[Worker].run] = s]
      BY DEF WorkerStep, LoopTest, GetWake, ReadWake, RequeueSegment, ReleaseOrphans, Reconcile,
             ConfigurationMissing, Terminalize, PutBack, Settle, storeVars, SetRun
    <3> QED BY <1>0, <3>1, <3>2 DEF StoreTypeOK
  <2> QED BY <1>0, <1>1, <1>2, <2>1, ExistStays DEF RowsKept
<1>4. ASSUME NEW q \in Proc, q # Worker, pc'[q] \notin Resting PROVE Named(q)'
  <2>1. pc'[q] = pc[q] /\ op'[q] = op[q]
    BY <1>0, <1>4, WorkerStepOutside
  <2> QED BY <1>0, <1>2, <1>4, <2>1, NamesStay DEF NamesInv, ThreadNames
<1>5. pc[Worker] \notin Resting =>
        Names(op[Worker].item, op[Worker].run, "wake") /\ op[Worker].kind = "wake"
  BY <1>0 DEF NamesInv, ThreadNames, Named, Itemless, Shape, Placed
<1>6. CASE GetWake
  <2>1. /\ 1 \in DOMAIN queue /\ Head(queue) = queue[1] /\ queue' = Tail(queue) /\ pending' = pending
        /\ \A k \in DOMAIN queue' : k + 1 \in DOMAIN queue /\ queue'[k] = queue[k + 1]
    BY <1>0, <1>6, TailWake DEF GetWake
  <2>2. QueueNames'
    <3> SUFFICES ASSUME NEW k \in DOMAIN queue'
                 PROVE  queue'[k] = Sentinel \/
                        (/\ queue'[k].item \in DOMAIN items' /\ items'[queue'[k].item].run = queue'[k].run
                         /\ items'[queue'[k].item].bg)
      BY DEF QueueNames, Names, Background, Sentinel, Wake
    <3> QED BY <1>0, <1>2, <2>1, NamesStay DEF NamesInv
  <2>3. PendingNames'
    BY <1>0, <1>2, <2>1, NamesStay DEF NamesInv
  <2>4. pc'[Worker] \notin Resting => Named(Worker)'
    <3>1. CASE Continue(Worker, "dead")
      BY <1>0, <3>1 DEF Continue, Goto, ThreadTypeOK, Resting
    <3>2. CASE /\ Head(queue) # Sentinel
               /\ Begin(Worker, "wake", Head(queue).run, NoJob, Head(queue).item, "wake")
      <4>1. /\ op'[Worker].kind = "wake" /\ op'[Worker].run = queue[1].run
            /\ op'[Worker].item = queue[1].item
        BY <1>0, <2>1, <3>2 DEF Begin, ThreadTypeOK
      <4>2. /\ queue[1].item \in DOMAIN items' /\ items'[queue[1].item].run = queue[1].run
            /\ items'[queue[1].item].bg
        BY <1>0, <1>2, <2>1, <3>2, NamesStay DEF NamesInv
      <4> QED BY <4>1, <4>2 DEF Named, Names, Background
    <3> QED BY <1>6, <3>1, <3>2 DEF GetWake
  <2> QED BY <1>2, <1>3, <1>4, <2>2, <2>3, <2>4 DEF NamesInv, ThreadNames
<1>7. CASE op' = op /\ UNCHANGED <<queue, pending>> /\ (pc[Worker] \notin Resting \/ pc'[Worker] \in Resting)
  <2>1. QueueNames' /\ PendingNames'
    BY <1>0, <1>2, <1>7, NamesStay DEF NamesInv
  <2>2. pc'[Worker] \notin Resting => Named(Worker)'
    BY <1>2, <1>5, <1>7, NamesStay DEF Named, Names
  <2> QED BY <1>2, <1>3, <1>4, <2>1, <2>2 DEF NamesInv, ThreadNames
<1>8. CASE Settle \/ (PutBack /\ phase # "stopping")
  <2>0. /\ pc'[Worker] \in Resting /\ pc[Worker] \notin Resting /\ items' = items
        /\ op[Worker].run \in Run /\ Exists(op[Worker].run) /\ op[Worker].item \in Nat
    BY <1>0, <1>8 DEF Settle, PutBack, ThreadTypeOK, Resting, storeVars, TypeInv, ThreadsExist
  <2>1. QueueNames'
    <3>1. CASE queue' = queue
      BY <1>0, <1>2, <3>1, NamesStay DEF NamesInv
    <3>2. CASE queue' = Append(queue, Wake(op[Worker].item, op[Worker].run))
      BY <1>0, <1>2, <1>5, <2>0, <3>2, QueueNamesGrow DEF Names, Background, NamesInv
    <3>3. CASE /\ pending[op[Worker].run] # 0
               /\ queue' = Append(queue, Wake(pending[op[Worker].run], op[Worker].run))
      <4>1. pending[op[Worker].run] \in Nat
        BY <1>0, <2>0 DEF TypeInv, TypeOK
      <4>2. Names(pending[op[Worker].run], op[Worker].run, "wake")
        BY <1>0, <2>0, <3>3 DEF NamesInv, PendingNames
      <4> QED BY <1>0, <1>2, <2>0, <3>3, <4>1, <4>2, QueueNamesGrow DEF Names, Background, NamesInv
    <3> QED BY <1>8, <3>1, <3>2, <3>3 DEF Settle, PutBack
  <2>2. PendingNames'
    <3>1. pending' = pending \/ pending' = [pending EXCEPT ![op[Worker].run] = 0]
      BY <1>8 DEF Settle, PutBack
    <3>2. \A r \in Run : pending'[r] # 0 => pending[r] = pending'[r]
      BY <1>0, <3>1 DEF TypeInv, TypeOK
    <3> QED BY <1>0, <2>0, <3>2 DEF NamesInv, PendingNames, Names
  <2> QED BY <1>2, <1>3, <1>4, <2>0, <2>1, <2>2 DEF NamesInv, ThreadNames
<1> QED BY <1>0, <1>6, <1>7, <1>8, WorkerKeepsOp

LEMMA ClientNames ==
    ASSUME NameInv, NEW c \in Client, Request(c) \/ Schedule(c) \/ Put(c)
    PROVE  RowsKept /\ NamesInv' /\ ExistInv'
<1>0. /\ TypeInv /\ StoreTypeOK /\ ThreadTypeOK /\ c \in Proc /\ c # Worker
      /\ NamesInv /\ ExistInv /\ Shape(c)
  BY RunStoreAssumption DEF NameInv, TokenInv, TypeInv, TypeOK, ShapeInv, Proc
<1>1. ASSUME RowsKept, NEW q \in Proc, q # c, pc'[q] \notin Resting PROVE Named(q)'
  <2>1. pc'[q] = pc[q] /\ op'[q] = op[q]
    BY <1>0, <1>1, ClientShape
  <2> QED BY <1>0, <1>1, <2>1, NamesStay DEF NamesInv, ThreadNames
<1>2. ASSUME NEW r \in Run, NEW bg \in BOOLEAN, StartRun(c, r, bg)
      PROVE  RowsKept /\ NamesInv' /\ ExistInv'
  <2>1. /\ RowsKept /\ DOMAIN items' = DOMAIN items \cup {Len(items) + 1}
        /\ \A k \in DOMAIN items : items'[k] = items[k]
        /\ items'[Len(items) + 1] = NewItem(r, bg)
    BY <1>0, <1>2, AddsKeep DEF StartRun, Adds
  <2>2. ExistInv'
    <3>1. OnlyRun(r) /\ run'[r] # "absent"
      BY <1>0, <1>2 DEF StartRun, SetRun, OnlyRun, StoreTypeOK
    <3> QED BY <1>0, <2>1, <3>1, ExistStays DEF NewItem
  <2>3. Named(c)'
    <3>1. /\ op'[c].run = r /\ op'[c].item = Len(items) + 1
          /\ op'[c].kind = (IF bg THEN "submit" ELSE "start")
      BY <1>0, <1>2 DEF StartRun, Begin, ThreadTypeOK
    <3> QED BY <2>1, <3>1 DEF Named, Names, NewItem, Background
  <2>4. QueueNames' /\ PendingNames'
    BY <1>0, <1>2, <2>1, NamesStay DEF StartRun, memVars, NamesInv
  <2> QED BY <1>1, <2>1, <2>2, <2>3, <2>4 DEF NamesInv, ThreadNames
<1>3. ASSUME NEW r \in Run, NEW j \in Job, NEW kind \in {"approve", "reject", "cancel"},
             JobRequest(c, kind, r, j)
      PROVE  RowsKept /\ NamesInv' /\ ExistInv'
  <2>1. /\ RowsKept /\ DOMAIN items' = DOMAIN items \cup {Len(items) + 1}
        /\ \A k \in DOMAIN items : items'[k] = items[k]
        /\ items'[Len(items) + 1] = NewItem(r, FALSE)
    BY <1>0, <1>3, AddsKeep DEF JobRequest, Adds
  <2>2. ExistInv'
    <3>1. OnlyRun(r) /\ run'[r] # "absent"
      BY <1>0, <1>3 DEF JobRequest, OnlyRun
    <3> QED BY <1>0, <2>1, <3>1, ExistStays DEF NewItem
  <2>3. Named(c)'
    <3>1. op'[c].run = r /\ op'[c].item = Len(items) + 1 /\ op'[c].kind = kind
      BY <1>0, <1>3 DEF JobRequest, Begin, ThreadTypeOK
    <3> QED BY <2>1, <3>1 DEF Named, Names, NewItem, Background
  <2>4. QueueNames' /\ PendingNames'
    BY <1>0, <1>3, <2>1, NamesStay DEF JobRequest, memVars, NamesInv
  <2> QED BY <1>1, <2>1, <2>2, <2>3, <2>4 DEF NamesInv, ThreadNames
<1>4. ASSUME UNCHANGED storeVars PROVE RowsKept /\ ExistInv'
  BY <1>0, <1>4 DEF storeVars, RowsKept, ExistInv
<1>5. ASSUME NEW r \in Run, NEW j \in Job, BackgroundApproval(c, r, j)
      PROVE  RowsKept /\ NamesInv' /\ ExistInv'
  <2>1. RowsKept /\ ExistInv'
    BY <1>4, <1>5 DEF BackgroundApproval
  <2>2. op'[c].item = 0 /\ op'[c].kind = "bgapprove" /\ pc'[c] = "acquire"
    BY <1>0, <1>5 DEF BackgroundApproval, Begin, Goto, ThreadTypeOK
  <2>3. Named(c)'
    BY <2>2 DEF Named, Itemless
  <2>4. QueueNames' /\ PendingNames'
    BY <1>0, <1>5, <2>1, NamesStay DEF BackgroundApproval, memVars, NamesInv
  <2> QED BY <1>1, <2>1, <2>3, <2>4 DEF NamesInv, ThreadNames
<1>6. pc[c] \in {"schedule", "put"} =>
        /\ Names(op[c].item, op[c].run, "wake") /\ Exists(op[c].run) /\ op[c].item \in Nat
  <2>1. pc[c] \in {"schedule", "put"} => op[c].kind \in {"submit", "bgapprove"}
    BY <1>0 DEF Shape, Placed, SectionPc, Resting, ThreadTypeOK, Kind
  <2>2. pc[c] \in {"schedule", "put"} => Named(c) /\ ~Itemless(c) /\ Exists(op[c].run)
    BY <1>0 DEF NamesInv, ThreadNames, Resting, Itemless, TypeInv, ThreadsExist
  <2> QED BY <1>0, <2>1, <2>2 DEF Named, Names, Background, ThreadTypeOK
<1>7. CASE Schedule(c)
  <2>1. RowsKept /\ ExistInv'
    BY <1>4, <1>7 DEF Schedule
  <2>2. QueueNames'
    BY <1>0, <1>7, <2>1, NamesStay DEF Schedule, NamesInv
  <2>3. PendingNames'
    <3>1. \A r \in Run : pending'[r] = pending[r] \/ (r = op[c].run /\ pending'[r] = op[c].item)
      BY <1>0, <1>7 DEF Schedule, TypeInv, TypeOK
    <3>2. items' = items /\ pc[c] = "schedule"
      BY <1>7 DEF Schedule, storeVars
    <3> QED BY <1>0, <1>6, <3>1, <3>2 DEF NamesInv, PendingNames, Names
  <2>4. pc'[c] \notin Resting => Named(c)'
    <3>1. pc'[c] = "idle" \/ (pc'[c] = "put" /\ op' = op)
      BY <1>0, <1>7 DEF Schedule, Leave, Continue, Goto, ThreadTypeOK
    <3>2. items' = items /\ pc[c] = "schedule" /\ Named(c) /\ ~Itemless(c)
      BY <1>0, <1>7 DEF Schedule, storeVars, NamesInv, ThreadNames, Resting, Itemless
    <3> QED BY <3>1, <3>2 DEF Resting, Named, Names
  <2> QED BY <1>1, <2>1, <2>2, <2>3, <2>4 DEF NamesInv, ThreadNames
<1>8. CASE Put(c)
  <2>1. RowsKept /\ ExistInv' /\ items' = items
    BY <1>4, <1>8 DEF Put, storeVars
  <2>2. QueueNames'
    <3>1. queue' = Append(queue, Wake(op[c].item, op[c].run)) /\ pc[c] = "put"
      BY <1>8 DEF Put
    <3> QED BY <1>0, <1>6, <2>1, <3>1, QueueNamesGrow DEF NamesInv, Names, Background
  <2>3. PendingNames'
    BY <1>0, <1>8, <2>1, NamesStay DEF Put, NamesInv
  <2>4. pc'[c] \in Resting
    BY <1>0, <1>8 DEF Put, Leave, ThreadTypeOK, Resting
  <2> QED BY <1>1, <2>1, <2>2, <2>3, <2>4 DEF NamesInv, ThreadNames
<1> QED BY <1>2, <1>3, <1>5, <1>7, <1>8 DEF Request

LEMMA LifecycleNames ==
    ASSUME NameInv, Start \/ Startup \/ Stop \/ Stopped \/ Crash
    PROVE  RowsKept /\ NamesInv' /\ ExistInv'
<1>0. /\ TypeInv /\ StoreTypeOK /\ ThreadTypeOK /\ Worker \in Proc /\ NamesInv /\ ExistInv
      /\ items \in Seq(ItemRow)
  BY DEF NameInv, TokenInv, TypeInv, TypeOK, StoreTypeOK, ItemRow, Proc
<1>1. ASSUME UNCHANGED storeVars PROVE RowsKept /\ ExistInv'
  BY <1>0, <1>1 DEF storeVars, RowsKept, ExistInv
<1>2. ASSUME RowsKept, UNCHANGED <<pc, op>> PROVE ThreadNames'
  BY <1>0, <1>2, NamesStay DEF NamesInv, ThreadNames
<1>3. ASSUME RowsKept, UNCHANGED threadVars, UNCHANGED <<queue, pending>> PROVE NamesInv'
  BY <1>0, <1>2, <1>3, NamesStay DEF NamesInv, threadVars
<1>4. CASE Start \/ Accept
  BY <1>1, <1>3, <1>4 DEF Start, Accept
<1>5. CASE Stop
  <2>1. RowsKept /\ ExistInv' /\ ThreadNames' /\ PendingNames'
    BY <1>0, <1>1, <1>2, <1>5, NamesStay DEF Stop, threadVars, NamesInv
  <2>2. \A k \in DOMAIN queue' : queue'[k] = Sentinel \/ (k \in DOMAIN queue /\ queue'[k] = queue[k])
    <3>1. queue \in Seq(WakeRow) /\ Sentinel \in WakeRow /\ queue' = Append(queue, Sentinel)
      BY <1>0, <1>5 DEF Stop, TypeInv, TypeOK, WakeRow, Sentinel, Wake
    <3> HIDE DEF WakeRow, Sentinel
    <3> QED BY <3>1
  <2>3. QueueNames'
    <3>1. items' = items
      BY <1>5 DEF Stop, storeVars
    <3> QED BY <1>0, <2>2, <3>1 DEF NamesInv, QueueNames, Names, Sentinel, Wake
  <2> QED BY <2>1, <2>3 DEF NamesInv
<1>6. CASE Stopped \/ Crash
  <2>1. RowsKept /\ ExistInv' /\ items' = items
    BY <1>1, <1>6 DEF Stopped, Crash, storeVars
  <2>2. PendingNames'
    BY <1>6 DEF Stopped, Crash, PendingNames
  <2>3. QueueNames'
    BY <1>0, <1>6, <2>1 DEF Stopped, Crash, NamesInv, QueueNames, Names, Sentinel, Wake
  <2>4. ThreadNames'
    <3>1. CASE Crash
      BY <3>1 DEF Crash, ThreadNames, Resting
    <3>2. CASE Stopped
      BY <1>2, <2>1, <3>2 DEF Stopped, threadVars
    <3> QED BY <1>6, <3>1, <3>2
  <2> QED BY <2>1, <2>2, <2>3, <2>4 DEF NamesInv
<1>7. CASE StartThread
  <2>1. RowsKept /\ ExistInv'
    BY <1>1, <1>7 DEF StartThread
  <2>2. /\ pc'[Worker] = "loop" /\ op' = op /\ UNCHANGED <<queue, pending>>
        /\ \A q \in Proc : q # Worker => pc'[q] = pc[q]
    BY <1>0, <1>7 DEF StartThread, Continue, Goto, ThreadTypeOK
  <2>3. ThreadNames'
    BY <1>0, <2>1, <2>2, NamesStay DEF NamesInv, ThreadNames, Resting
  <2> QED BY <1>0, <2>1, <2>2, <2>3, NamesStay DEF NamesInv
<1>8. ASSUME NEW r \in Run, ReleaseLocks(r) PROVE RowsKept /\ NamesInv' /\ ExistInv'
  <2>1. RowsKept /\ run' = run /\ job' = job /\ items' = items
    BY <1>8 DEF ReleaseLocks, RowsKept
  <2>2. \A x \in Run : lock'[x] = lock[x] \/ lock'[x] = NoProc
    BY <1>0, <1>8 DEF ReleaseLocks, StoreTypeOK
  <2>3. ExistInv'
    BY <1>0, <2>1, <2>2 DEF ExistInv
  <2> QED BY <1>3, <1>8, <2>1, <2>3 DEF ReleaseLocks
<1>9. ASSUME NEW r \in Run, ScheduleRecovered(r) PROVE RowsKept /\ NamesInv' /\ ExistInv'
  <2> DEFINE Q == BackgroundItems(r, {"queued"})
             i == IF Q = {} THEN Len(items) + 1 ELSE Latest(Q)
  <2>0. /\ items' = IF Q = {} THEN Append(items, NewItem(r, TRUE)) ELSE items
        /\ queue' = Append(queue, Wake(i, r)) /\ UNCHANGED threadVars
        /\ pending' = pending /\ run' = run /\ job' = job /\ lock' = lock
    BY <1>9 DEF ScheduleRecovered
  <2>1. /\ RowsKept /\ i \in Nat /\ i \in DOMAIN items' /\ items'[i].run = r /\ items'[i].bg
    BY <1>0, <2>0, EnqueuedItem
  <2>2. Exists(r)
    BY <1>0, <1>9 DEF ScheduleRecovered, TypeInv, StartupExists
  <2>3. \A k \in DOMAIN items' : (k \in DOMAIN items /\ items'[k].run = items[k].run) \/ items'[k].run = r
    <3>1. CASE items' = items
      BY <3>1
    <3>2. CASE Adds(r, TRUE)
      <4>1. /\ DOMAIN items' = DOMAIN items \cup {Len(items) + 1}
            /\ \A k \in DOMAIN items : items'[k] = items[k]
            /\ items'[Len(items) + 1] = NewItem(r, TRUE)
        BY <1>0, <3>2, AddsKeep
      <4> QED BY <4>1 DEF NewItem
    <3> QED BY <2>0, <3>1, <3>2 DEF Adds
  <2> HIDE DEF i, Q
  <2>4. QueueNames'
    BY <1>0, <2>0, <2>1, <2>2, QueueNamesGrow DEF NamesInv
  <2>5. ThreadNames' /\ PendingNames'
    BY <1>0, <1>2, <2>0, <2>1, NamesStay DEF NamesInv, threadVars
  <2>6. OnlyRun(r) /\ run'[r] # "absent"
    BY <2>0, <2>2 DEF OnlyRun, Exists
  <2>7. ExistInv'
    BY <1>0, <2>3, <2>6, ExistStays
  <2> QED BY <2>1, <2>4, <2>5, <2>7 DEF NamesInv
<1>10. ASSUME fixing \in Run, Exists(fixing), OnlyRun(fixing), run'[fixing] # "absent",
              RowsKept, DOMAIN items' = DOMAIN items, UNCHANGED threadVars, UNCHANGED <<queue, pending>>
       PROVE  RowsKept /\ NamesInv' /\ ExistInv'
  BY <1>0, <1>3, <1>10, ExistStays DEF RowsKept
<1>11. phase = "recover" /\ fixing # NoRun => /\ fixing \in Run /\ Exists(fixing)
                                              /\ run[fixing] \in ItemStatus
  BY <1>0 DEF TypeInv, StartupExists, TypeOK, Exists, StoreTypeOK, ItemStatus
<1>12. ASSUME NEW i \in DOMAIN items, RecoverItem(i) PROVE RowsKept /\ NamesInv' /\ ExistInv'
  <2>1. Writes(i)
    <3>1. "cancelled" \in ItemStatus
      BY DEF ItemStatus, RunStatus, TerminalRun
    <3> QED BY <1>11, <1>12, <3>1 DEF RecoverItem, Writes
  <2>2. RowsKept /\ DOMAIN items' = DOMAIN items
    BY <1>0, <2>1, WritesKeep
  <2> QED BY <1>10, <1>11, <1>12, <2>2 DEF RecoverItem, memVars, OnlyRun, Exists
<1>13. CASE RecoverJobs
  <2>1. RowsKept /\ DOMAIN items' = DOMAIN items
    BY <1>13 DEF RecoverJobs, RowsKept
  <2>2. OnlyRun(fixing)
    BY <1>0, <1>13 DEF RecoverJobs, CloseJobs, OnlyRun, StoreTypeOK
  <2> QED BY <1>10, <1>11, <1>13, <2>1, <2>2 DEF RecoverJobs, memVars, Exists
<1>14. CASE RecoverRun
  <2>1. RowsKept /\ DOMAIN items' = DOMAIN items
    <3>1. "cancelled" \in ItemStatus
      BY DEF ItemStatus, RunStatus, TerminalRun
    <3>2. items' = items \/ items' = Rewritten(fixing, ActiveItem, "cancelled")
      BY <1>14 DEF RecoverRun
    <3> QED BY <1>0, <3>1, <3>2, RewrittenRow DEF RowsKept
  <2>2. OnlyRun(fixing) /\ run'[fixing] # "absent"
    BY <1>0, <1>11, <1>14 DEF RecoverRun, SetRun, OnlyRun, StoreTypeOK, Exists
  <2> QED BY <1>10, <1>11, <1>14, <2>1, <2>2 DEF RecoverRun
<1> QED BY <1>4, <1>5, <1>6, <1>7, <1>8, <1>9, <1>12, <1>13, <1>14 DEF Startup

LEMMA NamesInductive == NameInv /\ [Next]_vars => NameInv' /\ RowsKept
<1> SUFFICES ASSUME NameInv, [Next]_vars PROVE NameInv' /\ RowsKept
  OBVIOUS
<1>1. TokenInv' /\ ShapeInv'
  BY TokensInductive, ShapeInductive DEF NameInv
<1>2. CASE UNCHANGED vars
  BY <1>1, <1>2 DEF vars, storeVars, threadVars, memVars, NameInv, NamesInv, ThreadNames, QueueNames, PendingNames,
                    Named, Names, Itemless, ExistInv, RowsKept, Sentinel, Wake
<1> QED BY <1>1, <1>2, SectionNames, WorkerNames, ClientNames, LifecycleNames DEF Next, NameInv

LEMMA InitNames == Init => ShapeInv /\ NamesInv /\ ExistInv
<1> SUFFICES ASSUME Init PROVE ShapeInv /\ NamesInv /\ ExistInv
  OBVIOUS
<1>1. ShapeInv
  BY DEF Init, ShapeInv, Shape, Placed, Resting, NoOp
<1>2. NamesInv
  BY DEF Init, NamesInv, ThreadNames, QueueNames, PendingNames, Resting
<1>3. ExistInv
  BY DEF Init, ExistInv
<1> QED BY <1>1, <1>2, <1>3

----------------------------------------------------------------------------
(* A run that is being started in the foreground is known to its client     *)
(* only: nobody else can hold its lock, take its item or be woken for it,   *)
(* so the client's way to the activation is free.                           *)

Starting(c, r) == op[c].kind = "start" /\ pc[c] \in {"acquire", "mark", "activate"} /\ op[c].run = r

Fresh(c, r) ==
    /\ \A j \in Job : job[r][j] = "none"
    /\ \A q \in Proc : q # c => pc[q] \in Resting \/ op[q].run # r
    /\ ~InQueue(r)
    /\ pc[c] = "acquire" => lock[r] = NoProc /\ items[op[c].item].status = "queued"

FreshInv == \A c \in Client, r \in Run : Starting(c, r) => Fresh(c, r)

\* A step of another thread.
LEMMA FreshStays ==
    ASSUME NEW c \in Client, NEW r \in Run, Fresh(c, r), pc'[c] = pc[c], op'[c] = op[c],
           \A j \in Job : job'[r][j] = job[r][j],
           \A q \in Proc : q # c => pc'[q] \in Resting \/ op'[q].run # r,
           ~InQueue(r)',
           pc[c] = "acquire" => lock'[r] = lock[r] /\ items'[op[c].item] = items[op[c].item]
    PROVE  Fresh(c, r)'
  BY DEF Fresh

\* What a thread with another run does to the item of this one.
LEMMA OtherItem ==
    ASSUME NameInv, NEW c \in Client, NEW r \in Run, Starting(c, r),
           NEW p \in Proc, pc[p] \notin Resting, op[p].run # r,
           Writes(op[p].item) \/ items' = items \/ Adds(op[p].run, TRUE)
    PROVE  items'[op[c].item] = items[op[c].item] /\ op[c].item \in DOMAIN items
<1>0. TypeInv /\ StoreTypeOK /\ c \in Proc /\ Named(c) /\ Named(p) /\ op[p].run \in Run
  BY DEF NameInv, TokenInv, TypeInv, TypeOK, Proc, NamesInv, ThreadNames, Starting, Resting, ThreadsExist
<1>1. Names(op[c].item, r, "start")
  BY <1>0 DEF Named, Itemless, Starting
<1>2. op[c].item # 0
  BY <1>0, <1>1, NamedIsPositive
<1>3. op[p].item # op[c].item
  BY <1>0, <1>1, <1>2 DEF Named, Itemless, Names
<1>4. op[c].item \in DOMAIN items
  BY <1>1 DEF Names
<1>5. CASE Writes(op[p].item)
  BY <1>0, <1>3, <1>4, <1>5, WritesKeep
<1>6. CASE Adds(op[p].run, TRUE)
  BY <1>0, <1>4, <1>6, AddsKeep
<1> QED BY <1>4, <1>5, <1>6

\* The steps of the section on the way to the activation.
LEMMA StartMoves ==
    ASSUME TypeInv, NEW p \in Proc, Shape(p), NEW ok \in BOOLEAN,
           CoordinatorStep(p, ok) \/ BodyStep(p, ok),
           op[p].kind = "start", pc'[p] \in {"acquire", "mark", "activate"}
    PROVE  /\ job' = job /\ pc'[p] # "acquire" /\ op' = op
           /\ pc[p] \in {"acquire", "mark"}
<1>0. ThreadTypeOK
  BY DEF TypeInv, TypeOK
<1>1. \A l : Continue(p, l) => l = pc'[p] /\ op' = op
  BY <1>0 DEF Continue, Goto, ThreadTypeOK
<1>2. \A l, e : Raise(p, e, l) => l = pc'[p]
  BY <1>0 DEF Raise, Goto, ThreadTypeOK
<1>3. \A e : ~Return(p, e)
  BY <1>0 DEF Return, Leave, Goto, ThreadTypeOK
<1>4. CASE CoordinatorStep(p, ok)
  <2>1. ~(NotQueued(p) \/ AcquireFailed(p, ok) \/ ReleaseLock(p, ok))
    BY <1>2, <1>3 DEF NotQueued, AcquireFailed, ReleaseLock
  <2>2. ~(FailItem(p, ok) \/ FinishItem(p, ok) \/ ErrorItem(p, ok))
    BY <1>1, <1>2, <1>3 DEF FailItem, FinishItem, ErrorItem
  <2>3. CASE AcquireLock(p) \/ MarkRunning(p, ok)
    BY <1>1, <1>2, <2>3 DEF AcquireLock, MarkRunning
  <2> QED BY <1>4, <2>1, <2>2, <2>3 DEF CoordinatorStep
<1>5. ~BodyStep(p, ok)
  <2>0. pc[p] \notin {"load", "apply", "enqueue"}
    BY DEF Shape, Placed
  <2>1. ~(Load(p, ok) \/ ApplyApproval(p, ok) \/ TerminalAction(p, ok) \/ EnqueueApproved(p, ok))
    BY <2>0 DEF Load, ApplyApproval, TerminalAction, EnqueueApproved
  <2>2. ~(Activate(p, ok) \/ RunnerUnavailable(p) \/ (\E j \in Job : RequestApproval(p, j) \/ CommitApproved(p, j)))
    BY <1>1, <1>2 DEF Activate, RunnerUnavailable, RequestApproval, CommitApproved
  <2>3. ~(WaitRun(p, ok) \/ CompleteRun(p) \/ FailRun(p))
    <3>1. ~(Continue(p, "finish") \/ Continue(p, "close") \/ Raise(p, "storage", "error_item"))
      BY <1>1, <1>2
    <3> QED BY <3>1 DEF WaitRun, CompleteRun, FailRun
  <2>4. ~(CloseRuntimeState(p, ok) \/ SegmentInterrupted(p))
    <3>1. ~(Raise(p, "storage", "error_item") \/ Raise(p, "error", "error_item"))
      BY <1>2
    <3> QED BY <3>1 DEF CloseRuntimeState, SegmentInterrupted
  <2> QED BY <2>1, <2>2, <2>3, <2>4 DEF BodyStep
<1> QED BY <1>4, <1>5

LEMMA SectionFresh ==
    ASSUME NameInv, FreshInv, NEW p \in Proc, NEW ok \in BOOLEAN, SectionStep(p, ok)
    PROVE  FreshInv'
<1>0. /\ TypeInv /\ StoreTypeOK /\ ThreadTypeOK /\ Shape(p) /\ queue' = queue
      /\ CoordinatorStep(p, ok) \/ BodyStep(p, ok)
  BY DEF NameInv, TokenInv, TypeInv, TypeOK, ShapeInv, SectionStep, memVars
<1>1. Moves(p) /\ Reshapes(p)
  BY <1>0, CoordinatorMoves, BodyMoves, SectionShape
<1>2. /\ OnlyRun(op[p].run)
      /\ Writes(op[p].item) \/ items' = items \/ Adds(op[p].run, TRUE)
  BY <1>0, SectionWrites
<1> SUFFICES ASSUME NEW c \in Client, NEW r \in Run, Starting(c, r)' PROVE Fresh(c, r)'
  BY DEF FreshInv
<1>3. c \in Proc /\ (~InQueue(r) => ~InQueue(r)')
  BY <1>0 DEF Proc, InQueue
<1>4. CASE p # c
  <2>1. pc'[c] = pc[c] /\ op'[c] = op[c] /\ Starting(c, r)
    BY <1>1, <1>3, <1>4 DEF Moves, Starting
  <2>2. Fresh(c, r)
    BY <2>1 DEF FreshInv
  <2>3. pc[p] \notin Resting /\ op[p].run # r
    BY <1>1, <1>4, <2>2 DEF Fresh, Moves, SectionPc, Resting
  <2>4. \A q \in Proc : q # c => pc'[q] \in Resting \/ op'[q].run # r
    BY <1>1, <2>2, <2>3 DEF Fresh, Moves, Resting
  <2>5. items'[op[c].item] = items[op[c].item]
    BY <1>2, <2>1, <2>3, OtherItem
  <2> QED BY <1>2, <1>3, <2>1, <2>2, <2>3, <2>4, <2>5, FreshStays DEF OnlyRun, Fresh
<1>5. CASE p = c
  <2>1. op'[p].kind = "start" /\ op'[p].run = r /\ pc'[p] \in {"acquire", "mark", "activate"}
    BY <1>5 DEF Starting
  <2>2. op[p].kind = "start" /\ op[p].run = r
    BY <1>1, <2>1 DEF Reshapes, Resumes, NoOp, Starting
  <2>3. job' = job /\ pc'[p] # "acquire" /\ pc[p] \in {"acquire", "mark"}
    BY <1>0, <2>1, <2>2, StartMoves
  <2>4. Fresh(c, r)
    BY <1>5, <2>2, <2>3 DEF Starting, FreshInv
  <2>5. \A q \in Proc : q # c => pc'[q] = pc[q] /\ op'[q] = op[q]
    BY <1>1, <1>5 DEF Moves
  <2> QED BY <1>3, <1>5, <2>3, <2>4, <2>5 DEF Fresh
<1> QED BY <1>4, <1>5

LEMMA WorkerFresh ==
    ASSUME NameInv, FreshInv, NEW ok \in BOOLEAN, WorkerStep(ok)
    PROVE  FreshInv'
<1>0. /\ TypeInv /\ StoreTypeOK /\ ThreadTypeOK /\ Worker \in Proc
  BY DEF NameInv, TokenInv, TypeInv, TypeOK, Proc
<1> SUFFICES ASSUME NEW c \in Client, NEW r \in Run, Starting(c, r)' PROVE Fresh(c, r)'
  BY DEF FreshInv
<1>1. c \in Proc /\ c # Worker
  BY RunStoreAssumption DEF Proc
<1>2. \A q \in Proc : q # Worker => pc'[q] = pc[q] /\ op'[q] = op[q]
  BY <1>0, WorkerStepOutside
<1>3. pc'[c] = pc[c] /\ op'[c] = op[c] /\ Starting(c, r) /\ Fresh(c, r)
  BY <1>1, <1>2 DEF Starting, FreshInv
<1>4. pc[Worker] \in Resting \/ op[Worker].run # r
  BY <1>0, <1>1, <1>3 DEF Fresh
<1>5. /\ \A j \in Job : job'[r][j] = job[r][j]
      /\ lock'[r] = lock[r] /\ items'[op[c].item] = items[op[c].item]
  <2>1. CASE pc[Worker] \in Resting
    BY <2>1 DEF Resting, WorkerStep, LoopTest, GetWake, ReadWake, RequeueSegment, ReleaseOrphans, Reconcile,
                  ConfigurationMissing, Terminalize, PutBack, Settle, storeVars
  <2>2. CASE pc[Worker] \notin Resting /\ op[Worker].run # r
    BY <1>0, <1>3, <2>2, WorkerWrites, OtherItem DEF OnlyRun
  <2> QED BY <1>4, <2>1, <2>2
<1>6. ~InQueue(r)' /\ (pc'[Worker] \in Resting \/ op'[Worker].run # r)
  <2>0. \A k \in DOMAIN queue : queue[k].run # r
    BY <1>3 DEF Fresh, InQueue
  <2>1. CASE GetWake
    <3>1. /\ 1 \in DOMAIN queue /\ Head(queue) = queue[1] /\ queue' = Tail(queue)
          /\ \A k \in DOMAIN queue' : k + 1 \in DOMAIN queue /\ queue'[k] = queue[k + 1]
      BY <1>0, <2>1, TailWake DEF GetWake
    <3>2. pc'[Worker] \in Resting \/ op'[Worker].run = queue[1].run
      BY <1>0, <2>1, <3>1 DEF GetWake, Continue, Begin, Goto, ThreadTypeOK, Resting
    <3> QED BY <2>0, <3>1, <3>2 DEF InQueue
  <2>2. CASE Settle \/ (PutBack /\ phase # "stopping")
    <3>1. pc[Worker] \notin Resting /\ Exists(op[Worker].run) /\ op[Worker].run \in Run /\ pc'[Worker] \in Resting
      BY <1>0, <2>2 DEF Settle, PutBack, Resting, TypeInv, ThreadsExist, ThreadTypeOK
    <3>2. queue' = queue \/ \E i \in Nat : queue' = Append(queue, Wake(i, op[Worker].run))
      BY <1>0, <2>2, <3>1 DEF Settle, PutBack, TypeInv, TypeOK, ThreadTypeOK
    <3>3. ASSUME NEW i \in Nat, queue' = Append(queue, Wake(i, op[Worker].run))
          PROVE  \A k \in DOMAIN queue' : queue'[k].run # r
      <4>1. /\ DOMAIN queue' = DOMAIN queue \cup {Len(queue) + 1}
            /\ \A k \in DOMAIN queue : queue'[k] = queue[k]
            /\ queue'[Len(queue) + 1] = Wake(i, op[Worker].run)
        BY <1>0, <3>1, <3>3, AppendWake
      <4> QED BY <1>4, <2>0, <3>1, <4>1 DEF Wake
    <3> QED BY <2>0, <3>1, <3>2, <3>3 DEF InQueue
  <2>3. CASE op' = op /\ queue' = queue /\ (pc[Worker] \notin Resting \/ pc'[Worker] \in Resting)
    BY <1>4, <2>0, <2>3 DEF InQueue
  <2> QED BY <1>0, <2>1, <2>2, <2>3, WorkerKeepsOp
<1>7. \A q \in Proc : q # c => pc'[q] \in Resting \/ op'[q].run # r
  BY <1>2, <1>3, <1>6 DEF Fresh
<1> QED BY <1>3, <1>5, <1>6, <1>7, FreshStays

LEMMA ClientFresh ==
    ASSUME NameInv, FreshInv, NEW d \in Client, Request(d) \/ Schedule(d) \/ Put(d)
    PROVE  FreshInv'
<1>0. /\ TypeInv /\ StoreTypeOK /\ ThreadTypeOK /\ d \in Proc /\ d # Worker /\ Shape(d)
  BY RunStoreAssumption DEF NameInv, TokenInv, TypeInv, TypeOK, Proc, ShapeInv
<1> SUFFICES ASSUME NEW c \in Client, NEW r \in Run, Starting(c, r)' PROVE Fresh(c, r)'
  BY DEF FreshInv
<1>1. c \in Proc
  BY DEF Proc
<1>2. \A q \in Proc : q # d => pc'[q] = pc[q] /\ op'[q] = op[q]
  BY <1>0, ClientShape
<1>3. c # d => Starting(c, r) /\ Fresh(c, r)
  BY <1>1, <1>2 DEF Starting, FreshInv
<1>4. Starting(c, r) => Named(c) /\ Exists(r)
  BY <1>1 DEF Starting, NameInv, TokenInv, TypeInv, ThreadsExist, NamesInv, ThreadNames, Resting
<1>5. Starting(c, r) => op[c].item \in DOMAIN items
  BY <1>4 DEF Named, Names, Itemless, Starting
<1>6. ASSUME c # d, pc'[d] \in Resting \/ op'[d].run # r, ~InQueue(r)', job' = job, lock' = lock,
             \A k \in DOMAIN items : items'[k] = items[k]
      PROVE  Fresh(c, r)'
  <2>1. \A q \in Proc : q # c => pc'[q] \in Resting \/ op'[q].run # r
    BY <1>2, <1>3, <1>6 DEF Fresh
  <2> QED BY <1>1, <1>2, <1>3, <1>5, <1>6, <2>1, FreshStays
<1>7. ASSUME NEW x \in Run, NEW bg \in BOOLEAN, StartRun(d, x, bg) PROVE Fresh(c, r)'
  <2>1. /\ \A k \in DOMAIN items : items'[k] = items[k]
        /\ items'[Len(items) + 1] = NewItem(x, bg)
    BY <1>0, <1>7, AddsKeep DEF StartRun, Adds
  <2>2. /\ op'[d].run = x /\ op'[d].item = Len(items) + 1 /\ queue' = queue /\ job' = job /\ lock' = lock
    BY <1>0, <1>7 DEF StartRun, Begin, ThreadTypeOK, memVars
  <2>3. CASE c # d
    <3>1. x # r
      BY <1>3, <1>4, <1>7, <2>3 DEF StartRun, Exists
    <3>2. ~InQueue(r)'
      BY <1>3, <2>2, <2>3 DEF Fresh, InQueue
    <3> QED BY <1>6, <2>1, <2>2, <2>3, <3>1, <3>2
  <2>4. CASE c = d
    <3>1. r = x /\ run[x] = "absent"
      BY <1>7, <2>2, <2>4 DEF Starting, StartRun
    <3>2. lock[r] = NoProc /\ \A j \in Job : job[r][j] = "none"
      BY <3>1 DEF NameInv, ExistInv
    <3>3. ~InQueue(r)'
      <4>1. \A k \in DOMAIN queue : queue[k].run # r
        BY <1>0, <3>1, RunStoreAssumption DEF TypeInv, QueueExists, Exists, Sentinel, Wake
      <4> QED BY <2>2, <4>1 DEF InQueue
    <3>4. \A q \in Proc : q # c => pc'[q] \in Resting \/ op'[q].run # r
      BY <1>0, <1>2, <2>4, <3>1 DEF TypeInv, ThreadsExist, Exists
    <3>5. items'[op'[c].item].status = "queued"
      BY <2>1, <2>2, <2>4 DEF NewItem
    <3> QED BY <2>2, <3>2, <3>3, <3>4, <3>5 DEF Fresh
  <2> QED BY <2>3, <2>4
<1>8. ASSUME NEW x \in Run, NEW j \in Job, NEW kind \in {"approve", "reject", "cancel"},
             JobRequest(d, kind, x, j)
      PROVE  Fresh(c, r)'
  <2>1. \A k \in DOMAIN items : items'[k] = items[k]
    BY <1>0, <1>8, AddsKeep DEF JobRequest, Adds
  <2>2. op'[d].run = x /\ op'[d].kind = kind /\ queue' = queue /\ job' = job /\ lock' = lock
    BY <1>0, <1>8 DEF JobRequest, Begin, ThreadTypeOK, memVars
  <2>3. c # d
    BY <2>2 DEF Starting
  <2>4. x # r
    BY <1>3, <1>8, <2>3 DEF JobRequest, Fresh
  <2>5. ~InQueue(r)'
    BY <1>3, <2>2, <2>3 DEF Fresh, InQueue
  <2> QED BY <1>6, <2>1, <2>2, <2>3, <2>4, <2>5
<1>9. ASSUME NEW x \in Run, NEW j \in Job, BackgroundApproval(d, x, j) PROVE Fresh(c, r)'
  <2>1. /\ op'[d].run = x /\ op'[d].kind = "bgapprove" /\ queue' = queue
        /\ job' = job /\ lock' = lock /\ items' = items
    BY <1>0, <1>9 DEF BackgroundApproval, Begin, ThreadTypeOK, memVars, storeVars
  <2>2. c # d
    BY <2>1 DEF Starting
  <2>3. x # r
    BY <1>3, <1>9, <2>2 DEF BackgroundApproval, Fresh
  <2>4. ~InQueue(r)'
    BY <1>3, <2>1, <2>2 DEF Fresh, InQueue
  <2> QED BY <1>6, <2>1, <2>2, <2>3, <2>4
<1>10. CASE Schedule(d)
  <2>1. /\ pc[d] = "schedule" /\ queue' = queue /\ job' = job /\ lock' = lock /\ items' = items
        /\ pc'[d] = "idle" \/ (pc'[d] = "put" /\ op' = op)
    BY <1>0, <1>10 DEF Schedule, storeVars, Leave, Continue, Goto, ThreadTypeOK
  <2>2. c # d
    BY <2>1 DEF Starting
  <2>3. ~InQueue(r)' /\ op[d].run # r
    BY <1>0, <1>3, <2>1, <2>2 DEF Fresh, InQueue, Resting
  <2> QED BY <1>6, <2>1, <2>2, <2>3 DEF Resting
<1>11. CASE Put(d)
  <2>1. /\ pc[d] = "put" /\ queue' = Append(queue, Wake(op[d].item, op[d].run))
        /\ job' = job /\ lock' = lock /\ items' = items /\ pc'[d] = "idle"
        /\ op[d].item \in Nat /\ Exists(op[d].run)
    BY <1>0, <1>11 DEF Put, storeVars, Leave, ThreadTypeOK, TypeInv, ThreadsExist, Resting
  <2>2. c # d
    BY <2>1 DEF Starting
  <2>3. op[d].run # r
    BY <1>0, <1>3, <2>1, <2>2 DEF Fresh, Resting
  <2>4. ~InQueue(r)'
    <3>1. /\ DOMAIN queue' = DOMAIN queue \cup {Len(queue) + 1}
          /\ \A k \in DOMAIN queue : queue'[k] = queue[k]
          /\ queue'[Len(queue) + 1] = Wake(op[d].item, op[d].run)
      BY <1>0, <2>1, AppendWake
    <3>2. \A k \in DOMAIN queue : queue[k].run # r
      BY <1>3, <2>2 DEF Fresh, InQueue
    <3> QED BY <2>3, <3>1, <3>2 DEF InQueue, Wake
  <2> QED BY <1>6, <2>1, <2>2, <2>4 DEF Resting
<1> QED BY <1>7, <1>8, <1>9, <1>10, <1>11 DEF Request

LEMMA FreshInductive == NameInv /\ FreshInv /\ [Next]_vars => FreshInv'
<1> SUFFICES ASSUME NameInv, FreshInv, [Next]_vars PROVE FreshInv'
  OBVIOUS
<1>0. TypeInv /\ ThreadTypeOK /\ Quiet
  BY DEF NameInv, TokenInv, TypeInv, TypeOK
<1>1. ASSUME \A c \in Client : pc'[c] = "idle" PROVE FreshInv'
  BY <1>1 DEF FreshInv, Starting
<1>2. CASE Start \/ Startup \/ Crash
  <2>1. CASE Crash
    BY <1>1, <2>1, RunStoreAssumption DEF Crash, Proc
  <2>2. CASE Start \/ Startup
    <3>1. phase \in {"down", "recover", "schedule"}
      BY <2>2 DEF Start, Startup, ReleaseLocks, ScheduleRecovered, RecoverItem, RecoverJobs, RecoverRun,
                  StartThread, Accept
    <3>2. \A c \in Client : pc'[c] = pc[c]
      <4>1. CASE UNCHANGED threadVars
        BY <4>1 DEF threadVars
      <4>2. CASE StartThread
        BY <1>0, <4>2, RunStoreAssumption DEF StartThread, Continue, Goto, ThreadTypeOK, Proc
      <4> QED BY <2>2, <4>1, <4>2 DEF Start, Startup, ReleaseLocks, ScheduleRecovered, RecoverItem, RecoverJobs,
                  RecoverRun, Accept
    <3> QED BY <1>0, <1>1, <3>1, <3>2 DEF Quiet
  <2> QED BY <1>2, <2>1, <2>2
<1>3. CASE Stop
  <2>1. UNCHANGED <<run, job, items, lock, pc, op>>
    BY <1>3 DEF Stop, storeVars, threadVars
  <2>2. \A k \in DOMAIN queue' : queue'[k] = Sentinel \/ (k \in DOMAIN queue /\ queue'[k] = queue[k])
    <3>1. queue \in Seq(WakeRow) /\ Sentinel \in WakeRow /\ queue' = Append(queue, Sentinel)
      BY <1>0, <1>3 DEF Stop, TypeInv, TypeOK, WakeRow, Sentinel, Wake
    <3> HIDE DEF WakeRow, Sentinel
    <3> QED BY <3>1
  <2>3. \A r \in Run : InQueue(r)' => InQueue(r)
    BY <2>2, RunStoreAssumption DEF InQueue, Sentinel, Wake
  <2> QED BY <2>1, <2>3 DEF FreshInv, Fresh, Starting
<1>4. CASE Stopped \/ UNCHANGED vars
  <2>1. UNCHANGED <<run, job, items, lock, pc, op, queue>>
    BY <1>4 DEF Stopped, storeVars, threadVars, vars, memVars
  <2> QED BY <2>1 DEF FreshInv, Fresh, Starting, InQueue
<1> QED BY <1>2, <1>3, <1>4, SectionFresh, WorkerFresh, ClientFresh DEF Next

LEMMA InitFresh == Init => FreshInv
<1>1. Init => \A c \in Client : c \in Proc /\ op[c] = NoOp
  BY DEF Init, Proc
<1>2. NoOp.kind # "start"
  BY DEF NoOp
<1> QED BY <1>1, <1>2 DEF FreshInv, Starting

----------------------------------------------------------------------------
(* The wake-up of a queued run.  While nothing fails, a queued run is still *)
(* to be scheduled by the startup, is promised a wake-up or an execution by *)
(* the request that queued it, has a wake item, or is attended to by the    *)
(* worker: the worker never turns away from it and leaves it queued.        *)

Promising(c, r) ==
    /\ op[c].run = r
    /\ \/ pc[c] \in {"schedule", "put"}
       \/ pc[c] = "release" /\ op[c].kind = "bgapprove" /\ exc[c] = "none" /\ op[c].item # 0
       \/ pc[c] \in {"acquire", "mark", "activate"} /\ op[c].kind = "start"

Attending(r) ==
    /\ op[Worker].run = r
    /\ \/ pc[Worker] \in {"wake", "acquire", "mark", "activate", "fail_item", "error_item", "terminalize"}
       \/ pc[Worker] = "release" /\ exc[Worker] # "none"

Woken(r) ==
    \/ phase = "schedule" /\ r \in todo
    \/ \E c \in Client : Promising(c, r)
    \/ InQueue(r)
    \/ pending[r] # 0
    \/ Attending(r)

Awaken == \A r \in Run : run[r] = "queued" => Woken(r)

WakeInv == faults = 0 /\ phase \in {"schedule", "serving"} => Awaken

LostInv == NameInv /\ FreshInv /\ WakeInv

\* Only the approval of a waiting run brings a run to "queued" in the section.
LEMMA SectionQueues ==
    ASSUME TypeInv, NEW p \in Proc, NEW ok \in BOOLEAN, CoordinatorStep(p, ok) \/ BodyStep(p, ok),
           op[p].run \in Run, run'[op[p].run] = "queued"
    PROVE  Enqueues(p) \/ run[op[p].run] = "queued"
<1>0. StoreTypeOK
  BY DEF TypeInv, TypeOK
<1> USE <1>0 DEF StoreTypeOK, SetRun
<1>1. CASE CoordinatorStep(p, ok)
  BY <1>1 DEF CoordinatorStep, NotQueued, AcquireLock, AcquireFailed, MarkRunning, FailItem,
              FinishItem, ErrorItem, ReleaseLock, storeVars
<1>2. CASE Load(p, ok) \/ ApplyApproval(p, ok) \/ TerminalAction(p, ok) \/ Activate(p, ok) \/ RunnerUnavailable(p)
  BY <1>2 DEF Load, ApplyApproval, TerminalAction, Activate, RunnerUnavailable, storeVars
<1>3. CASE EnqueueApproved(p, ok)
  BY <1>3 DEF EnqueueApproved, Enqueues, Goto
<1>4. CASE \E j \in Job : RequestApproval(p, j) \/ CommitApproved(p, j)
  BY <1>4 DEF RequestApproval, CommitApproved
<1>5. CASE WaitRun(p, ok) \/ CompleteRun(p) \/ FailRun(p) \/ CloseRuntimeState(p, ok) \/ SegmentInterrupted(p)
  BY <1>5 DEF WaitRun, CompleteRun, FailRun, CloseRuntimeState, SegmentInterrupted
<1> QED BY <1>1, <1>2, <1>3, <1>4, <1>5 DEF BodyStep

\* A client keeps its promise.
LEMMA PromiseKept ==
    ASSUME NameInv, FreshInv, NEW p \in Client, NEW ok \in BOOLEAN, CoordinatorStep(p, ok) \/ BodyStep(p, ok),
           NEW r \in Run, Promising(p, r), run[r] = "queued", run'[r] = "queued", faults' = 0
    PROVE  Promising(p, r)'
<1>0. TypeInv /\ ThreadTypeOK /\ StoreTypeOK /\ p \in Proc /\ p # Worker /\ Shape(p) /\ op[p].run = r
  BY RunStoreAssumption DEF NameInv, TokenInv, TypeInv, TypeOK, ShapeInv, Proc, Promising
<1>1. Storage(ok) => ok
  <2>1. faults \in Nat
    BY <1>0, RunStoreAssumption DEF StoreTypeOK
  <2> QED BY <2>1 DEF Storage
<1>2. \A l : Continue(p, l) => l = pc'[p] /\ op' = op
  BY <1>0 DEF Continue, Goto, ThreadTypeOK
<1>3. pc[p] \in SectionPc
  <2>1. Moves(p)
    BY <1>0, CoordinatorMoves, BodyMoves
  <2> QED BY <2>1 DEF Moves
<1>4. CASE pc[p] = "release" /\ op[p].kind = "bgapprove" /\ exc[p] = "none" /\ op[p].item # 0
  <2>1. ReleaseLock(p, ok)
    BY <1>4, BodyKeepsLock DEF CoordinatorStep, NotQueued, AcquireLock, AcquireFailed, MarkRunning, FailItem,
              FinishItem, ErrorItem, UsedPc, BodyPc, BodyStep, Load, ApplyApproval, TerminalAction, EnqueueApproved,
              Activate, RunnerUnavailable, RequestApproval, CommitApproved, WaitRun, CompleteRun, FailRun,
              CloseRuntimeState, SegmentInterrupted
  <2>2. Return(p, "none")
    BY <1>1, <1>4, <2>1 DEF ReleaseLock
  <2>3. pc'[p] = "schedule" /\ op' = op
    BY <1>0, <1>4, <2>2 DEF Return, Goto, ThreadTypeOK
  <2> QED BY <1>0, <2>3 DEF Promising
<1>5. CASE pc[p] \in {"acquire", "mark", "activate"} /\ op[p].kind = "start"
  <2>1. Fresh(p, r)
    BY <1>0, <1>5 DEF FreshInv, Starting
  <2>2. CoordinatorStep(p, ok) => pc'[p] \in {"mark", "activate"} /\ op' = op
    <3>1. ~NotQueued(p)
      BY <1>0, <2>1 DEF NotQueued, Fresh
    <3>2. ~AcquireFailed(p, ok)
      BY <1>0, <1>1, <2>1 DEF AcquireFailed, Fresh
    <3>3. AcquireLock(p) => pc'[p] \in {"mark", "activate"} /\ op' = op
      BY <1>2, <1>5 DEF AcquireLock
    <3>4. MarkRunning(p, ok) => pc'[p] \in {"mark", "activate"} /\ op' = op
      BY <1>1, <1>2, <1>5 DEF MarkRunning
    <3> QED BY <1>5, <3>1, <3>2, <3>3, <3>4 DEF CoordinatorStep, FailItem, FinishItem, ErrorItem, ReleaseLock
  <2>3. ~BodyStep(p, ok)
    <3>1. ~Activate(p, ok)
      BY <1>0, <1>1, <1>5 DEF Activate, SetRun, StoreTypeOK
    <3> QED BY <1>0, <1>5, <3>1 DEF BodyStep, Load, ApplyApproval, TerminalAction, EnqueueApproved,
              RunnerUnavailable, RequestApproval, CommitApproved, WaitRun, CompleteRun, FailRun,
              CloseRuntimeState, SegmentInterrupted
  <2> QED BY <1>0, <1>5, <2>2, <2>3 DEF Promising
<1> QED BY <1>3, <1>4, <1>5 DEF Promising, SectionPc

\* The worker goes on to attend to its run.
LEMMA AttentionKept ==
    ASSUME NameInv, NEW ok \in BOOLEAN, CoordinatorStep(Worker, ok) \/ BodyStep(Worker, ok),
           NEW r \in Run, Attending(r), run[r] = "queued", run'[r] = "queued", faults' = 0
    PROVE  Attending(r)'
<1> DEFINE p == Worker
<1>0. /\ TypeInv /\ ThreadTypeOK /\ StoreTypeOK /\ p \in Proc /\ Shape(p) /\ op[p].run = r
      /\ op[p].kind \in {"none", "wake"}
  BY DEF NameInv, TokenInv, TypeInv, TypeOK, ShapeInv, Proc, Attending, Shape
<1>1. faults \in Nat /\ (Storage(ok) => ok)
  <2>1. faults \in Nat
    BY <1>0, RunStoreAssumption DEF StoreTypeOK
  <2> QED BY <2>1 DEF Storage
<1>2. \A l : Continue(p, l) => l = pc'[p] /\ op' = op /\ exc' = exc
  BY <1>0 DEF Continue, Goto, ThreadTypeOK
<1>3. \A l, e : Raise(p, e, l) => l = pc'[p] /\ op' = op /\ exc'[p] = e
  BY <1>0 DEF Raise, Goto, ThreadTypeOK
<1>4. \A e : Return(p, e) /\ e \notin {"none", "storage"} => pc'[p] = "terminalize" /\ op' = op
  BY <1>0 DEF Return, Goto, ThreadTypeOK
<1>5. exc[p] # "storage"
  <2>1. Reshapes(p)
    BY <1>0, SectionShape
  <2>2. faults = 0
    BY <2>1 DEF Reshapes
  <2> QED BY <1>0, <2>2 DEF Shape
<1>6. pc[p] \in SectionPc /\ pc[p] \notin {"load", "apply", "enqueue"}
  <2>1. Moves(p)
    BY <1>0, CoordinatorMoves, BodyMoves
  <2> QED BY <1>0, <2>1 DEF Moves, Shape, Placed, Resting, SectionPc
<1>7. CASE CoordinatorStep(p, ok)
  <2>1. CASE NotQueued(p) \/ AcquireLock(p) \/ AcquireFailed(p, ok)
    BY <1>0, <1>2, <1>3, <1>4, <2>1 DEF NotQueued, AcquireLock, AcquireFailed, Attending
  <2>2. CASE MarkRunning(p, ok) \/ FailItem(p, ok) \/ ErrorItem(p, ok)
    <3>1. CASE MarkRunning(p, ok)
      <4>1. op[p].kind = "wake"
        BY <1>0, <3>1 DEF MarkRunning, Shape, Placed, Resting
      <4>2. pc'[p] = "activate" /\ op' = op
        BY <1>1, <1>2, <3>1, <4>1 DEF MarkRunning
      <4> QED BY <1>0, <4>2 DEF Attending
    <3>2. CASE FailItem(p, ok)
      <4>1. exc[p] \notin {"none", "storage"} /\ Return(p, exc[p])
        BY <1>0, <1>5, <3>2 DEF FailItem, Shape
      <4> QED BY <1>0, <1>4, <4>1 DEF Attending
    <3>3. CASE ErrorItem(p, ok)
      BY <1>0, <1>2, <3>3 DEF ErrorItem, Attending, Shape
    <3> QED BY <2>2, <3>1, <3>2, <3>3
  <2>3. CASE ReleaseLock(p, ok)
    BY <1>0, <1>1, <1>4, <1>5, <2>3 DEF ReleaseLock, Attending
  <2>4. ~FinishItem(p, ok)
    BY DEF FinishItem, Attending
  <2> QED BY <1>7, <2>1, <2>2, <2>3, <2>4 DEF CoordinatorStep
<1>8. CASE BodyStep(p, ok)
  <2>1. pc[p] = "activate"
    BY <1>6, <1>8 DEF Attending, BodyStep, Load, ApplyApproval, TerminalAction, EnqueueApproved,
              Activate, RunnerUnavailable, RequestApproval, CommitApproved, WaitRun, CompleteRun, FailRun,
              CloseRuntimeState, SegmentInterrupted
  <2>2. ~Activate(p, ok)
    BY <1>0, <1>1 DEF Activate, SetRun, StoreTypeOK
  <2>3. RunnerUnavailable(p) => Attending(r)'
    BY <1>0, <1>3 DEF RunnerUnavailable, Attending
  <2> QED BY <1>8, <2>1, <2>2, <2>3 DEF BodyStep, Load, ApplyApproval, TerminalAction, EnqueueApproved,
              RequestApproval, CommitApproved, WaitRun, CompleteRun, FailRun,
              CloseRuntimeState, SegmentInterrupted
<1> QED BY <1>7, <1>8

LEMMA SectionWakes ==
    ASSUME LostInv, NEW p \in Proc, NEW ok \in BOOLEAN, SectionStep(p, ok)
    PROVE  WakeInv'
<1>0. /\ NameInv /\ FreshInv /\ TypeInv /\ ThreadTypeOK /\ StoreTypeOK /\ Shape(p)
      /\ UNCHANGED <<phase, todo, queue, pending>>
      /\ CoordinatorStep(p, ok) \/ BodyStep(p, ok)
  BY DEF LostInv, NameInv, TokenInv, TypeInv, TypeOK, ShapeInv, SectionStep, memVars
<1>1. Moves(p) /\ Reshapes(p) /\ OnlyRun(op[p].run)
  BY <1>0, CoordinatorMoves, BodyMoves, SectionShape, SectionWrites
<1> SUFFICES ASSUME faults' = 0, phase' \in {"schedule", "serving"}, NEW r \in Run, run'[r] = "queued"
             PROVE  Woken(r)'
  BY DEF WakeInv, Awaken
<1>2. Awaken
  BY <1>0, <1>1 DEF LostInv, WakeInv, Reshapes
<1>3. op[p].run \in Run
  BY <1>0, <1>1, WorkingRun DEF Moves
<1>4. \A c \in Client : c # p /\ Promising(c, r) => Promising(c, r)'
  BY <1>1 DEF Moves, Reshapes, Promising, Proc
<1>5. Worker # p /\ Attending(r) => Attending(r)'
  BY <1>1 DEF Moves, Reshapes, Attending, Proc
<1>6. InQueue(r) => InQueue(r)'
  BY <1>0 DEF InQueue
<1>7. CASE r # op[p].run
  <2>1. Woken(r)
    BY <1>1, <1>2, <1>7 DEF OnlyRun, Awaken
  <2>2. \A c \in Client : Promising(c, r) => c # p
    BY <1>7 DEF Promising
  <2>3. Attending(r) => Worker # p
    BY <1>7 DEF Attending
  <2> QED BY <1>0, <1>4, <1>5, <1>6, <2>1, <2>2, <2>3 DEF Woken
<1>8. CASE r = op[p].run /\ Enqueues(p)
  <2> DEFINE i == IF BackgroundItems(op[p].run, ActiveItem) = {} THEN Len(items) + 1
                  ELSE Latest(BackgroundItems(op[p].run, ActiveItem))
  <2>1. op[p].kind = "bgapprove" /\ exc[p] = "none"
    BY <1>0, <1>8 DEF Enqueues, Shape, Placed, SectionPc, Resting, ThreadTypeOK, Kind
  <2>2. p \in Client
    BY <1>0, <2>1 DEF Shape, Proc
  <2>3. i # 0
    <3>1. i \in DOMAIN items'
      BY <1>0, <1>3, <1>8, EnqueuedItem DEF Enqueues
    <3>2. DOMAIN items' = 1..Len(items') /\ Len(items') \in Nat
      <4>1. StoreTypeOK'
        BY <1>0, CoordinatorMoves, BodyMoves DEF Keeps
      <4> QED BY <4>1, LenProperties DEF StoreTypeOK
    <3> HIDE DEF i
    <3> QED BY <3>1, <3>2
  <2>4. /\ op'[p].item = i /\ op'[p].run = r /\ op'[p].kind = "bgapprove" /\ pc'[p] = "release"
        /\ exc' = exc
    BY <1>0, <1>8, <2>1 DEF Enqueues, ThreadTypeOK
  <2> HIDE DEF i
  <2>5. Promising(p, r)'
    BY <2>1, <2>3, <2>4 DEF Promising
  <2> QED BY <2>2, <2>5 DEF Woken
<1>9. CASE r = op[p].run /\ ~Enqueues(p)
  <2>1. run[r] = "queued" /\ Woken(r)
    BY <1>0, <1>2, <1>3, <1>9, SectionQueues DEF Awaken
  <2>2. \A c \in Client : Promising(c, r) => Promising(c, r)'
    BY <1>0, <1>4, <2>1, PromiseKept
  <2>3. Attending(r) => Attending(r)'
    BY <1>0, <1>5, <2>1, AttentionKept
  <2> QED BY <1>0, <1>6, <2>1, <2>2, <2>3 DEF Woken
<1> QED BY <1>7, <1>8, <1>9

LEMMA WorkerWakes ==
    ASSUME LostInv, NEW ok \in BOOLEAN, WorkerStep(ok)
    PROVE  WakeInv'
<1>0. /\ TypeInv /\ ThreadTypeOK /\ StoreTypeOK /\ Worker \in Proc /\ Shape(Worker) /\ NameInv
      /\ faults \in Nat
  BY RunStoreAssumption DEF LostInv, NameInv, TokenInv, TypeInv, TypeOK, StoreTypeOK, ShapeInv, Proc
<1>1. /\ \A q \in Proc : q # Worker => pc'[q] = pc[q] /\ op'[q] = op[q] /\ exc'[q] = exc[q]
      /\ phase' = phase /\ todo' = todo /\ (faults' = 0 => faults = 0)
  BY <1>0, WorkerStepOutside, WorkerShape, WorkerKeepsOp
<1> SUFFICES ASSUME faults' = 0, phase \in {"schedule", "serving"}, NEW r \in Run, run'[r] = "queued"
             PROVE  Woken(r)'
  BY <1>1 DEF WakeInv, Awaken
<1>2. Awaken
  BY <1>1 DEF LostInv, WakeInv
<1>3. \A c \in Client : Promising(c, r) => Promising(c, r)'
  BY <1>1, RunStoreAssumption DEF Promising, Proc
<1>4. Storage(ok) => ok
  BY <1>0 DEF Storage
<1>5. \A l : Continue(Worker, l) => l = pc'[Worker] /\ op' = op
  BY <1>0 DEF Continue, Goto, ThreadTypeOK
<1>6. ASSUME run[r] = "queued", InQueue(r) => InQueue(r)' \/ Attending(r)',
             pending[r] # 0 => pending'[r] # 0 \/ InQueue(r)',
             Attending(r) => Attending(r)'
      PROVE  Woken(r)'
  <2>1. Woken(r)
    BY <1>2, <1>6 DEF Awaken
  <2> QED BY <1>1, <1>3, <1>6, <2>1 DEF Woken
<1>7. CASE GetWake
  <2>1. /\ 1 \in DOMAIN queue /\ Head(queue) = queue[1] /\ queue' = Tail(queue)
        /\ \A k \in DOMAIN queue : k = 1 \/ (k - 1 \in DOMAIN queue' /\ queue'[k - 1] = queue[k])
    BY <1>0, <1>7, TailWake DEF GetWake
  <2>2. InQueue(r) => InQueue(r)' \/ queue[1].run = r
    BY <2>1 DEF InQueue
  <2>3. queue[1].run = r => Attending(r)'
    <3>1. queue[1].run = r => queue[1] # Sentinel
      BY RunStoreAssumption DEF Sentinel, Wake
    <3>2. queue[1] # Sentinel => pc'[Worker] = "wake" /\ op'[Worker].run = queue[1].run
      BY <1>0, <1>7, <2>1 DEF GetWake, Begin, Goto, ThreadTypeOK
    <3> QED BY <3>1, <3>2 DEF Attending
  <2>4. ~Attending(r) /\ run' = run /\ pending' = pending
    BY <1>7 DEF GetWake, Attending, storeVars
  <2> QED BY <1>6, <2>2, <2>3, <2>4
<1>8. CASE Settle
  <2>0. run' = run /\ ~Attending(r) /\ op[Worker].run \in Run /\ Exists(op[Worker].run)
    BY <1>0, <1>8 DEF Settle, Attending, storeVars, TypeInv, ThreadsExist, Resting
  <2>1. CASE pending[op[Worker].run] # 0
    <3>1. queue' = Append(queue, Wake(pending[op[Worker].run], op[Worker].run)) /\ pending[op[Worker].run] \in Nat
      BY <1>0, <1>8, <2>0, <2>1 DEF Settle, TypeInv, TypeOK
    <3>2. /\ DOMAIN queue' = DOMAIN queue \cup {Len(queue) + 1}
          /\ \A k \in DOMAIN queue : queue'[k] = queue[k]
          /\ queue'[Len(queue) + 1] = Wake(pending[op[Worker].run], op[Worker].run)
      BY <1>0, <2>0, <3>1, AppendWake
    <3>3. (InQueue(r) => InQueue(r)') /\ (op[Worker].run = r => InQueue(r)')
      BY <3>2 DEF InQueue, Wake
    <3>4. op[Worker].run # r => pending'[r] = pending[r]
      BY <1>0, <1>8, <2>0, <2>1 DEF Settle, TypeInv, TypeOK
    <3> QED BY <1>6, <2>0, <3>3, <3>4
  <2>2. CASE pending[op[Worker].run] = 0
    <3>1. queue' = queue /\ pending' = pending
      BY <1>8, <2>2 DEF Settle
    <3> QED BY <1>6, <2>0, <3>1 DEF InQueue
  <2> QED BY <2>1, <2>2
<1>9. ~PutBack
  BY <1>0, <1>1 DEF PutBack, Shape
<1>10. CASE op' = op /\ UNCHANGED <<queue, pending>>
  <2>0. InQueue(r) => InQueue(r)'
    BY <1>10 DEF InQueue
  <2>1. CASE op[Worker].run # r
    <3>1. run'[r] = run[r] /\ ~Attending(r)
      BY <1>0, <2>1, WorkerWrites DEF OnlyRun, Attending
    <3> QED BY <1>6, <1>10, <2>0, <3>1
  <2>2. CASE op[Worker].run = r
    <3> USE DEF Attending
    <3>1. CASE LoopTest \/ Reconcile(ok) \/ ReleaseOrphans(ok)
      <4>1. run' = run /\ ~Attending(r)
        BY <3>1 DEF LoopTest, Reconcile, ReleaseOrphans, storeVars
      <4> QED BY <1>6, <1>10, <2>0, <4>1
    <3>2. CASE ReadWake(ok)
      <4>1. run' = run /\ Storage(ok) /\ Continue(Worker, IF ok THEN Branch(r, op[Worker].item) ELSE "reput")
        BY <2>2, <3>2 DEF ReadWake
      <4>2. Branch(r, op[Worker].item) = "acquire"
        BY <4>1 DEF Branch, TerminalRun
      <4>3. Attending(r)'
        BY <1>4, <1>5, <2>2, <4>1, <4>2
      <4> QED BY <4>3 DEF Woken
    <3>3. CASE RequeueSegment(ok)
      <4>1. pc'[Worker] \in {"acquire", "terminalize"}
        BY <1>4, <1>5, <3>3 DEF RequeueSegment
      <4> QED BY <1>10, <2>2, <4>1 DEF Woken
    <3>4. ~ConfigurationMissing(ok)
      BY <1>0, <1>4, <2>2 DEF ConfigurationMissing, SetRun, StoreTypeOK
    <3>5. ~Terminalize(ok)
      BY <1>0, <1>4, <2>2 DEF Terminalize, StoreTypeOK, LiveRun
    <3> QED BY <1>7, <1>8, <1>9, <3>1, <3>2, <3>3, <3>4, <3>5 DEF WorkerStep
  <2> QED BY <2>1, <2>2
<1> QED BY <1>0, <1>7, <1>8, <1>9, <1>10, WorkerKeepsOp

LEMMA ClientWakes ==
    ASSUME LostInv, NEW d \in Client, Request(d) \/ Schedule(d) \/ Put(d)
    PROVE  WakeInv'
<1>0. /\ TypeInv /\ ThreadTypeOK /\ StoreTypeOK /\ d \in Proc /\ d # Worker /\ Shape(d) /\ NameInv
      /\ Worker \in Proc
  BY RunStoreAssumption DEF LostInv, NameInv, TokenInv, TypeInv, TypeOK, StoreTypeOK, ShapeInv, Proc
<1>1. /\ \A q \in Proc : q # d => pc'[q] = pc[q] /\ op'[q] = op[q] /\ exc'[q] = exc[q]
      /\ faults' = faults
  BY <1>0, ClientShape
<1>2. phase' = phase /\ todo' = todo
  BY DEF Request, StartRun, JobRequest, BackgroundApproval, Schedule, Put, memVars
<1> SUFFICES ASSUME faults' = 0, phase \in {"schedule", "serving"}, NEW r \in Run, run'[r] = "queued"
             PROVE  Woken(r)'
  BY <1>2 DEF WakeInv, Awaken
<1>3. Awaken
  BY <1>1 DEF LostInv, WakeInv
<1>4. \A c \in Client : c # d /\ Promising(c, r) => Promising(c, r)'
  BY <1>1 DEF Promising, Proc
<1>5. Attending(r) => Attending(r)'
  BY <1>0, <1>1 DEF Attending
<1>6. ASSUME run[r] = "queued", InQueue(r) => InQueue(r)', pending[r] # 0 => pending'[r] # 0,
             Promising(d, r) => Promising(d, r)' \/ InQueue(r)' \/ pending'[r] # 0
      PROVE  Woken(r)'
  <2>1. Woken(r)
    BY <1>3, <1>6 DEF Awaken
  <2> QED BY <1>2, <1>4, <1>5, <1>6, <2>1 DEF Woken
<1>7. ASSUME NEW x \in Run, NEW bg \in BOOLEAN, StartRun(d, x, bg) PROVE Woken(r)'
  <2>1. /\ op'[d].run = x /\ queue' = queue /\ pending' = pending /\ pc[d] = "idle"
        /\ (pc'[d] = "schedule" \/ (pc'[d] = "acquire" /\ op'[d].kind = "start"))
    BY <1>0, <1>7 DEF StartRun, Admitted, Begin, Goto, ThreadTypeOK, memVars
  <2>2. CASE x = r
    BY <2>1, <2>2 DEF Promising, Woken
  <2>3. CASE x # r
    <3>1. run[r] = "queued" /\ ~Promising(d, r)
      BY <1>0, <1>7, <2>1, <2>3 DEF StartRun, SetRun, StoreTypeOK, Promising
    <3> QED BY <1>6, <2>1, <3>1 DEF InQueue
  <2> QED BY <2>2, <2>3
<1>8. CASE \/ \E x \in Run, j \in Job, kind \in {"approve", "reject", "cancel"} : JobRequest(d, kind, x, j)
           \/ \E x \in Run, j \in Job : BackgroundApproval(d, x, j)
  <2>1. run' = run /\ queue' = queue /\ pending' = pending /\ pc[d] = "idle"
    BY <1>8 DEF JobRequest, BackgroundApproval, Admitted, memVars, storeVars
  <2>2. ~Promising(d, r)
    BY <2>1 DEF Promising
  <2> QED BY <1>6, <2>1, <2>2 DEF InQueue
<1>9. pc[d] \in {"schedule", "put"} => op[d].run \in Run /\ Exists(op[d].run) /\ op[d].item \in Nat /\ op[d].item # 0
  <2>1. pc[d] \in {"schedule", "put"} => Named(d) /\ ~Itemless(d) /\ op[d].run \in Run /\ Exists(op[d].run)
    BY <1>0 DEF NameInv, NamesInv, ThreadNames, Resting, Itemless, TypeInv, ThreadsExist
  <2> QED BY <1>0, <2>1, NamedIsPositive DEF Named
<1>10. CASE Schedule(d)
  <2>1. run' = run /\ queue' = queue /\ pc[d] = "schedule"
    BY <1>10 DEF Schedule, storeVars
  <2>2. pending[r] # 0 => pending'[r] # 0
    BY <1>0, <1>9, <1>10, <2>1 DEF Schedule, TypeInv, TypeOK
  <2>3. Promising(d, r) => pending'[r] # 0 \/ Promising(d, r)'
    <3>1. \/ pending' = [pending EXCEPT ![op[d].run] = op[d].item]
          \/ pc'[d] = "put" /\ op' = op
      BY <1>0, <1>10 DEF Schedule, Continue, Goto, ThreadTypeOK
    <3> QED BY <1>0, <1>9, <2>1, <3>1 DEF Promising, TypeInv, TypeOK
  <2> QED BY <1>6, <2>1, <2>2, <2>3 DEF InQueue
<1>11. CASE Put(d)
  <2>1. /\ run' = run /\ pending' = pending /\ pc[d] = "put"
        /\ queue' = Append(queue, Wake(op[d].item, op[d].run))
    BY <1>11 DEF Put, storeVars
  <2>2. /\ DOMAIN queue' = DOMAIN queue \cup {Len(queue) + 1}
        /\ \A k \in DOMAIN queue : queue'[k] = queue[k]
        /\ queue'[Len(queue) + 1] = Wake(op[d].item, op[d].run)
    BY <1>0, <1>9, <2>1, AppendWake
  <2>3. (InQueue(r) => InQueue(r)') /\ (op[d].run = r => InQueue(r)')
    BY <2>2 DEF InQueue, Wake
  <2> QED BY <1>6, <2>1, <2>3 DEF Promising
<1> QED BY <1>7, <1>8, <1>10, <1>11 DEF Request

LEMMA WakesInductive == LostInv /\ [Next]_vars => LostInv'
<1> SUFFICES ASSUME LostInv, [Next]_vars PROVE LostInv'
  OBVIOUS
<1>0. NameInv' /\ FreshInv' /\ TypeInv /\ Quiet
  BY NamesInductive, FreshInductive DEF LostInv, NameInv, TokenInv
<1>1. CASE Start \/ Stop \/ Stopped \/ Crash
  BY <1>0, <1>1 DEF Start, Stop, Stopped, Crash, LostInv, WakeInv
<1>2. CASE \/ \E r \in Run : ReleaseLocks(r)
           \/ \E i \in DOMAIN items : RecoverItem(i)
           \/ RecoverJobs \/ RecoverRun
  BY <1>0, <1>2 DEF ReleaseLocks, RecoverItem, RecoverJobs, RecoverRun, memVars, LostInv, WakeInv
<1>3. CASE StartThread
  BY <1>0, <1>3 DEF StartThread, LostInv, WakeInv, Awaken, Woken, storeVars
<1>4. CASE Accept
  <2>1. todo = {} /\ phase = "schedule" /\ faults' = faults /\ run' = run
    BY <1>4 DEF Accept, storeVars
  <2>2. UNCHANGED <<pc, op, exc, queue, pending>>
    BY <1>4 DEF Accept, threadVars
  <2>3. \A r \in Run : Woken(r) => Woken(r)'
    BY <2>1, <2>2 DEF Woken, Promising, Attending, InQueue
  <2> QED BY <1>0, <2>1, <2>3 DEF LostInv, WakeInv, Awaken
<1>5. ASSUME NEW x \in Run, ScheduleRecovered(x) PROVE LostInv'
  <2> DEFINE Q == BackgroundItems(x, {"queued"})
             i == IF Q = {} THEN Len(items) + 1 ELSE Latest(Q)
  <2>1. /\ items' = IF Q = {} THEN Append(items, NewItem(x, TRUE)) ELSE items
        /\ queue' = Append(queue, Wake(i, x)) /\ UNCHANGED <<pc, op, exc>> /\ phase' = phase
        /\ pending' = pending /\ run' = run /\ faults' = faults /\ todo' = todo \ {x} /\ Exists(x)
    BY <1>0, <1>5 DEF ScheduleRecovered, threadVars, TypeInv, StartupExists
  <2>2. i \in Nat
    BY <1>0, <2>1, EnqueuedItem
  <2> HIDE DEF i, Q
  <2>3. /\ DOMAIN queue' = DOMAIN queue \cup {Len(queue) + 1}
        /\ \A k \in DOMAIN queue : queue'[k] = queue[k]
        /\ queue'[Len(queue) + 1] = Wake(i, x)
    BY <1>0, <2>1, <2>2, AppendWake
  <2>4. InQueue(x)' /\ \A r \in Run : InQueue(r) => InQueue(r)'
    BY <2>3 DEF InQueue, Wake
  <2>5. \A r \in Run : Woken(r) => Woken(r)'
    BY <2>1, <2>4 DEF Woken, Promising, Attending
  <2> QED BY <1>0, <2>1, <2>5 DEF LostInv, WakeInv, Awaken
<1>6. CASE UNCHANGED vars
  <2>1. \A r \in Run : Woken(r)' <=> Woken(r)
    BY <1>6 DEF vars, storeVars, threadVars, memVars, Woken, Promising, Attending, InQueue
  <2> QED BY <1>0, <1>6, <2>1 DEF LostInv, WakeInv, Awaken, vars, storeVars, memVars
<1> QED BY <1>0, <1>1, <1>2, <1>3, <1>4, <1>5, <1>6, SectionWakes, WorkerWakes, ClientWakes DEF Next, Startup, LostInv

\* No wake-up is lost: while the service accepts work and nothing has failed,
\* a queued run is in _scheduled or a request of its own will see to it.
THEOREM NoWakeUpIsLost == Spec => []NoLostWakeUp
<1>1. Init => LostInv
  BY InitType, InitTokens, InitNames, InitFresh DEF TokenInv, NameInv, LostInv, WakeInv, Init
<1>2. LostInv => NoLostWakeUp
  <2> SUFFICES ASSUME LostInv, NEW r \in Run, faults = 0, phase = "serving", run[r] = "queued"
               PROVE  r \in scheduled \/ \E c \in Client : pc[c] # "idle" /\ op[c].run = r
    BY DEF NoLostWakeUp
  <2>1. Woken(r) /\ WakeUpTokens
    BY DEF LostInv, WakeInv, Awaken, NameInv, TokenInv
  <2>2. (InQueue(r) \/ Handling(r) \/ pending[r] # 0) => r \in scheduled
    BY <2>1 DEF WakeUpTokens
  <2> QED BY <2>1, <2>2 DEF Woken, Promising, Attending, Handling
<1> QED BY <1>1, <1>2, WakesInductive, PTL DEF Spec

----------------------------------------------------------------------------
(* The stages of a segment.  How far the worker has come with its item,     *)
(* what it holds, and what the run of a thread that is about to activate it *)
(* looks like: nobody else may activate it in the meantime.                 *)

GoodInv == WriteInv /\ NameInv /\ FreshInv

LEMMA GoodInductive == GoodInv /\ [Next]_vars => GoodInv'
  BY WriteInductive, NamesInductive, FreshInductive DEF GoodInv

\* The item of the worker, which nobody else writes.
ItemStages ==
    /\ pc[Worker] \in {"mark", "fail_item"} => items[op[Worker].item].status = "queued"
    /\ pc[Worker] \in {"activate", "segment", "close", "finish", "error_item"} =>
          items[op[Worker].item].status = "running"
    /\ pc[Worker] = "requeue" => items[op[Worker].item].status \in {"running", "failed"}
    /\ phase = "stopped" => pc[Worker] = "dead"

HoldInv ==
    \A r \in Run \ disturbed :
        op[Worker].run = r /\ pc[Worker] \in {"finish", "error_item"} => lock[r] = Worker

\* A foreground approval resumes a waiting run, never a queued one.
ResumeInv ==
    \A r \in Run \ disturbed, c \in Client :
        op[c].run = r /\ op[c].kind = "approve" /\ pc[c] = "activate" =>
            run[r] \in TerminalRun \cup {"waiting"}

ActivateInv ==
    \A r \in Run \ disturbed :
        op[Worker].run = r /\ pc[Worker] \in {"acquire", "mark", "activate", "fail_item"} =>
            run[r] \in TerminalRun \cup {"queued"}

StageInv == ItemStages /\ HoldInv /\ ResumeInv /\ ActivateInv

\* A client inside the section writes no background row; it adds one only in the
\* approval that finds no active segment.
LEMMA ClientSectionItems ==
    ASSUME NameInv, NEW p \in Client, NEW ok \in BOOLEAN, CoordinatorStep(p, ok) \/ BodyStep(p, ok)
    PROVE  /\ \A k \in DOMAIN items : k \in DOMAIN items' /\ (items[k].bg => items'[k] = items[k])
           /\ \A k \in DOMAIN items' \ DOMAIN items :
                 items'[k] = NewItem(op[p].run, TRUE) /\ BackgroundItems(op[p].run, ActiveItem) = {} /\ Enqueues(p)
           /\ RowsKept
<1>0. /\ TypeInv /\ StoreTypeOK /\ ThreadTypeOK /\ p \in Proc /\ p # Worker /\ Shape(p) /\ op[p].kind # "wake"
  BY RunStoreAssumption DEF NameInv, TokenInv, TypeInv, TypeOK, ShapeInv, Proc, Shape
<1>1. pc[p] \in SectionPc /\ op[p].run \in Run
  <2>1. Moves(p)
    BY <1>0, CoordinatorMoves, BodyMoves
  <2> QED BY <1>0, <2>1, WorkingRun DEF Moves
<1>2. CASE items' = items
  BY <1>2 DEF RowsKept
<1>3. CASE Writes(op[p].item) /\ pc[p] \in {"mark", "fail_item", "finish", "error_item"}
  <2>1. ~Background(op[p].kind)
    BY <1>0, <1>3 DEF Shape, Placed, SectionPc, Resting, Background
  <2>2. Names(op[p].item, op[p].run, op[p].kind)
    BY <1>0, <1>3, <2>1 DEF NameInv, NamesInv, ThreadNames, Named, Itemless, Background, Resting
  <2>3. /\ DOMAIN items' = DOMAIN items /\ RowsKept
        /\ \A k \in DOMAIN items : k # op[p].item => items'[k] = items[k]
    BY <1>0, <1>3, WritesKeep
  <2> QED BY <2>1, <2>2, <2>3 DEF Names
<1>4. CASE Adds(op[p].run, TRUE) /\ pc[p] = "enqueue" /\ items' # items
  <2>1. /\ DOMAIN items' = DOMAIN items \cup {Len(items) + 1} /\ RowsKept
        /\ \A k \in DOMAIN items : items'[k] = items[k]
        /\ items'[Len(items) + 1] = NewItem(op[p].run, TRUE)
    BY <1>0, <1>1, <1>4, AddsKeep
  <2>2. Enqueues(p)
    BY <1>0, <1>4, SectionKeepsOp
  <2>3. BackgroundItems(op[p].run, ActiveItem) = {}
    BY <1>4, <2>2 DEF Enqueues
  <2> QED BY <2>1, <2>2, <2>3
<1> QED BY <1>0, <1>2, <1>3, <1>4, SectionWrites

\* A step in which the worker takes no part and its item is left alone.
LEMMA StagesStay ==
    ASSUME NameInv, ItemStages, pc'[Worker] = pc[Worker], op'[Worker] = op[Worker],
           phase' = "stopped" => phase = "stopped" \/ pc[Worker] = "dead",
           \A k \in DOMAIN items : items[k].bg => items'[k] = items[k]
    PROVE  ItemStages'
<1>1. pc[Worker] \notin Resting => op[Worker].item \in DOMAIN items /\ items[op[Worker].item].bg
  BY DEF NameInv, NamesInv, ThreadNames, Named, Names, Itemless, Background, ShapeInv, Shape, Placed, Proc
<1> QED BY <1>1 DEF ItemStages, Resting

\* The write of the worker to its own item.
LEMMA OwnStatus ==
    ASSUME NameInv, pc[Worker] \notin Resting, NEW s \in ItemStatus, items' = WithStatus(op[Worker].item, s)
    PROVE  items'[op[Worker].item].status = s
<1>1. op[Worker].item \in DOMAIN items
  BY DEF NameInv, NamesInv, ThreadNames, Named, Names, Itemless, ShapeInv, Shape, Proc
<1>2. items \in Seq(ItemRow)
  BY DEF NameInv, TokenInv, TypeInv, TypeOK, StoreTypeOK, ItemRow
<1> QED BY <1>1, <1>2, WithStatusRow

\* The runner as the worker calls it.
LEMMA WorkerBody ==
    ASSUME NameInv, NEW ok \in BOOLEAN, BodyStep(Worker, ok)
    PROVE  /\ pc[Worker] \in {"activate", "segment", "close"}
           /\ items' = items /\ op' = op
           /\ pc'[Worker] \in {"segment", "close", "finish", "error_item"}
<1>0. ThreadTypeOK /\ Worker \in Proc /\ Shape(Worker) /\ op[Worker].kind \in {"none", "wake"}
  BY DEF NameInv, TokenInv, TypeInv, TypeOK, ShapeInv, Shape, Proc
<1>1. \A l : Continue(Worker, l) => l = pc'[Worker] /\ op' = op
  BY <1>0 DEF Continue, Goto, ThreadTypeOK
<1>2. \A l, e : Raise(Worker, e, l) => l = pc'[Worker] /\ op' = op
  BY <1>0 DEF Raise, Goto, ThreadTypeOK
<1>3. pc[Worker] \in {"activate", "segment", "close"}
  BY <1>0 DEF Shape, Placed, Resting, BodyStep, Load, ApplyApproval, TerminalAction, EnqueueApproved,
              Activate, RunnerUnavailable, RequestApproval, CommitApproved, WaitRun, CompleteRun, FailRun,
              CloseRuntimeState, SegmentInterrupted
<1>4. ~(Load(Worker, ok) \/ ApplyApproval(Worker, ok) \/ TerminalAction(Worker, ok) \/ EnqueueApproved(Worker, ok))
  BY <1>3 DEF Load, ApplyApproval, TerminalAction, EnqueueApproved
<1>5. items' = items
  BY <1>4 DEF BodyStep, Activate, RunnerUnavailable, RequestApproval, CommitApproved, WaitRun, CompleteRun,
              FailRun, CloseRuntimeState, SegmentInterrupted, storeVars
<1>6. op' = op /\ pc'[Worker] \in {"segment", "close", "finish", "error_item"}
  <2>1. CASE Activate(Worker, ok) \/ RunnerUnavailable(Worker)
    BY <1>1, <1>2, <2>1 DEF Activate, RunnerUnavailable
  <2>2. CASE \E j \in Job : RequestApproval(Worker, j) \/ CommitApproved(Worker, j)
    BY <1>1, <2>2 DEF RequestApproval, CommitApproved
  <2>3. CASE WaitRun(Worker, ok) \/ CompleteRun(Worker) \/ FailRun(Worker)
    BY <1>1, <1>2, <2>3 DEF WaitRun, CompleteRun, FailRun
  <2>4. CASE CloseRuntimeState(Worker, ok) \/ SegmentInterrupted(Worker)
    BY <1>2, <2>4 DEF CloseRuntimeState, SegmentInterrupted
  <2> QED BY <1>4, <2>1, <2>2, <2>3, <2>4 DEF BodyStep
<1> QED BY <1>3, <1>5, <1>6

LEMMA WorkerStages ==
    ASSUME NameInv, ItemStages, NEW ok \in BOOLEAN,
           SectionStep(Worker, ok) \/ WorkerStep(ok)
    PROVE  ItemStages'
<1> DEFINE i == op[Worker].item
<1>0. /\ TypeInv /\ ThreadTypeOK /\ StoreTypeOK /\ Worker \in Proc /\ Shape(Worker)
      /\ op[Worker].kind \in {"none", "wake"}
  BY DEF NameInv, TokenInv, TypeInv, TypeOK, ShapeInv, Shape, Proc
<1>1. \A l : Continue(Worker, l) => l = pc'[Worker] /\ op' = op
  BY <1>0 DEF Continue, Goto, ThreadTypeOK
<1>2. \A l, e : Raise(Worker, e, l) => l = pc'[Worker] /\ op' = op
  BY <1>0 DEF Raise, Goto, ThreadTypeOK
<1>3. \A e : Return(Worker, e) => pc'[Worker] \in {"settle", "reput", "terminalize"}
  BY <1>0 DEF Return, Goto, ThreadTypeOK
<1>4. {"running", "failed", "queued"} \subseteq ItemStatus
  BY DEF ItemStatus, RunStatus, LiveRun, TerminalRun
<1>5. CASE CoordinatorStep(Worker, ok) /\ phase' = phase
  <2>0. phase' # "stopped" /\ pc[Worker] # "load"
    BY <1>0, <1>5 DEF ItemStages, CoordinatorStep, NotQueued, AcquireLock, AcquireFailed, MarkRunning, FailItem,
              FinishItem, ErrorItem, ReleaseLock
  <2>1. CASE NotQueued(Worker) \/ ReleaseLock(Worker, ok)
    BY <1>3, <2>0, <2>1 DEF NotQueued, ReleaseLock, ItemStages
  <2>2. CASE AcquireLock(Worker) \/ AcquireFailed(Worker, ok)
    <3>1. /\ items' = items /\ items[op[Worker].item].status = "queued" /\ op' = op
          /\ pc'[Worker] \in {"mark", "fail_item"}
      <4>1. op[Worker].kind # "bgapprove"
        BY <1>0
      <4> QED BY <1>1, <1>2, <2>2, <4>1 DEF AcquireLock, AcquireFailed
    <3> QED BY <2>0, <3>1 DEF ItemStages
  <2>3. CASE MarkRunning(Worker, ok)
    <3>1. pc[Worker] = "mark" /\ op[Worker].kind = "wake"
      BY <1>0, <2>3 DEF MarkRunning, Shape, Placed, Resting
    <3>2. CASE ok
      <4>1. items' = WithStatus(i, "running") /\ pc'[Worker] = "activate" /\ op' = op
        BY <1>1, <2>3, <3>1, <3>2 DEF MarkRunning
      <4>2. items'[i].status = "running"
        BY <1>4, <3>1, <4>1, OwnStatus DEF Resting
      <4> QED BY <2>0, <4>1, <4>2 DEF ItemStages
    <3>3. CASE ~ok
      <4>1. items' = items /\ pc'[Worker] = "fail_item" /\ op' = op
        BY <1>2, <2>3, <3>3 DEF MarkRunning
      <4> QED BY <2>0, <3>1, <4>1 DEF ItemStages
    <3> QED BY <3>2, <3>3
  <2>4. CASE FailItem(Worker, ok) \/ ErrorItem(Worker, ok)
    <3>1. pc'[Worker] \in {"release", "settle", "reput", "terminalize"}
      BY <1>1, <1>3, <2>4 DEF FailItem, ErrorItem
    <3> QED BY <2>0, <3>1 DEF ItemStages
  <2>5. CASE FinishItem(Worker, ok)
    <3>1. pc'[Worker] = "release" \/ (pc'[Worker] = "error_item" /\ items' = items /\ op' = op)
      BY <1>1, <1>2, <2>5 DEF FinishItem
    <3> QED BY <2>0, <2>5, <3>1 DEF ItemStages, FinishItem
  <2> QED BY <1>5, <2>1, <2>2, <2>3, <2>4, <2>5 DEF CoordinatorStep
<1>6. CASE BodyStep(Worker, ok) /\ phase' = phase
  BY <1>6, WorkerBody DEF ItemStages
<1>7. CASE WorkerStep(ok)
  <2>0. phase' # "stopped" /\ phase' = phase
    <3>1. pc[Worker] # "dead"
      BY <1>7 DEF WorkerStep, LoopTest, GetWake, ReadWake, RequeueSegment, ReleaseOrphans, Reconcile,
                  ConfigurationMissing, Terminalize, PutBack, Settle
    <3> QED BY <1>0, <1>7, <3>1, WorkerStepOutside DEF ItemStages
  <2>1. ASSUME pc'[Worker] \notin {"mark", "fail_item", "activate", "segment", "close", "finish", "error_item"},
               pc'[Worker] # "requeue" PROVE ItemStages'
    BY <2>0, <2>1 DEF ItemStages
  <2>2. CASE LoopTest \/ GetWake \/ PutBack \/ Settle
    BY <1>0, <2>1, <2>2 DEF LoopTest, GetWake, PutBack, Settle, Begin, Continue, Goto, ThreadTypeOK
  <2>3. CASE ReleaseOrphans(ok) \/ Reconcile(ok) \/ ConfigurationMissing(ok) \/ Terminalize(ok)
    BY <1>1, <2>1, <2>3 DEF ReleaseOrphans, Reconcile, ConfigurationMissing, Terminalize
  <2>4. CASE RequeueSegment(ok)
    BY <1>1, <2>1, <2>4 DEF RequeueSegment
  <2>5. CASE ReadWake(ok)
    <3>1. items' = items /\ op' = op /\
          (pc'[Worker] \in {"settle", "reput"} \/ pc'[Worker] = Branch(op[Worker].run, op[Worker].item))
      BY <1>1, <2>5 DEF ReadWake
    <3>2. Branch(op[Worker].run, op[Worker].item) \in {"acquire", "orphans", "reconcile"} \/
          (/\ Branch(op[Worker].run, op[Worker].item) = "requeue"
           /\ items[op[Worker].item].status \in {"running", "failed"})
      BY DEF Branch
    <3> QED BY <2>0, <3>1, <3>2 DEF ItemStages
  <2> QED BY <1>7, <2>2, <2>3, <2>4, <2>5 DEF WorkerStep
<1> QED BY <1>5, <1>6, <1>7 DEF SectionStep, memVars

\* A request adds the row of its own item, in the background only for a run
\* that did not exist.
LEMMA ClientRequestItems ==
    ASSUME TypeInv, NEW c \in Client, Request(c) \/ Schedule(c) \/ Put(c)
    PROVE  /\ \A k \in DOMAIN items : k \in DOMAIN items' /\ items'[k] = items[k]
           /\ lock' = lock
           /\ \/ items' = items /\ run' = run
              \/ \E r \in Run, bg \in BOOLEAN :
                    /\ Adds(r, bg)
                    /\ IF bg THEN run[r] = "absent" /\ run' = [run EXCEPT ![r] = "queued"]
                             ELSE run' = run \/ (run[r] = "absent" /\ run' = [run EXCEPT ![r] = "queued"])
<1>0. StoreTypeOK
  BY DEF TypeInv, TypeOK
<1>1. CASE Schedule(c) \/ Put(c)
  BY <1>1 DEF Schedule, Put, storeVars
<1>2. CASE \E r \in Run, bg \in BOOLEAN : StartRun(c, r, bg)
  <2>1. PICK r \in Run, bg \in BOOLEAN : StartRun(c, r, bg)
    BY <1>2
  <2>2. /\ Adds(r, bg) /\ run[r] = "absent" /\ run' = [run EXCEPT ![r] = "queued"] /\ lock' = lock
    BY <2>1 DEF StartRun, Adds, SetRun
  <2>3. \A k \in DOMAIN items : k \in DOMAIN items' /\ items'[k] = items[k]
    BY <1>0, <2>2, AddsKeep
  <2> QED BY <2>2, <2>3
<1>3. CASE \E r \in Run, j \in Job : \E kind \in {"approve", "reject", "cancel"} : JobRequest(c, kind, r, j)
  <2>1. PICK r \in Run, j \in Job, kind \in {"approve", "reject", "cancel"} : JobRequest(c, kind, r, j)
    BY <1>3
  <2>2. Adds(r, FALSE) /\ run' = run /\ lock' = lock
    BY <2>1 DEF JobRequest, Adds
  <2>3. \A k \in DOMAIN items : k \in DOMAIN items' /\ items'[k] = items[k]
    BY <1>0, <2>2, AddsKeep
  <2> QED BY <2>2, <2>3
<1>4. CASE \E r \in Run, j \in Job : BackgroundApproval(c, r, j)
  BY <1>4 DEF BackgroundApproval, storeVars
<1> QED BY <1>1, <1>2, <1>3, <1>4 DEF Request

\* Outside recovery the life cycle leaves every row alone, and adds only the
\* segment of a recovered run.
LEMMA LifecycleItems ==
    ASSUME TokenInv, Start \/ Startup \/ Stop \/ Stopped \/ Crash
    PROVE  \/ phase = "recover" /\ phase' = "recover" /\ pc' = pc /\ op' = op
           \/ /\ \A k \in DOMAIN items : k \in DOMAIN items' /\ items'[k] = items[k]
              /\ run' = run /\ lock' = lock
              /\ \/ pc' = pc /\ op' = op /\ exc' = exc
                 \/ pc'[Worker] \in {"dead", "loop"} /\ \A c \in Client : pc'[c] = "idle"
<1>0. TypeInv /\ StoreTypeOK /\ ThreadTypeOK /\ Quiet /\ Worker \in Proc
  BY DEF TokenInv, TypeInv, TypeOK, Proc
<1>1. CASE Start \/ Stop \/ Stopped \/ Accept
  BY <1>1 DEF Start, Stop, Stopped, Accept, storeVars, threadVars
<1>2. CASE \/ \E r \in Run : ReleaseLocks(r)
           \/ \E i \in DOMAIN items : RecoverItem(i)
           \/ RecoverJobs \/ RecoverRun
  BY <1>2 DEF ReleaseLocks, RecoverItem, RecoverJobs, RecoverRun, threadVars, memVars
<1>3. CASE StartThread
  BY <1>0, <1>3, RunStoreAssumption DEF StartThread, Quiet, storeVars, Continue, Goto, ThreadTypeOK, Proc
<1>4. CASE Crash
  BY <1>0, <1>4, RunStoreAssumption DEF Crash, storeVars, Proc
<1>5. ASSUME NEW r \in Run, ScheduleRecovered(r)
      PROVE  /\ \A k \in DOMAIN items : k \in DOMAIN items' /\ items'[k] = items[k]
             /\ run' = run /\ lock' = lock /\ pc' = pc /\ op' = op /\ exc' = exc
  <2>1. items' = items \/ Adds(r, TRUE)
    BY <1>5 DEF ScheduleRecovered, Adds
  <2>2. \A k \in DOMAIN items : k \in DOMAIN items' /\ items'[k] = items[k]
    BY <1>0, <2>1, AddsKeep
  <2> QED BY <1>5, <2>2 DEF ScheduleRecovered, threadVars
<1> QED BY <1>1, <1>2, <1>3, <1>4, <1>5 DEF Startup

LEMMA StagesOfItem == ASSUME NameInv, ItemStages, [Next]_vars PROVE ItemStages'
<1>0. /\ TypeInv /\ TokenInv /\ Quiet /\ Worker \in Proc /\ Worker \notin Client
  BY RunStoreAssumption DEF NameInv, TokenInv, Proc
<1>1. ASSUME NEW p \in Client, NEW ok \in BOOLEAN, SectionStep(p, ok) PROVE ItemStages'
  <2>1. Moves(p) /\ p \in Proc /\ phase' = phase /\ (CoordinatorStep(p, ok) \/ BodyStep(p, ok))
    BY <1>0, <1>1, CoordinatorMoves, BodyMoves DEF SectionStep, memVars, Proc
  <2>2. \A k \in DOMAIN items : items[k].bg => items'[k] = items[k]
    BY <2>1, ClientSectionItems
  <2> QED BY <1>0, <2>1, <2>2, StagesStay DEF Moves
<1>2. ASSUME NEW ok \in BOOLEAN, SectionStep(Worker, ok) \/ WorkerStep(ok) PROVE ItemStages'
  BY <1>2, WorkerStages
<1>3. ASSUME NEW c \in Client, Request(c) \/ Schedule(c) \/ Put(c) PROVE ItemStages'
  <2>1. pc'[Worker] = pc[Worker] /\ op'[Worker] = op[Worker]
    BY <1>0, <1>3, ClientShape DEF NameInv, ShapeInv, Proc
  <2>2. phase' = phase
    BY <1>3 DEF Request, StartRun, JobRequest, BackgroundApproval, Schedule, Put, memVars
  <2>3. \A k \in DOMAIN items : items[k].bg => items'[k] = items[k]
    BY <1>0, <1>3, ClientRequestItems
  <2> QED BY <2>1, <2>2, <2>3, StagesStay
<1>4. ASSUME Start \/ Startup \/ Stop \/ Stopped \/ Crash PROVE ItemStages'
  <2>1. phase' = "stopped" => phase = "stopped" \/ pc[Worker] = "dead"
    BY <1>4 DEF Start, Startup, Stop, Stopped, Crash, ReleaseLocks, ScheduleRecovered, RecoverItem, RecoverJobs,
                RecoverRun, StartThread, Accept, memVars
  <2>2. CASE phase = "recover" /\ phase' = "recover" /\ pc' = pc /\ op' = op
    BY <1>0, <2>2 DEF ItemStages, Quiet
  <2>3. CASE /\ \A k \in DOMAIN items : k \in DOMAIN items' /\ items'[k] = items[k]
             /\ pc' = pc /\ op' = op
    BY <2>1, <2>3, StagesStay
  <2>4. CASE pc'[Worker] \in {"dead", "loop"} /\ phase' # "stopped"
    BY <2>4 DEF ItemStages
  <2>5. phase' = "stopped" => pc' = pc /\ op' = op
    BY <1>4 DEF Start, Startup, Stop, Stopped, Crash, ReleaseLocks, ScheduleRecovered, RecoverItem, RecoverJobs,
                RecoverRun, StartThread, Accept, memVars, threadVars
  <2> QED BY <1>0, <1>4, <2>2, <2>3, <2>4, <2>5, LifecycleItems
<1>5. CASE UNCHANGED vars
  BY <1>5, StagesStay DEF vars, threadVars, memVars, storeVars
<1> QED BY <1>0, <1>1, <1>2, <1>3, <1>4, <1>5 DEF Next, Proc

\* The worker enters the section only with a queued run.
LEMMA WorkerGoes ==
    ASSUME TypeInv, NEW ok \in BOOLEAN, WorkerStep(ok), pc'[Worker] \in SectionPc
    PROVE  pc'[Worker] = "acquire" /\ op' = op /\ (op[Worker].run \in Run => run'[op[Worker].run] = "queued")
<1>0. ThreadTypeOK /\ StoreTypeOK /\ Worker \in Proc
  BY DEF TypeInv, TypeOK, Proc
<1>1. \A l : Continue(Worker, l) => l = pc'[Worker] /\ op' = op
  BY <1>0 DEF Continue, Goto, ThreadTypeOK
<1>2. CASE LoopTest \/ GetWake \/ PutBack \/ Settle
  <2>1. pc'[Worker] \in {"dead", "get", "wake", "settle", "loop"}
    BY <1>0, <1>2 DEF LoopTest, GetWake, PutBack, Settle, Begin, Continue, Goto, ThreadTypeOK
  <2> QED BY <2>1 DEF SectionPc
<1>3. CASE ReleaseOrphans(ok) \/ Reconcile(ok) \/ ConfigurationMissing(ok) \/ Terminalize(ok)
  BY <1>1, <1>3 DEF ReleaseOrphans, Reconcile, ConfigurationMissing, Terminalize, SectionPc
<1>4. CASE RequeueSegment(ok)
  BY <1>0, <1>1, <1>4 DEF RequeueSegment, SectionPc, SetRun, StoreTypeOK
<1>5. CASE ReadWake(ok)
  <2>1. /\ op' = op /\ run' = run
        /\ pc'[Worker] \in {"settle", "reput"} \/ pc'[Worker] = Branch(op[Worker].run, op[Worker].item)
    BY <1>1, <1>5 DEF ReadWake
  <2>2. \/ Branch(op[Worker].run, op[Worker].item) \in {"requeue", "orphans", "reconcile"}
        \/ Branch(op[Worker].run, op[Worker].item) = "acquire" /\ run[op[Worker].run] = "queued"
    BY DEF Branch, TerminalRun
  <2> QED BY <2>1, <2>2 DEF SectionPc
<1> QED BY <1>2, <1>3, <1>4, <1>5 DEF WorkerStep

LEMMA HoldsLock == ASSUME GoodInv, HoldInv, [Next]_vars PROVE HoldInv'
<1>0. /\ TypeInv /\ ThreadTypeOK /\ Quiet /\ Worker \in Proc /\ Worker \notin Client /\ NoProc # Worker
      /\ LockInv /\ stolen \subseteq disturbed /\ NameInv
  BY RunStoreAssumption DEF GoodInv, WriteInv, StartInv, NameInv, TokenInv, TypeInv, TypeOK, Proc
<1> SUFFICES ASSUME NEW r \in Run \ disturbed', op'[Worker].run = r, pc'[Worker] \in {"finish", "error_item"}
             PROVE  lock'[r] = Worker
  BY DEF HoldInv
<1>1. r \in Run \ disturbed
  BY StepRows DEF GoodInv
<1>2. ASSUME NEW p \in Client, NEW ok \in BOOLEAN, SectionStep(p, ok) PROVE lock'[r] = Worker
  <2>1. Moves(p) /\ p \in Proc /\ p # Worker /\ (CoordinatorStep(p, ok) \/ BodyStep(p, ok))
    BY <1>0, <1>2, CoordinatorMoves, BodyMoves DEF SectionStep, Proc
  <2>2. lock[r] = Worker
    BY <1>0, <1>1, <2>1 DEF HoldInv, Moves
  <2>3. CASE BodyStep(p, ok)
    BY <2>1, <2>2, <2>3, BodyKeepsLock
  <2>4. CASE CoordinatorStep(p, ok)
    BY <1>0, <2>1, <2>2, <2>4, CoordinatorLock DEF TypeInv, TypeOK, StoreTypeOK
  <2> QED BY <2>1, <2>3, <2>4
<1>3. ASSUME NEW ok \in BOOLEAN, SectionStep(Worker, ok) PROVE lock'[r] = Worker
  <2>1. Moves(Worker) /\ (CoordinatorStep(Worker, ok) \/ BodyStep(Worker, ok))
    BY <1>0, <1>3, CoordinatorMoves, BodyMoves DEF SectionStep
  <2>2. op[Worker].run = r
    BY <1>0, <2>1 DEF Moves
  <2>3. CASE BodyStep(Worker, ok)
    <3>1. Using(Worker, r) /\ lock' = lock
      BY <1>0, <2>2, <2>3, BodyKeepsLock DEF Using, UsedPc
    <3> QED BY <1>0, <1>1, <3>1 DEF LockInv
  <2>4. CASE CoordinatorStep(Worker, ok)
    <3>1. FinishItem(Worker, ok)
      <4>1. \A l : Continue(Worker, l) => l = pc'[Worker]
        BY <1>0 DEF Continue, Goto, ThreadTypeOK
      <4>2. \A l, e : Raise(Worker, e, l) => l = pc'[Worker]
        BY <1>0 DEF Raise, Goto, ThreadTypeOK
      <4>3. \A e : Return(Worker, e) => pc'[Worker] \in {"settle", "reput", "terminalize"}
        BY <1>0 DEF Return, Goto, ThreadTypeOK
      <4>4. ~NotQueued(Worker) /\ ~ReleaseLock(Worker, ok)
        BY <4>3 DEF NotQueued, ReleaseLock
      <4>5. ~AcquireLock(Worker) /\ ~MarkRunning(Worker, ok)
        BY <4>1, <4>2 DEF AcquireLock, MarkRunning
      <4>6. ~AcquireFailed(Worker, ok)
        BY <4>2, <4>3 DEF AcquireFailed
      <4>7. ~FailItem(Worker, ok) /\ ~ErrorItem(Worker, ok)
        BY <4>1, <4>3 DEF FailItem, ErrorItem
      <4> QED BY <2>4, <4>4, <4>5, <4>6, <4>7 DEF CoordinatorStep
    <3> QED BY <1>1, <2>2, <3>1 DEF FinishItem, HoldInv
  <2> QED BY <2>1, <2>3, <2>4
<1>4. ASSUME NEW ok \in BOOLEAN, WorkerStep(ok) PROVE lock'[r] = Worker
  BY <1>0, <1>4, WorkerGoes DEF SectionPc
<1>5. ASSUME NEW c \in Client, Request(c) \/ Schedule(c) \/ Put(c) PROVE lock'[r] = Worker
  <2>1. pc'[Worker] = pc[Worker] /\ op'[Worker] = op[Worker] /\ lock' = lock
    BY <1>0, <1>5, ClientShape, ClientRequestItems DEF NameInv, ShapeInv, Proc
  <2> QED BY <1>1, <2>1 DEF HoldInv
<1>6. ASSUME Start \/ Startup \/ Stop \/ Stopped \/ Crash PROVE lock'[r] = Worker
  BY <1>0, <1>1, <1>6, LifecycleItems DEF HoldInv, Quiet, NameInv
<1>7. CASE UNCHANGED vars
  BY <1>1, <1>7 DEF HoldInv, vars, storeVars, threadVars
<1> QED BY <1>0, <1>2, <1>3, <1>4, <1>5, <1>6, <1>7 DEF Next, Proc

\* What a client can make of a queued run that it did not itself submit.
LEMMA QueuedStays ==
    ASSUME GoodInv, ResumeInv, NEW p \in Client, NEW ok \in BOOLEAN, CoordinatorStep(p, ok) \/ BodyStep(p, ok),
           NEW r \in Run \ disturbed, op[p].run = r, run[r] = "queued", ~Starting(p, r)
    PROVE  run'[r] \in TerminalRun \cup {"queued"}
<1>0. /\ TypeInv /\ StoreTypeOK /\ p \in Proc /\ p # Worker /\ Shape(p)
  BY RunStoreAssumption DEF GoodInv, NameInv, TokenInv, TypeInv, TypeOK, ShapeInv, Proc
<1>1. pc[p] # "segment"
  BY <1>0 DEF GoodInv, WriteInv, RowInv, Relying, Required
<1>2. CASE CoordinatorStep(p, ok)
  BY <1>2 DEF CoordinatorStep, NotQueued, AcquireLock, AcquireFailed, MarkRunning, FailItem, FinishItem, ErrorItem,
              ReleaseLock, storeVars
<1>3. CASE Load(p, ok) \/ ApplyApproval(p, ok) \/ CloseRuntimeState(p, ok) \/ RunnerUnavailable(p)
  BY <1>3 DEF Load, ApplyApproval, CloseRuntimeState, RunnerUnavailable, storeVars
<1>4. CASE TerminalAction(p, ok)
  BY <1>0, <1>4 DEF TerminalAction, SetRun, StoreTypeOK, TerminalRun
<1>5. CASE EnqueueApproved(p, ok)
  BY <1>0, <1>5 DEF EnqueueApproved, SetRun, StoreTypeOK
<1>6. CASE Activate(p, ok)
  <2>1. op[p].kind \in {"start", "approve"}
    BY <1>0, <1>6 DEF Activate, Shape, Placed, Resting, StoreTypeOK, TypeInv, TypeOK, ThreadTypeOK, Kind
  <2>2. op[p].kind # "start"
    BY <1>6 DEF Activate, Starting
  <2>3. run[r] \in TerminalRun \cup {"waiting"}
    BY <1>6, <2>1, <2>2 DEF Activate, ResumeInv
  <2> QED BY <2>3 DEF TerminalRun
<1> QED BY <1>1, <1>2, <1>3, <1>4, <1>5, <1>6 DEF BodyStep, RequestApproval, CommitApproved, WaitRun, CompleteRun,
              FailRun, SegmentInterrupted

\* What a client can make of a running run outside the segment.
LEMMA RunningStays ==
    ASSUME GoodInv, ResumeInv, NEW p \in Client, NEW ok \in BOOLEAN, CoordinatorStep(p, ok) \/ BodyStep(p, ok),
           NEW r \in Run \ disturbed, op[p].run = r, run[r] = "running", pc[p] # "segment"
    PROVE  run'[r] \in TerminalRun \/ (run'[r] = "running" /\ pc'[p] # "segment")
<1>0. /\ TypeInv /\ StoreTypeOK /\ ThreadTypeOK /\ p \in Proc /\ p # Worker /\ Shape(p)
  BY RunStoreAssumption DEF GoodInv, NameInv, TokenInv, TypeInv, TypeOK, ShapeInv, Proc
<1>1. \A l : Continue(p, l) => l = pc'[p]
  BY <1>0 DEF Continue, Goto, ThreadTypeOK
<1>2. \A l, e : Raise(p, e, l) => l = pc'[p]
  BY <1>0 DEF Raise, Goto, ThreadTypeOK
<1>3. \A e : Return(p, e) => pc'[p] \in {"schedule", "idle"}
  BY <1>0 DEF Return, Leave, Goto, ThreadTypeOK
<1>4. Handler(p) \in {"release", "error_item"}
  BY DEF Handler
<1>5. CASE CoordinatorStep(p, ok)
  <2>1. run' = run
    BY <1>5 DEF CoordinatorStep, NotQueued, AcquireLock, AcquireFailed, MarkRunning, FailItem, FinishItem, ErrorItem,
              ReleaseLock, storeVars
  <2>2. CASE NotQueued(p) \/ ReleaseLock(p, ok)
    BY <1>3, <2>1, <2>2 DEF NotQueued, ReleaseLock
  <2>3. CASE AcquireLock(p) \/ MarkRunning(p, ok)
    BY <1>1, <1>2, <2>1, <2>3 DEF AcquireLock, MarkRunning
  <2>4. CASE AcquireFailed(p, ok)
    BY <1>2, <1>3, <2>1, <2>4 DEF AcquireFailed
  <2>5. CASE FailItem(p, ok) \/ ErrorItem(p, ok)
    BY <1>1, <1>3, <2>1, <2>5 DEF FailItem, ErrorItem
  <2>6. CASE FinishItem(p, ok)
    BY <1>1, <1>2, <2>1, <2>6 DEF FinishItem
  <2> QED BY <1>5, <2>2, <2>3, <2>4, <2>5, <2>6 DEF CoordinatorStep
<1>6. CASE Load(p, ok)
  <2>1. Decision(op[p].kind, op[p].run, op[p].job) # "segment"
    BY DEF Decision
  <2> QED BY <1>1, <1>2, <1>4, <1>6, <2>1 DEF Load
<1>7. CASE ApplyApproval(p, ok) \/ CloseRuntimeState(p, ok) \/ RunnerUnavailable(p)
  BY <1>1, <1>2, <1>4, <1>7 DEF ApplyApproval, CloseRuntimeState, RunnerUnavailable, storeVars
<1>8. CASE TerminalAction(p, ok)
  BY <1>0, <1>1, <1>2, <1>4, <1>8 DEF TerminalAction, SetRun, StoreTypeOK, TerminalRun
<1>9. CASE EnqueueApproved(p, ok)
  BY <1>0, <1>2, <1>9 DEF EnqueueApproved
<1>10. CASE Activate(p, ok)
  BY <1>0, <1>2, <1>10 DEF Activate
<1> QED BY <1>5, <1>6, <1>7, <1>8, <1>9, <1>10 DEF BodyStep, RequestApproval, CommitApproved, WaitRun, CompleteRun,
              FailRun, SegmentInterrupted

\* Where the activation of a resumed run comes from.
LEMMA ResumeMoves ==
    ASSUME TypeInv, NEW p \in Client, Shape(p), NEW ok \in BOOLEAN, CoordinatorStep(p, ok) \/ BodyStep(p, ok),
           op'[p].kind = "approve", pc'[p] = "activate"
    PROVE  /\ run' = run /\ op' = op
           /\ \/ run[op[p].run] = "waiting"
              \/ pc[p] = "apply"
<1>0. /\ ThreadTypeOK /\ p \in Proc /\ p # Worker
  BY RunStoreAssumption DEF TypeInv, TypeOK, Proc
<1>1. \A l : Continue(p, l) => l = pc'[p] /\ op' = op
  BY <1>0 DEF Continue, Goto, ThreadTypeOK
<1>2. \A l, e : Raise(p, e, l) => l = pc'[p]
  BY <1>0 DEF Raise, Goto, ThreadTypeOK
<1>3. \A e : Return(p, e) => pc'[p] \in {"schedule", "idle"}
  BY <1>0 DEF Return, Leave, Goto, ThreadTypeOK
<1>4. Handler(p) \in {"release", "error_item"}
  BY DEF Handler
<1>5. ~CoordinatorStep(p, ok)
  <2>1. ~NotQueued(p) /\ ~ReleaseLock(p, ok)
    BY <1>3 DEF NotQueued, ReleaseLock
  <2>2. ~AcquireLock(p)
    BY <1>1 DEF AcquireLock
  <2>3. ~AcquireFailed(p, ok)
    BY <1>2, <1>3 DEF AcquireFailed
  <2>4. ~FailItem(p, ok) /\ ~ErrorItem(p, ok)
    BY <1>1, <1>3 DEF FailItem, ErrorItem
  <2>5. ~FinishItem(p, ok)
    BY <1>1, <1>2 DEF FinishItem
  <2>6. ~MarkRunning(p, ok)
    BY <1>1, <1>2 DEF MarkRunning
  <2> QED BY <2>1, <2>2, <2>3, <2>4, <2>5, <2>6 DEF CoordinatorStep
<1>6. CASE Load(p, ok)
  <2>1. ok /\ op' = op /\ Decision(op[p].kind, op[p].run, op[p].job) = "activate" /\ run' = run
    BY <1>1, <1>2, <1>4, <1>6 DEF Load
  <2>2. op[p].kind = "approve"
    BY <2>1
  <2>3. run[op[p].run] = "waiting"
    BY <2>1, <2>2 DEF Decision
  <2> QED BY <2>1, <2>3
<1>7. CASE ApplyApproval(p, ok)
  BY <1>1, <1>2, <1>4, <1>7 DEF ApplyApproval
<1>8. ~TerminalAction(p, ok)
  BY <1>1, <1>2, <1>4 DEF TerminalAction
<1>9. ~EnqueueApproved(p, ok)
  BY <1>0, <1>2 DEF EnqueueApproved, Goto, ThreadTypeOK
<1>10. ~Activate(p, ok) /\ ~RunnerUnavailable(p)
  BY <1>1, <1>2 DEF Activate, RunnerUnavailable
<1>11. ~\E j \in Job : RequestApproval(p, j) \/ CommitApproved(p, j)
  BY <1>1 DEF RequestApproval, CommitApproved
<1>12. ~WaitRun(p, ok) /\ ~CompleteRun(p) /\ ~FailRun(p)
  BY <1>1, <1>2 DEF WaitRun, CompleteRun, FailRun
<1>13. ~CloseRuntimeState(p, ok) /\ ~SegmentInterrupted(p)
  BY <1>2 DEF CloseRuntimeState, SegmentInterrupted
<1> QED BY <1>5, <1>6, <1>7, <1>8, <1>9, <1>10, <1>11, <1>12, <1>13 DEF BodyStep

\* The worker outside the section revives no finished or waiting run.
LEMMA WorkerWritesRun ==
    ASSUME TypeInv, NEW ok \in BOOLEAN, WorkerStep(ok), NEW r \in Run
    PROVE  \/ run'[r] = run[r]
           \/ run'[r] = "failed"
           \/ run'[r] = "queued" /\ run[r] = "running"
<1>0. StoreTypeOK
  BY DEF TypeInv, TypeOK
<1>1. CASE RequeueSegment(ok)
  BY <1>0, <1>1 DEF RequeueSegment, SetRun, StoreTypeOK
<1>2. CASE ConfigurationMissing(ok)
  BY <1>0, <1>2 DEF ConfigurationMissing, SetRun, StoreTypeOK
<1>3. CASE Terminalize(ok)
  BY <1>0, <1>3 DEF Terminalize, StoreTypeOK
<1> QED BY <1>1, <1>2, <1>3 DEF WorkerStep, LoopTest, GetWake, ReadWake, ReleaseOrphans, Reconcile, PutBack, Settle,
              storeVars

LEMMA ResumesWaiting == ASSUME GoodInv, ResumeInv, [Next]_vars PROVE ResumeInv'
<1>0. /\ TypeInv /\ TokenInv /\ ThreadTypeOK /\ StoreTypeOK /\ Quiet /\ Worker \in Proc /\ Worker \notin Client
      /\ WriteInv /\ NameInv /\ ShapeInv
  BY RunStoreAssumption DEF GoodInv, WriteInv, NameInv, TokenInv, TypeInv, TypeOK, Proc
<1> SUFFICES ASSUME NEW r \in Run \ disturbed', NEW c \in Client,
                    op'[c].run = r, op'[c].kind = "approve", pc'[c] = "activate"
             PROVE  run'[r] \in TerminalRun \cup {"waiting"}
  BY DEF ResumeInv
<1>1. r \in Run \ disturbed /\ Sound(r) /\ c \in Proc
  BY StepRows DEF GoodInv, Proc
<1>2. ASSUME pc'[c] = pc[c], op'[c] = op[c], run'[r] = run[r] \/ run'[r] = "failed"
      PROVE  run'[r] \in TerminalRun \cup {"waiting"}
  BY <1>1, <1>2 DEF ResumeInv, TerminalRun
<1>3. ASSUME NEW p \in Proc, NEW ok \in BOOLEAN, SectionStep(p, ok) PROVE run'[r] \in TerminalRun \cup {"waiting"}
  <2>1. Moves(p) /\ (CoordinatorStep(p, ok) \/ BodyStep(p, ok))
    BY <1>0, <1>3, CoordinatorMoves, BodyMoves DEF SectionStep
  <2>2. CASE p = c
    <3>1. run' = run /\ op' = op /\ (run[op[c].run] = "waiting" \/ pc[c] = "apply")
      BY <1>0, <1>1, <2>1, <2>2, ResumeMoves DEF ShapeInv
    <3>2. pc[c] = "apply" => Relying(c, r)
      BY <3>1 DEF Relying
    <3>3. pc[c] = "apply" => run[r] = "waiting"
      BY <1>0, <1>1, <3>2 DEF WriteInv, RowInv, Required
    <3> QED BY <3>1, <3>3
  <2>3. CASE p # c
    <3>1. pc'[c] = pc[c] /\ op'[c] = op[c]
      BY <1>1, <2>1, <2>3 DEF Moves
    <3>2. Using(c, r)
      BY <3>1 DEF Using, BodyPc
    <3>3. CASE CoordinatorStep(p, ok)
      <4>1. run' = run
        BY <3>3 DEF CoordinatorStep, NotQueued, AcquireLock, AcquireFailed, MarkRunning, FailItem, FinishItem,
                    ErrorItem, ReleaseLock, storeVars
      <4> QED BY <1>2, <3>1, <4>1
    <3>4. CASE BodyStep(p, ok)
      <4>1. op[p].run # r
        BY <1>0, <1>1, <2>3, <3>2, <3>4, AloneInside, BodyKeepsLock DEF Using, UsedPc
      <4>2. run'[r] = run[r]
        BY <1>0, <2>1, <4>1, SectionWrites DEF OnlyRun
      <4> QED BY <1>2, <3>1, <4>2
    <3> QED BY <2>1, <3>3, <3>4
  <2> QED BY <2>2, <2>3
<1>4. ASSUME NEW ok \in BOOLEAN, WorkerStep(ok) PROVE run'[r] \in TerminalRun \cup {"waiting"}
  <2>1. pc'[c] = pc[c] /\ op'[c] = op[c]
    BY <1>0, <1>1, <1>4, WorkerStepOutside
  <2>2. run[r] # "running"
    BY <1>1, <2>1 DEF ResumeInv, TerminalRun
  <2> QED BY <1>0, <1>1, <1>2, <1>4, <2>1, <2>2, WorkerWritesRun
<1>5. ASSUME NEW d \in Client, Request(d) \/ Schedule(d) \/ Put(d) PROVE run'[r] \in TerminalRun \cup {"waiting"}
  <2>1. CASE d = c
    <3>1. pc'[c] \in {"schedule", "acquire", "put", "idle"}
      BY <1>0, <1>1, <1>5, <2>1 DEF Request, StartRun, JobRequest, BackgroundApproval, Begin, Schedule, Put, Continue, Leave,
                  Goto, ThreadTypeOK
    <3> QED BY <3>1
  <2>2. CASE d # c
    <3>1. pc'[c] = pc[c] /\ op'[c] = op[c]
      BY <1>0, <1>1, <1>5, <2>2, ClientShape DEF ShapeInv, Proc
    <3>2. run[r] # "absent"
      BY <1>1, <3>1 DEF ResumeInv, TerminalRun
    <3>3. run'[r] = run[r]
      BY <1>0, <1>1, <1>5, <3>2, ClientRequestItems DEF StoreTypeOK
    <3> QED BY <1>2, <3>1, <3>3
  <2> QED BY <2>1, <2>2
<1>6. ASSUME Start \/ Startup \/ Stop \/ Stopped \/ Crash PROVE run'[r] \in TerminalRun \cup {"waiting"}
  BY <1>0, <1>1, <1>2, <1>6, LifecycleItems DEF Quiet
<1>7. CASE UNCHANGED vars
  BY <1>1, <1>2, <1>7 DEF vars, storeVars, threadVars
<1> QED BY <1>0, <1>3, <1>4, <1>5, <1>6, <1>7 DEF Next

LEMMA ActivatesQueued == ASSUME GoodInv, ResumeInv, ActivateInv, [Next]_vars PROVE ActivateInv'
<1>0. /\ TypeInv /\ TokenInv /\ ThreadTypeOK /\ StoreTypeOK /\ Quiet /\ Worker \in Proc /\ Worker \notin Client
      /\ WriteInv /\ NameInv /\ ShapeInv /\ FreshInv
  BY RunStoreAssumption DEF GoodInv, WriteInv, NameInv, TokenInv, TypeInv, TypeOK, Proc
<1> SUFFICES ASSUME NEW r \in Run \ disturbed',
                    op'[Worker].run = r, pc'[Worker] \in {"acquire", "mark", "activate", "fail_item"}
             PROVE  run'[r] \in TerminalRun \cup {"queued"}
  BY DEF ActivateInv
<1>1. r \in Run \ disturbed /\ Sound(r)
  BY StepRows DEF GoodInv
<1>2. ASSUME pc'[Worker] = pc[Worker], op'[Worker] = op[Worker], run'[r] = run[r]
      PROVE  run'[r] \in TerminalRun \cup {"queued"}
  BY <1>1, <1>2 DEF ActivateInv
<1>3. ASSUME NEW p \in Client, NEW ok \in BOOLEAN, SectionStep(p, ok) PROVE run'[r] \in TerminalRun \cup {"queued"}
  <2>1. Moves(p) /\ p \in Proc /\ p # Worker /\ (CoordinatorStep(p, ok) \/ BodyStep(p, ok))
    BY <1>0, <1>3, CoordinatorMoves, BodyMoves DEF SectionStep, Proc
  <2>2. pc'[Worker] = pc[Worker] /\ op'[Worker] = op[Worker]
    BY <1>0, <2>1 DEF Moves
  <2>3. CASE op[p].run # r
    BY <1>0, <1>1, <1>2, <2>1, <2>2, <2>3, SectionWrites DEF OnlyRun
  <2>4. CASE op[p].run = r
    <3>1. ~Starting(p, r)
      BY <1>0, <1>1, <2>1, <2>2 DEF FreshInv, Fresh, Resting
    <3>2. CASE run[r] \in TerminalRun
      BY <1>1, <3>2 DEF Sound
    <3>3. CASE run[r] = "queued"
      BY <1>1, <2>1, <2>4, <3>1, <3>3, QueuedStays
    <3> QED BY <1>1, <2>2, <3>2, <3>3 DEF ActivateInv
  <2> QED BY <2>3, <2>4
<1>4. ASSUME NEW ok \in BOOLEAN, SectionStep(Worker, ok) PROVE run'[r] \in TerminalRun \cup {"queued"}
  <2>1. Moves(Worker) /\ (CoordinatorStep(Worker, ok) \/ BodyStep(Worker, ok)) /\ Shape(Worker)
    BY <1>0, <1>4, CoordinatorMoves, BodyMoves DEF SectionStep, ShapeInv
  <2>2. \A l : Continue(Worker, l) => l = pc'[Worker]
    BY <1>0 DEF Continue, Goto, ThreadTypeOK
  <2>3. \A l, e : Raise(Worker, e, l) => l = pc'[Worker]
    BY <1>0 DEF Raise, Goto, ThreadTypeOK
  <2>4. \A e : Return(Worker, e) => pc'[Worker] \in {"settle", "reput", "terminalize"}
    BY <1>0 DEF Return, Goto, ThreadTypeOK
  <2>5. ~BodyStep(Worker, ok)
    BY <1>0, WorkerBody
  <2>6. run' = run /\ op[Worker].run = r
    BY <1>0, <2>1, <2>5 DEF CoordinatorStep, NotQueued, AcquireLock, AcquireFailed, MarkRunning, FailItem, FinishItem,
                ErrorItem, ReleaseLock, storeVars, Moves
  <2>7. pc[Worker] \in {"acquire", "mark"}
    BY <2>1, <2>2, <2>3, <2>4, <2>5 DEF CoordinatorStep, NotQueued, AcquireLock, AcquireFailed, MarkRunning, FailItem,
                FinishItem, ErrorItem, ReleaseLock
  <2> QED BY <1>1, <2>6, <2>7 DEF ActivateInv
<1>5. ASSUME NEW ok \in BOOLEAN, WorkerStep(ok) PROVE run'[r] \in TerminalRun \cup {"queued"}
  BY <1>0, <1>5, WorkerGoes DEF SectionPc
<1>6. ASSUME NEW d \in Client, Request(d) \/ Schedule(d) \/ Put(d) PROVE run'[r] \in TerminalRun \cup {"queued"}
  <2>1. pc'[Worker] = pc[Worker] /\ op'[Worker] = op[Worker]
    BY <1>0, <1>6, ClientShape DEF ShapeInv, Proc
  <2>2. run[r] # "absent"
    BY <1>1, <2>1 DEF ActivateInv, TerminalRun
  <2>3. run'[r] = run[r]
    BY <1>0, <1>1, <1>6, <2>2, ClientRequestItems DEF StoreTypeOK
  <2> QED BY <1>2, <2>1, <2>3
<1>7. ASSUME Start \/ Startup \/ Stop \/ Stopped \/ Crash PROVE run'[r] \in TerminalRun \cup {"queued"}
  BY <1>0, <1>1, <1>2, <1>7, LifecycleItems DEF Quiet
<1>8. CASE UNCHANGED vars
  BY <1>1, <1>2, <1>8 DEF vars, storeVars, threadVars
<1> QED BY <1>0, <1>3, <1>4, <1>5, <1>6, <1>7, <1>8 DEF Next, Proc

LEMMA StagesInductive == GoodInv /\ StageInv /\ [Next]_vars => StageInv'
  BY StagesOfItem, HoldsLock, ResumesWaiting, ActivatesQueued DEF StageInv, GoodInv

----------------------------------------------------------------------------
(* One active segment.  A second background segment could become active    *)
(* only when the worker requeues the failed item of a run that looks       *)
(* interrupted.  So the invariant follows a spoiled item, failed while its *)
(* run is live, from the failure to the moment the worker meets it again:  *)
(* as long as a wake item names it, the run is queued, or it is running    *)
(* with nobody in the runner and no segment active.                        *)

Going == phase \in {"schedule", "serving"}

\* A wake item of r that names item k is queued, or the worker acts on it.
Waits(r, k)  == Going /\ \E n \in DOMAIN queue : queue[n].run = r /\ queue[n].item = k
Serves(r, k) ==
    /\ pc[Worker] \notin Resting
    /\ op[Worker].run = r
    /\ op[Worker].item = k
    /\ Going \/ pc[Worker] \notin {"wake", "settle"}
Current(r, k) == Waits(r, k) \/ Serves(r, k)

\* Item k of r is still to be scheduled.
Held(r, k) ==
    \/ pending[r] = k
    \/ \E c \in Client : op[c].run = r /\ op[c].item = k /\ Background(op[c].kind)

Spoiled(r, k) == k \in DOMAIN items /\ items[k].status = "failed" /\ run[r] \in LiveRun

InRunner(c, r) == pc[c] = "segment" /\ op[c].run = r

Dormant(r) ==
    \/ run[r] = "queued"
    \/ /\ run[r] = "running"
       /\ \A c \in Client : ~InRunner(c, r)
       /\ BackgroundItems(r, ActiveItem) = {}

\* The worker is about to drop its wake item for good.
Leaving(r) ==
    /\ Going
    /\ op[Worker].run = r
    /\ \/ pc[Worker] \in {"orphans", "reconcile", "settle"}
       \/ pc[Worker] = "release" /\ exc[Worker] = "none"

OneSegment(r)      == \A i, m \in BackgroundItems(r, ActiveItem) : i = m
SpoiledDormant(r)  == \A k \in DOMAIN items : Spoiled(r, k) /\ Current(r, k) => Dormant(r)
LeavesUnspoiled(r) == Leaving(r) => ~Spoiled(r, op[Worker].item)
SpoiledCurrent(r)  == \A k \in DOMAIN items : Going /\ Held(r, k) /\ Spoiled(r, k) => Current(r, k)

Segment(r) == OneSegment(r) /\ SpoiledDormant(r) /\ LeavesUnspoiled(r) /\ SpoiledCurrent(r)

SegmentInv == \A r \in Run \ disturbed : Segment(r)

\* Startup schedules a run whose active segments are all queued.
TodoInv ==
    phase = "schedule" =>
        \A r \in todo : \A i \in BackgroundItems(r, ActiveItem) : items[i].status = "queued"

SegInv == GoodInv /\ RecoveryInv /\ StageInv /\ SegmentInv /\ TodoInv

\* An item that is current, or held, is a background row of its run.
LEMMA CurrentNames ==
    ASSUME NameInv, NEW r \in Run, NEW k, Current(r, k) \/ (k # 0 /\ Held(r, k))
    PROVE  k \in DOMAIN items /\ items[k].run = r /\ items[k].bg /\ run[r] # "absent"
<1>0. TypeInv /\ ShapeInv /\ NamesInv /\ ExistInv /\ Worker \in Proc /\ NoRun \notin Run
  BY RunStoreAssumption DEF NameInv, TokenInv, Proc
<1>1. \A x : Background(x) <=> x \in {"submit", "bgapprove", "wake"}
  BY DEF Background
<1>2. CASE Waits(r, k)
  <2>1. PICK n \in DOMAIN queue : queue[n].run = r /\ queue[n].item = k
    BY <1>2 DEF Waits
  <2>2. queue[n] # Sentinel
    BY <1>0, <2>1 DEF Sentinel, Wake
  <2>3. Names(k, r, "wake")
    BY <1>0, <2>1, <2>2 DEF NamesInv, QueueNames
  <2> QED BY <1>0, <1>1, <2>3 DEF Names, ExistInv
<1>3. CASE Serves(r, k)
  <2>1. op[Worker].kind = "wake"
    BY <1>0, <1>3 DEF Serves, ShapeInv, Shape, Placed
  <2>2. Names(k, r, "wake")
    BY <1>0, <1>3, <2>1 DEF Serves, NamesInv, ThreadNames, Named, Itemless
  <2> QED BY <1>0, <1>1, <2>2 DEF Names, ExistInv
<1>4. CASE k # 0 /\ Held(r, k)
  <2>1. CASE pending[r] = k
    <3>1. Names(k, r, "wake")
      BY <1>0, <1>4, <2>1 DEF NamesInv, PendingNames
    <3> QED BY <1>0, <1>1, <3>1 DEF Names, ExistInv
  <2>2. CASE \E c \in Client : op[c].run = r /\ op[c].item = k /\ Background(op[c].kind)
    <3>1. PICK c \in Client : op[c].run = r /\ op[c].item = k /\ Background(op[c].kind)
      BY <2>2
    <3>2. c \in Proc /\ pc[c] \notin Resting
      BY <1>0, <1>1, <3>1, RunStoreAssumption DEF Proc, ShapeInv, Shape, Placed, Resting
    <3>3. Names(k, r, op[c].kind)
      BY <1>0, <1>4, <3>1, <3>2 DEF NamesInv, ThreadNames, Named, Itemless
    <3> QED BY <1>0, <3>1, <3>3 DEF Names, ExistInv
  <2> QED BY <1>4, <2>1, <2>2 DEF Held
<1> QED BY <1>2, <1>3, <1>4 DEF Current

\* There is one wake item of a run: the worker's, the queued one or the one
\* about to be put.
LEMMA CurrentAlone ==
    ASSUME NameInv, ItemStages, NEW r \in Run, NEW k, Current(r, k)
    PROVE  /\ pc[Worker] \notin Resting /\ op[Worker].run = r => k = op[Worker].item
           /\ ~Putting(r)
           /\ r \in scheduled
<1>0. WakeUpTokens
  BY DEF NameInv, TokenInv
<1>1. phase # "stopped"
  BY DEF Current, Waits, Going, Serves, ItemStages, Resting
<1>2. Waits(r, k) => InQueue(r)
  BY DEF Waits, InQueue
<1>3. pc[Worker] \notin Resting /\ op[Worker].run = r => Handling(r)
  BY DEF Handling, Resting
<1> QED BY <1>0, <1>1, <1>2, <1>3 DEF Current, Serves, WakeUpTokens

\* The background rows of run r are as they were.
Untouched(r) ==
    /\ \A k \in DOMAIN items : items[k].run = r /\ items[k].bg => k \in DOMAIN items' /\ items'[k] = items[k]
    /\ \A k \in DOMAIN items' : items'[k].run = r /\ items'[k].bg => k \in DOMAIN items /\ items'[k] = items[k]

LEMMA UntouchedItems ==
    ASSUME NEW r, Untouched(r), NEW S
    PROVE  BackgroundItems(r, S)' = BackgroundItems(r, S)
<1>1. \A k \in BackgroundItems(r, S)' : k \in BackgroundItems(r, S)
  BY DEF BackgroundItems, Untouched
<1>2. \A k \in BackgroundItems(r, S) : k \in BackgroundItems(r, S)'
  BY DEF BackgroundItems, Untouched
<1> QED BY <1>1, <1>2

\* A step that does not touch the run or its rows, and moves its wake item at most.
LEMMA SegmentStays ==
    ASSUME NameInv, TypeInv', NEW r \in Run, Segment(r), run'[r] = run[r], Untouched(r), RowsKept,
           \A k : Current(r, k)' => Current(r, k) \/ (k \in DOMAIN items /\ items[k].bg /\ items[k].run = r /\ ~Spoiled(r, k)),
           \A k \in DOMAIN items' :
              Going' /\ Held(r, k)' => Going /\ Held(r, k) /\ (Current(r, k) /\ Spoiled(r, k) => Current(r, k)'),
           LeavesUnspoiled(r)',
           \A c \in Client : InRunner(c, r)' => InRunner(c, r)
    PROVE  Segment(r)'
<1>1. BackgroundItems(r, ActiveItem)' = BackgroundItems(r, ActiveItem)
  BY UntouchedItems
<1>2. OneSegment(r)'
  BY <1>1 DEF Segment, OneSegment
<1>3. Dormant(r) => Dormant(r)'
  BY <1>1 DEF Dormant
<1>4. ASSUME NEW k, k \in DOMAIN items, items[k].run = r, items[k].bg, Spoiled(r, k)' PROVE Spoiled(r, k)
  BY <1>4 DEF Untouched, Spoiled
<1>5. SpoiledDormant(r)'
  <2> SUFFICES ASSUME NEW k \in DOMAIN items', Spoiled(r, k)', Current(r, k)' PROVE Dormant(r)'
    BY DEF SpoiledDormant
  <2>1. k \in DOMAIN items /\ items[k].run = r /\ items[k].bg
    BY CurrentNames
  <2> QED BY <1>3, <1>4, <2>1 DEF Segment, SpoiledDormant
<1>6. SpoiledCurrent(r)'
  <2> SUFFICES ASSUME NEW k \in DOMAIN items', Going', Held(r, k)', Spoiled(r, k)' PROVE Current(r, k)'
    BY DEF SpoiledCurrent
  <2>1. Going /\ Held(r, k) /\ (Current(r, k) /\ Spoiled(r, k) => Current(r, k)')
    OBVIOUS
  <2>2. k # 0
    <3>1. DOMAIN items' = 1..Len(items') /\ Len(items') \in Nat
      BY LenProperties DEF TypeInv, TypeOK, StoreTypeOK
    <3> QED BY <3>1
  <2>3. k \in DOMAIN items /\ items[k].run = r /\ items[k].bg
    BY <2>1, <2>2, CurrentNames
  <2> QED BY <1>4, <2>1, <2>3 DEF Segment, SpoiledCurrent
<1> QED BY <1>2, <1>5, <1>6 DEF Segment

\* The end of a run: nothing of it can be spoiled.
LEMMA SegmentOver ==
    ASSUME NEW r, OneSegment(r), run'[r] \notin LiveRun,
           BackgroundItems(r, ActiveItem)' \subseteq BackgroundItems(r, ActiveItem)
    PROVE  Segment(r)'
  BY DEF Segment, OneSegment, SpoiledDormant, LeavesUnspoiled, SpoiledCurrent, Spoiled

\* A step that leaves the queue, the worker and the phase alone.
LEMMA CurrentSame ==
    ASSUME NEW r, NEW k, UNCHANGED <<phase, queue>>,
           pc'[Worker] = pc[Worker], op'[Worker] = op[Worker], exc'[Worker] = exc[Worker]
    PROVE  /\ Current(r, k)' <=> Current(r, k)
           /\ Leaving(r)' <=> Leaving(r)
           /\ Going' <=> Going
<1>1. Going' <=> Going
  BY DEF Going
<1>2. Waits(r, k)' <=> Waits(r, k)
  BY <1>1 DEF Waits
<1>3. Serves(r, k)' <=> Serves(r, k)
  BY <1>1 DEF Serves
<1>4. Leaving(r)' <=> Leaving(r)
  BY <1>1 DEF Leaving
<1> QED BY <1>1, <1>2, <1>3, <1>4 DEF Current

\* The worker that leaves keeps its item unspoiled while its row is left alone.
LEMMA LeavingStays ==
    ASSUME NameInv, NEW r \in Run, LeavesUnspoiled(r), Leaving(r)' => Leaving(r), op'[Worker].item = op[Worker].item,
           run'[r] \in LiveRun => run[r] \in LiveRun \/ run[r] = "absent",
           \A k \in DOMAIN items : items[k].run = r /\ items[k].bg => items'[k] = items[k]
    PROVE  LeavesUnspoiled(r)'
<1>1. Leaving(r) => pc[Worker] \notin Resting /\ op[Worker].run = r
  BY DEF Leaving, Resting
<1>2. Leaving(r) => Serves(r, op[Worker].item)
  BY <1>1 DEF Leaving, Serves
<1>3. Leaving(r) => /\ op[Worker].item \in DOMAIN items /\ items[op[Worker].item].run = r
                    /\ items[op[Worker].item].bg /\ run[r] # "absent"
  BY <1>2, CurrentNames DEF Current
<1> QED BY <1>3 DEF LeavesUnspoiled, Spoiled

LEMMA ClientSectionSegments ==
    ASSUME SegInv, NEW p \in Client, NEW ok \in BOOLEAN, SectionStep(p, ok), NEW r \in Run \ disturbed
    PROVE  Segment(r)'
<1>0. /\ TypeInv /\ StoreTypeOK /\ Worker \in Proc /\ p # Worker /\ p \in Proc /\ NameInv /\ GoodInv /\ ResumeInv
      /\ Shape(p) /\ FreshInv /\ Segment(r) /\ NoRun # r /\ ItemStages /\ disturbed' = disturbed
  BY RunStoreAssumption DEF SegInv, GoodInv, SegmentInv, NameInv, TokenInv, TypeInv, TypeOK, ShapeInv, StageInv, Proc,
     SectionStep, history
<1>1. Moves(p) /\ (CoordinatorStep(p, ok) \/ BodyStep(p, ok)) /\ UNCHANGED memVars
  BY <1>0, CoordinatorMoves, BodyMoves DEF SectionStep
<1>2. /\ \A k \in DOMAIN items : k \in DOMAIN items' /\ (items[k].bg => items'[k] = items[k])
      /\ \A k \in DOMAIN items' \ DOMAIN items :
            items'[k] = NewItem(op[p].run, TRUE) /\ BackgroundItems(op[p].run, ActiveItem) = {} /\ Enqueues(p)
      /\ RowsKept
  BY <1>0, <1>1, ClientSectionItems
<1>3. exc'[Worker] = exc[Worker] /\ pc'[Worker] = pc[Worker] /\ op'[Worker] = op[Worker]
  BY <1>0, <1>1, SectionShape DEF Reshapes, Moves
<1>4. \A k : (Current(r, k)' <=> Current(r, k)) /\ (Leaving(r)' <=> Leaving(r)) /\ (Going' <=> Going)
  BY <1>1, <1>3, CurrentSame DEF memVars
<1>5. Sound(r)
  BY <1>0, SectionRows DEF GoodInv
<1>6. TypeInv'
  BY <1>0, SectionType
<1>7. run'[r] \in LiveRun => run[r] \in LiveRun \/ run[r] = "absent"
  <2>1. run[r] \in LiveRun \cup TerminalRun \cup {"absent"}
    BY <1>0 DEF StoreTypeOK, RunStatus
  <2>2. run'[r] \in LiveRun => run'[r] \notin TerminalRun
    BY DEF LiveRun, TerminalRun
  <2> QED BY <1>5, <2>1, <2>2 DEF Sound
<1>8. LeavesUnspoiled(r)'
  BY <1>0, <1>2, <1>3, <1>4, <1>7, LeavingStays DEF Segment
<1>9. \A c \in Client : c # p => pc'[c] = pc[c] /\ op'[c] = op[c]
  BY <1>1 DEF Moves, Proc
<1>10. CASE op[p].run # r
  <2>1. run'[r] = run[r]
    BY <1>0, <1>1, <1>10, SectionWrites DEF OnlyRun
  <2>2. Untouched(r)
    <3>1. \A k \in DOMAIN items' \ DOMAIN items : items'[k].run # r
      BY <1>2, <1>10 DEF NewItem
    <3>2. \A k \in DOMAIN items : items'[k].run = items[k].run /\ items'[k].bg = items[k].bg
      BY <1>2 DEF RowsKept
    <3> QED BY <1>2, <3>1, <3>2 DEF Untouched
  <2>3. op'[p].run # r
    BY <1>0, <1>1, <1>10 DEF Moves, NoOp
  <2>4. \A k : Held(r, k)' => Held(r, k)
    BY <1>1, <1>9, <2>3 DEF Held, memVars
  <2>5. \A c \in Client : InRunner(c, r)' => InRunner(c, r)
    BY <1>9, <2>3 DEF InRunner
  <2> QED BY <1>0, <1>2, <1>4, <1>6, <1>8, <2>1, <2>2, <2>4, <2>5, SegmentStays
<1>11. CASE op[p].run = r
  <2>0. /\ BackgroundItems(r, ActiveItem)' = BackgroundItems(r, ActiveItem)
        \/ /\ BackgroundItems(r, ActiveItem) = {} /\ Enqueues(p)
           /\ BackgroundItems(r, ActiveItem)' \subseteq DOMAIN items' \ DOMAIN items
    <3>1. \A k \in DOMAIN items : items'[k].run = items[k].run /\ items'[k].bg = items[k].bg
      BY <1>2 DEF RowsKept
    <3>2. \A k \in DOMAIN items : k \in BackgroundItems(r, ActiveItem)' <=> k \in BackgroundItems(r, ActiveItem)
      BY <1>2, <3>1 DEF BackgroundItems
    <3>3. BackgroundItems(r, ActiveItem)' \subseteq DOMAIN items' /\ BackgroundItems(r, ActiveItem) \subseteq DOMAIN items
      BY DEF BackgroundItems
    <3> QED BY <1>2, <1>11, <3>2, <3>3
  <2>1. OneSegment(r)'
    <3>1. CASE BackgroundItems(r, ActiveItem)' = BackgroundItems(r, ActiveItem)
      BY <1>0, <3>1 DEF Segment, OneSegment
    <3>2. CASE Enqueues(p) /\ BackgroundItems(r, ActiveItem)' \subseteq DOMAIN items' \ DOMAIN items
                 /\ BackgroundItems(r, ActiveItem) = {}
      <4>1. Adds(r, TRUE)
        BY <1>11, <3>2 DEF Enqueues, Adds
      <4>2. DOMAIN items' = DOMAIN items \cup {Len(items) + 1}
        BY <1>0, <4>1, AddsKeep
      <4> QED BY <3>2, <4>2 DEF OneSegment
    <3> QED BY <2>0, <3>1, <3>2
  <2>2. SpoiledDormant(r)'
    <3> SUFFICES ASSUME NEW k \in DOMAIN items', Spoiled(r, k)', Current(r, k)' PROVE Dormant(r)'
      BY DEF SpoiledDormant
    <3>1. k \in DOMAIN items /\ items[k].run = r /\ items[k].bg /\ run[r] # "absent"
      BY <1>0, <1>4, CurrentNames
    <3>2. Spoiled(r, k) /\ run'[r] \in LiveRun
      BY <1>2, <1>7, <3>1 DEF Spoiled
    <3>3. Dormant(r)
      BY <1>0, <1>4, <3>1, <3>2 DEF Segment, SpoiledDormant
    <3>4. ~Starting(p, r)
      <4>1. Current(r, k)
        BY <1>4
      <4>2. InQueue(r) \/ (pc[Worker] \notin Resting /\ op[Worker].run = r)
        BY <4>1 DEF Current, Waits, Serves, InQueue
      <4> QED BY <1>0, <4>2 DEF FreshInv, Fresh
    <3>5. CASE run[r] = "queued"
      <4>1. run'[r] \in TerminalRun \cup {"queued"}
        BY <1>0, <1>1, <1>11, <3>4, <3>5, QueuedStays
      <4> QED BY <3>2, <4>1 DEF Dormant, LiveRun, TerminalRun
    <3>6. CASE run[r] # "queued"
      <4>1. run[r] = "running" /\ (\A c \in Client : ~InRunner(c, r)) /\ BackgroundItems(r, ActiveItem) = {}
        BY <3>3, <3>6 DEF Dormant
      <4>2. run'[r] \in TerminalRun \/ (run'[r] = "running" /\ pc'[p] # "segment")
        BY <1>0, <1>1, <1>11, <4>1, RunningStays DEF InRunner
      <4>3. run'[r] = "running" /\ pc'[p] # "segment"
        BY <3>2, <4>2 DEF LiveRun, TerminalRun
      <4>4. \A c \in Client : ~InRunner(c, r)'
        BY <1>9, <4>1, <4>3 DEF InRunner
      <4>5. ~Enqueues(p)
        BY <1>11, <4>1 DEF Enqueues
      <4> QED BY <2>0, <4>1, <4>3, <4>4, <4>5 DEF Dormant
    <3> QED BY <3>5, <3>6
  <2>3. SpoiledCurrent(r)'
    <3> SUFFICES ASSUME NEW k \in DOMAIN items', Going', Held(r, k)', Spoiled(r, k)' PROVE Current(r, k)'
      BY DEF SpoiledCurrent
    <3>0. k # 0
      <4>1. DOMAIN items' = 1..Len(items') /\ Len(items') \in Nat
        BY <1>6, LenProperties DEF TypeInv, TypeOK, StoreTypeOK
      <4> QED BY <4>1
    <3>1. Held(r, k)
      <4>1. CASE op' = op
        BY <1>1, <4>1 DEF Held, memVars
      <4>2. CASE op'[p] = NoOp
        BY <1>0, <1>1, <1>9, <4>2 DEF Held, memVars, NoOp
      <4>3. CASE Enqueues(p)
        <5>1. op'[p].item # k
          <6> DEFINE A == BackgroundItems(r, ActiveItem)
                     i == IF A = {} THEN Len(items) + 1 ELSE Latest(A)
          <6>1. items' = IF A = {} THEN Append(items, NewItem(r, TRUE)) ELSE items
            BY <1>11, <4>3 DEF Enqueues
          <6>2. items'[i].status \in ActiveItem \cup {"queued"}
            BY <1>0, <6>1, EnqueuedItem
          <6>3. op'[p].item = i
            BY <1>0, <1>11, <4>3 DEF Enqueues, TypeInv, TypeOK, ThreadTypeOK
          <6> HIDE DEF i
          <6> QED BY <6>2, <6>3 DEF ActiveItem, Spoiled
        <5> QED BY <1>1, <1>9, <5>1 DEF Held, memVars
      <4> QED BY <1>0, <1>1, <4>1, <4>2, <4>3, SectionKeepsOp
    <3>2. k \in DOMAIN items /\ items[k].run = r /\ items[k].bg /\ run[r] # "absent"
      BY <1>0, <3>0, <3>1, CurrentNames
    <3>3. Spoiled(r, k)
      BY <1>2, <1>7, <3>2 DEF Spoiled
    <3> QED BY <1>0, <1>4, <3>1, <3>2, <3>3 DEF Segment, SpoiledCurrent
  <2> QED BY <1>8, <2>1, <2>2, <2>3 DEF Segment
<1> QED BY <1>10, <1>11

LEMMA ClientSegments ==
    ASSUME SegInv, NEW d \in Client, Request(d) \/ Schedule(d) \/ Put(d), NEW r \in Run \ disturbed
    PROVE  Segment(r)'
<1>0. /\ TypeInv /\ StoreTypeOK /\ ThreadTypeOK /\ Worker \in Proc /\ d # Worker /\ d \in Proc /\ NameInv
      /\ Shape(d) /\ Segment(r) /\ NoRun # r /\ ItemStages /\ ExistInv /\ Len(items) \in Nat /\ pending \in [Run -> Nat]
  BY RunStoreAssumption DEF SegInv, GoodInv, SegmentInv, NameInv, TokenInv, TypeInv, TypeOK, ShapeInv, StageInv, Proc,
     StoreTypeOK
<1>1. \A q \in Proc : q # d => pc'[q] = pc[q] /\ op'[q] = op[q] /\ exc'[q] = exc[q]
  BY <1>0, ClientShape
<1>2. exc'[Worker] = exc[Worker] /\ pc'[Worker] = pc[Worker] /\ op'[Worker] = op[Worker]
  BY <1>0, <1>1
<1>3. TypeInv' /\ RowsKept
  BY <1>0, ClientType, ClientNames
<1>4. 0 \notin DOMAIN items'
  <2>1. DOMAIN items' = 1..Len(items') /\ Len(items') \in Nat
    BY <1>3, LenProperties DEF TypeInv, TypeOK, StoreTypeOK
  <2> QED BY <2>1
<1>5. \A c \in Client : c # d => pc'[c] = pc[c] /\ op'[c] = op[c]
  BY <1>1 DEF Proc
<1>6. ASSUME UNCHANGED <<phase, queue>>, run'[r] = run[r], Untouched(r), pc'[d] # "segment",
             \A k \in DOMAIN items' : Held(r, k)' => Held(r, k)
      PROVE  Segment(r)'
  <2>1. \A k : (Current(r, k)' <=> Current(r, k)) /\ (Leaving(r)' <=> Leaving(r)) /\ (Going' <=> Going)
    BY <1>2, <1>6, CurrentSame
  <2>2. LeavesUnspoiled(r)'
    BY <1>0, <1>2, <1>6, <2>1, LeavingStays DEF Segment, Untouched
  <2>3. \A c \in Client : InRunner(c, r)' => InRunner(c, r)
    BY <1>5, <1>6 DEF InRunner
  <2> QED BY <1>0, <1>3, <1>6, <2>1, <2>2, <2>3, SegmentStays
<1>7. items' = items => Untouched(r)
  BY DEF Untouched
<1>8. ASSUME NEW x \in Run, NEW bg \in BOOLEAN, StartRun(d, x, bg) PROVE Segment(r)'
  <2>0. /\ UNCHANGED <<phase, queue, pending>> /\ run[x] = "absent" /\ run' = [run EXCEPT ![x] = "queued"]
        /\ Adds(x, bg) /\ op'[d].run = x /\ op'[d].item = Len(items) + 1
        /\ op'[d].kind = IF bg THEN "submit" ELSE "start"
        /\ pc'[d] # "segment"
    BY <1>0, <1>8 DEF StartRun, SetRun, Adds, Begin, Goto, memVars, ThreadTypeOK
  <2>1. /\ DOMAIN items' = DOMAIN items \cup {Len(items) + 1}
        /\ \A k \in DOMAIN items : items'[k] = items[k]
        /\ items'[Len(items) + 1] = NewItem(x, bg)
    BY <1>0, <2>0, AddsKeep
  <2>2. CASE x # r
    <3>1. Untouched(r)
      BY <2>1, <2>2 DEF Untouched, NewItem
    <3>2. run'[r] = run[r]
      BY <1>0, <2>0, <2>2 DEF StoreTypeOK
    <3>3. \A k : Held(r, k)' => Held(r, k)
      BY <1>5, <2>0, <2>2 DEF Held
    <3> QED BY <1>6, <2>0, <3>1, <3>2, <3>3
  <2>3. CASE x = r
    <3>0. run[r] = "absent" /\ \A k \in DOMAIN items : items[k].run # r
      BY <1>0, <2>0, <2>3 DEF ExistInv
    <3>1. \A k : ~Current(r, k) /\ (k # 0 => ~Held(r, k))
      BY <1>0, <3>0, CurrentNames
    <3>2. \A k : (Current(r, k)' <=> Current(r, k)) /\ (Leaving(r)' <=> Leaving(r)) /\ (Going' <=> Going)
      BY <1>2, <2>0, CurrentSame
    <3>3. OneSegment(r)'
      <4>1. \A k \in BackgroundItems(r, ActiveItem)' : k = Len(items) + 1
        BY <2>1, <3>0 DEF BackgroundItems
      <4> QED BY <4>1 DEF OneSegment
    <3>4. SpoiledDormant(r)'
      BY <3>1, <3>2 DEF SpoiledDormant
    <3>5. ~Leaving(r)
      <4>1. Leaving(r) => Serves(r, op[Worker].item)
        BY DEF Leaving, Serves, Resting
      <4> QED BY <3>1, <4>1 DEF Current
    <3>6. SpoiledCurrent(r)'
      <4> SUFFICES ASSUME NEW k \in DOMAIN items', Held(r, k)', Spoiled(r, k)' PROVE FALSE
        BY DEF SpoiledCurrent
      <4>1. k # Len(items) + 1
        BY <2>1 DEF Spoiled, NewItem
      <4>2. Held(r, k)
        BY <1>5, <2>0, <4>1 DEF Held
      <4> QED BY <1>4, <3>1, <4>2
    <3> QED BY <3>2, <3>3, <3>4, <3>5, <3>6 DEF Segment, LeavesUnspoiled
  <2> QED BY <2>2, <2>3
<1>9. ASSUME NEW x \in Run, NEW j \in Job, NEW kind \in {"approve", "reject", "cancel"}, JobRequest(d, kind, x, j)
      PROVE  Segment(r)'
  <2>0. /\ UNCHANGED <<phase, queue, pending>> /\ run' = run /\ Adds(x, FALSE)
        /\ op'[d].kind = kind /\ pc'[d] # "segment"
    BY <1>0, <1>9 DEF JobRequest, Adds, Begin, Goto, memVars, ThreadTypeOK
  <2>1. /\ DOMAIN items' = DOMAIN items \cup {Len(items) + 1}
        /\ \A k \in DOMAIN items : items'[k] = items[k]
        /\ items'[Len(items) + 1] = NewItem(x, FALSE)
    BY <1>0, <2>0, AddsKeep
  <2>2. Untouched(r)
    BY <2>1 DEF Untouched, NewItem
  <2>3. \A k : Held(r, k)' => Held(r, k)
    BY <1>5, <2>0 DEF Held, Background
  <2> QED BY <1>6, <2>0, <2>2, <2>3
<1>10. ASSUME NEW x \in Run, NEW j \in Job, BackgroundApproval(d, x, j) PROVE Segment(r)'
  <2>0. /\ UNCHANGED <<phase, queue, pending>> /\ run' = run /\ items' = items
        /\ op'[d].item = 0 /\ pc'[d] # "segment"
    BY <1>0, <1>10 DEF BackgroundApproval, Begin, Goto, memVars, storeVars, ThreadTypeOK
  <2>1. \A k \in DOMAIN items' : Held(r, k)' => Held(r, k)
    BY <1>4, <1>5, <2>0 DEF Held
  <2> QED BY <1>6, <1>7, <2>0, <2>1
<1>11. CASE Schedule(d)
  <2>0. /\ UNCHANGED <<phase, queue>> /\ run' = run /\ items' = items /\ pc[d] = "schedule" /\ pc'[d] # "segment"
        /\ \/ op' = op /\ pending' = pending
           \/ op'[d] = NoOp /\ pending' = [pending EXCEPT ![op[d].run] = op[d].item]
    BY <1>0, <1>11 DEF Schedule, Continue, Leave, Goto, storeVars, ThreadTypeOK
  <2>1. Background(op[d].kind)
    BY <1>0, <2>0 DEF Shape, Placed, SectionPc, Resting, Background, ThreadTypeOK, Kind
  <2>2. \A k : Held(r, k)' => Held(r, k)
    <3>1. CASE op' = op /\ pending' = pending
      BY <3>1 DEF Held
    <3>2. CASE op'[d] = NoOp /\ pending' = [pending EXCEPT ![op[d].run] = op[d].item]
      <4>1. op'[d].run # r
        BY <1>0, <3>2 DEF NoOp
      <4>2. pending'[r] = pending[r] \/ (pending'[r] = op[d].item /\ op[d].run = r)
        BY <1>0, <3>2
      <4> QED BY <1>5, <2>1, <4>1, <4>2 DEF Held
    <3> QED BY <2>0, <3>1, <3>2
  <2> QED BY <1>6, <1>7, <2>0, <2>2
<1>12. CASE Put(d)
  <2>0. /\ phase' = phase /\ run' = run /\ items' = items /\ pending' = pending /\ pc[d] = "put" /\ pc'[d] = "idle"
        /\ op'[d] = NoOp /\ queue' = Append(queue, Wake(op[d].item, op[d].run))
    BY <1>0, <1>12 DEF Put, Leave, storeVars, ThreadTypeOK
  <2>1. Background(op[d].kind) /\ Exists(op[d].run) /\ op[d].item \in Nat
    BY <1>0, <2>0 DEF Shape, Placed, SectionPc, Resting, Background, ThreadTypeOK, Kind, TypeInv, ThreadsExist
  <2>2. /\ DOMAIN queue' = DOMAIN queue \cup {Len(queue) + 1}
        /\ \A k \in DOMAIN queue : queue'[k] = queue[k]
        /\ queue'[Len(queue) + 1] = Wake(op[d].item, op[d].run)
    BY <1>0, <2>0, <2>1, AppendWake
  <2>3. Going' <=> Going
    BY <2>0 DEF Going
  <2>4. \A k : /\ Current(r, k) => Current(r, k)'
               /\ Current(r, k)' => Current(r, k) \/ (Going /\ op[d].run = r /\ op[d].item = k)
    <3>1. \A k : Serves(r, k)' <=> Serves(r, k)
      BY <1>2, <2>3 DEF Serves
    <3>2. \A k : Waits(r, k) => Waits(r, k)'
      BY <2>2, <2>3 DEF Waits
    <3>3. \A k : Waits(r, k)' => Waits(r, k) \/ (Going /\ op[d].run = r /\ op[d].item = k)
      BY <2>2, <2>3 DEF Waits, Wake
    <3> QED BY <3>1, <3>2, <3>3 DEF Current
  <2>5. ASSUME Going, op[d].run = r
        PROVE  LET k == op[d].item IN k \in DOMAIN items /\ items[k].bg /\ items[k].run = r /\ ~Spoiled(r, k)
    <3> DEFINE k == op[d].item
    <3>1. Held(r, k)
      BY <2>1, <2>5 DEF Held
    <3>2. Names(k, r, op[d].kind)
      BY <1>0, <2>0, <2>5 DEF NameInv, NamesInv, ThreadNames, Named, Itemless, Resting
    <3>3. k \in DOMAIN items /\ items[k].bg /\ items[k].run = r
      BY <2>1, <3>2 DEF Names
    <3>4. Putting(r)
      BY <2>0, <2>5 DEF Putting
    <3>5. ~Current(r, k)
      BY <1>0, <3>4, CurrentAlone
    <3> QED BY <1>0, <2>5, <3>1, <3>3, <3>5 DEF Segment, SpoiledCurrent
  <2>6. \A k : Held(r, k)' => Held(r, k)
    BY <1>0, <1>5, <2>0 DEF Held, NoOp
  <2>7. Leaving(r)' <=> Leaving(r)
    BY <1>2, <2>3 DEF Leaving
  <2>8. LeavesUnspoiled(r)'
    BY <1>0, <1>2, <2>0, <2>7, LeavingStays DEF Segment
  <2>9. \A c \in Client : InRunner(c, r)' => InRunner(c, r)
    BY <1>5, <2>0 DEF InRunner
  <2>10. \A k : Current(r, k)' => Current(r, k) \/ (k \in DOMAIN items /\ items[k].bg /\ items[k].run = r /\ ~Spoiled(r, k))
    BY <2>4, <2>5
  <2>11. run'[r] = run[r] /\ Untouched(r)
    BY <1>7, <2>0
  <2> QED BY <1>0, <1>3, <2>3, <2>4, <2>6, <2>8, <2>9, <2>10, <2>11, SegmentStays
<1> QED BY <1>8, <1>9, <1>10, <1>11, <1>12 DEF Request

\* The worker writes only the row of its own item, which is of its own run.
LEMMA OtherRows ==
    ASSUME NameInv, pc[Worker] \notin Resting, Writes(op[Worker].item), NEW r \in Run
    PROVE  /\ op[Worker].item \in DOMAIN items /\ items[op[Worker].item].run = op[Worker].run
           /\ items[op[Worker].item].bg
           /\ DOMAIN items' = DOMAIN items /\ RowsKept
           /\ \A k \in DOMAIN items : k # op[Worker].item => items'[k] = items[k]
           /\ op[Worker].run # r => Untouched(r)
<1>0. /\ StoreTypeOK /\ Worker \in Proc /\ op[Worker].kind = "wake"
  BY DEF NameInv, TokenInv, TypeInv, TypeOK, ShapeInv, Shape, Placed, Proc
<1>1. Names(op[Worker].item, op[Worker].run, "wake")
  BY <1>0 DEF NameInv, NamesInv, ThreadNames, Named, Itemless
<1>2. /\ op[Worker].item \in DOMAIN items /\ items[op[Worker].item].run = op[Worker].run /\ items[op[Worker].item].bg
  BY <1>1 DEF Names, Background
<1>3. /\ DOMAIN items' = DOMAIN items /\ RowsKept
      /\ \A k \in DOMAIN items : k # op[Worker].item => items'[k] = items[k]
  BY <1>0, WritesKeep
<1>4. op[Worker].run # r => Untouched(r)
  BY <1>2, <1>3 DEF Untouched, RowsKept
<1> QED BY <1>2, <1>3, <1>4

\* What a step of the worker inside the section does to its item.
LEMMA WorkerSectionItem ==
    ASSUME NameInv, ItemStages, NEW ok \in BOOLEAN, CoordinatorStep(Worker, ok) \/ BodyStep(Worker, ok),
           phase' = phase, NEW i, NEW x, op[Worker].item = i, op[Worker].run = x
    PROVE  /\ op' = op /\ Writes(i)
           /\ items' = items \/ (items[i].status \in ActiveItem /\ run' = run)
           /\ \/ items' = items /\ (run' = run \/ items[i].status = "running")
              \/ pc[Worker] = "fail_item" /\ items'[i].status = "failed" /\ run' = run
              \/ pc[Worker] = "mark" /\ items'[i].status = "running" /\ run' = run
              \/ pc[Worker] \in {"finish", "error_item"} /\ items'[i].status = run[x] /\ run' = run
              \/ pc[Worker] = "error_item" /\ items'[i].status = "failed" /\ run' = run /\ run[x] # "waiting"
           /\ Leaving(x)' => \/ Leaving(x) /\ items' = items /\ run' = run
                             \/ items'[i].status = run[x] /\ run' = run
           /\ pc'[Worker] \notin Resting
<1>0. /\ TypeInv /\ ThreadTypeOK /\ StoreTypeOK /\ Worker \in Proc /\ Shape(Worker)
      /\ op[Worker].kind \in {"none", "wake"}
  BY DEF NameInv, TokenInv, TypeInv, TypeOK, ShapeInv, Shape, Proc
<1>1. Moves(Worker)
  BY <1>0, CoordinatorMoves, BodyMoves
<1>2. pc[Worker] \notin Resting /\ op[Worker].kind = "wake" /\ run[x] \in RunStatus /\ x \in Run
  BY <1>0, <1>1, WorkingRun DEF Moves, SectionPc, Resting, Shape, Placed
<1>3. op' = op /\ pc[Worker] # "enqueue"
  <2>1. pc[Worker] # "enqueue"
    BY <1>0, <1>2 DEF Shape, Placed
  <2>2. pc'[Worker] # "idle"
    BY <1>0, <1>1 DEF Moves, SectionPc
  <2> QED BY <1>0, <2>1, <2>2, SectionKeepsOp DEF Enqueues
<1>4. Writes(i)
  BY <1>0, <1>3, SectionWrites DEF Writes
<1>5. pc'[Worker] \notin Resting
  BY <1>0, <1>1 DEF Moves, SectionPc, Resting
<1>6. \A s \in ItemStatus : items' = WithStatus(i, s) => items'[i].status = s
  BY <1>2, OwnStatus
<1>7. {"running", "failed"} \subseteq ItemStatus /\ run[x] \in ItemStatus
  BY <1>2 DEF ItemStatus, RunStatus, LiveRun, TerminalRun
<1>8. \A l : Continue(Worker, l) => l = pc'[Worker] /\ exc' = exc
  BY <1>0 DEF Continue, Goto, ThreadTypeOK
<1>9. \A l, e : Raise(Worker, e, l) => l = pc'[Worker] /\ e = exc'[Worker]
  BY <1>0 DEF Raise, Goto, ThreadTypeOK
<1>10. \A e : Return(Worker, e) => pc'[Worker] \in {"settle", "reput", "terminalize"} /\ (pc'[Worker] = "settle" <=> e = "none")
  BY <1>0 DEF Return, Goto, ThreadTypeOK
<1>11. Leaving(x)' => pc'[Worker] = "settle" \/ (pc'[Worker] = "release" /\ exc'[Worker] = "none")
  BY <1>0, <1>1 DEF Leaving, Moves, SectionPc
<1>12. CASE NotQueued(Worker)
  <2>1. pc'[Worker] \in {"reput", "terminalize"} /\ items' = items /\ run' = run
    BY <1>10, <1>12 DEF NotQueued, storeVars
  <2> QED BY <1>3, <1>4, <1>5, <1>11, <2>1
<1>13. CASE AcquireLock(Worker) \/ AcquireFailed(Worker, ok)
  <2>1. pc'[Worker] \in {"mark", "fail_item", "load"} /\ items' = items /\ run' = run
    BY <1>2, <1>8, <1>9, <1>13 DEF AcquireLock, AcquireFailed
  <2> QED BY <1>3, <1>4, <1>5, <1>11, <2>1
<1>14. CASE MarkRunning(Worker, ok)
  <2>1. /\ pc'[Worker] \in {"activate", "load", "fail_item"} /\ run' = run /\ pc[Worker] = "mark"
        /\ items' = items \/ items' = WithStatus(i, "running")
    BY <1>8, <1>9, <1>14 DEF MarkRunning
  <2>2. items[i].status \in ActiveItem
    BY <2>1 DEF ItemStages, ActiveItem
  <2>3. items' = items \/ items'[i].status = "running"
    BY <1>6, <1>7, <2>1
  <2> QED BY <1>3, <1>4, <1>5, <1>11, <2>1, <2>2, <2>3
<1>15. CASE FailItem(Worker, ok)
  <2>1. /\ run' = run /\ pc[Worker] = "fail_item" /\ exc[Worker] # "none"
        /\ items' = items \/ items' = WithStatus(i, "failed")
    BY <1>0, <1>15 DEF FailItem, Shape
  <2>2. ~Leaving(x)'
    BY <1>8, <1>10, <1>11, <1>15, <2>1 DEF FailItem
  <2>3. items[i].status \in ActiveItem
    BY <2>1 DEF ItemStages, ActiveItem
  <2>4. items' = items \/ items'[i].status = "failed"
    BY <1>6, <1>7, <2>1
  <2> QED BY <1>3, <1>4, <1>5, <2>1, <2>2, <2>3, <2>4
<1>16. CASE FinishItem(Worker, ok)
  <2>1. /\ run' = run /\ pc[Worker] = "finish"
        /\ \/ items' = items /\ pc'[Worker] = "error_item"
           \/ items' = WithStatus(i, run[x])
    BY <1>9, <1>16 DEF FinishItem
  <2>2. items[i].status \in ActiveItem
    BY <2>1 DEF ItemStages, ActiveItem
  <2>3. (items' = items /\ pc'[Worker] = "error_item") \/ items'[i].status = run[x]
    BY <1>6, <1>7, <2>1
  <2> QED BY <1>3, <1>4, <1>5, <1>11, <2>1, <2>2, <2>3
<1>17. CASE ErrorItem(Worker, ok)
  <2>1. /\ run' = run /\ pc[Worker] = "error_item" /\ exc[Worker] # "none"
        /\ items' = items \/ items' = WithStatus(i, run[x]) \/ (items' = WithStatus(i, "failed") /\ run[x] # "waiting")
    BY <1>0, <1>17 DEF ErrorItem, Shape
  <2>2. ~Leaving(x)'
    BY <1>8, <1>11, <1>17, <2>1 DEF ErrorItem
  <2>3. items[i].status \in ActiveItem
    BY <2>1 DEF ItemStages, ActiveItem
  <2>4. items' = items \/ items'[i].status = run[x] \/ (items'[i].status = "failed" /\ run[x] # "waiting")
    BY <1>6, <1>7, <2>1
  <2> QED BY <1>3, <1>4, <1>5, <2>1, <2>2, <2>3, <2>4
<1>18. CASE ReleaseLock(Worker, ok)
  <2>1. items' = items /\ run' = run /\ pc[Worker] = "release" /\ (pc'[Worker] = "settle" => exc[Worker] = "none")
        /\ pc'[Worker] # "release"
    BY <1>10, <1>18 DEF ReleaseLock
  <2>2. Leaving(x)' => Leaving(x)
    <3>1. Going' => Going
      BY DEF Going
    <3> QED BY <1>11, <2>1, <3>1 DEF Leaving
  <2> QED BY <1>3, <1>4, <1>5, <2>1, <2>2
<1>19. CASE BodyStep(Worker, ok)
  <2>1. /\ pc[Worker] \in {"activate", "segment", "close"} /\ items' = items
        /\ pc'[Worker] \in {"segment", "close", "finish", "error_item"}
    BY <1>19, WorkerBody
  <2>2. items[i].status = "running"
    BY <2>1 DEF ItemStages
  <2>3. ~Leaving(x)'
    BY <1>11, <2>1
  <2> QED BY <1>3, <1>4, <1>5, <2>1, <2>2, <2>3
<1> QED BY <1>12, <1>13, <1>14, <1>15, <1>16, <1>17, <1>18, <1>19 DEF CoordinatorStep

LEMMA WorkerSectionSegments ==
    ASSUME SegInv, NEW ok \in BOOLEAN, SectionStep(Worker, ok), NEW r \in Run \ disturbed
    PROVE  Segment(r)'
<1> SUFFICES ASSUME NEW i, i = op[Worker].item PROVE Segment(r)'
  OBVIOUS
<1>0. /\ TypeInv /\ StoreTypeOK /\ Worker \in Proc /\ Worker \notin Client /\ NameInv /\ GoodInv /\ StageInv
      /\ ItemStages /\ Segment(r) /\ stolen \subseteq disturbed /\ LockInv /\ disturbed' = disturbed
  BY RunStoreAssumption DEF SegInv, GoodInv, SegmentInv, WriteInv, StartInv, NameInv, TokenInv, TypeInv, TypeOK,
     StageInv, Proc, SectionStep, history
<1>1. /\ Moves(Worker) /\ (CoordinatorStep(Worker, ok) \/ BodyStep(Worker, ok))
      /\ UNCHANGED memVars /\ phase' = phase /\ queue' = queue /\ pending' = pending
  BY <1>0, CoordinatorMoves, BodyMoves DEF SectionStep, memVars
<1>2. /\ op' = op /\ Writes(i) /\ pc[Worker] \notin Resting /\ pc'[Worker] \notin Resting
      /\ pc[Worker] \in SectionPc
  BY <1>0, <1>1, WorkerSectionItem DEF Moves, SectionPc, Resting
<1>3. /\ i \in DOMAIN items /\ items[i].run = op[Worker].run /\ items[i].bg
      /\ DOMAIN items' = DOMAIN items /\ RowsKept
      /\ \A k \in DOMAIN items : k # i => items'[k] = items[k]
      /\ op[Worker].run # r => Untouched(r)
  BY <1>0, <1>2, OtherRows
<1>4. Going' <=> Going
  BY <1>1 DEF Going
<1>5. \A k : Held(r, k)' <=> Held(r, k)
  BY <1>1, <1>2 DEF Held
<1>6. \A c \in Client : InRunner(c, r)' <=> InRunner(c, r)
  BY <1>0, <1>1 DEF InRunner, Moves, Proc
<1>7. \A k : Waits(r, k)' <=> Waits(r, k)
  BY <1>1, <1>4 DEF Waits
<1>8. TypeInv' /\ Sound(r)
  BY <1>0, SectionType, SectionRows DEF GoodInv
<1>9. CASE op[Worker].run # r
  <2>1. \A k : ~Serves(r, k) /\ ~Serves(r, k)'
    BY <1>2, <1>9 DEF Serves
  <2>2. \A k : Current(r, k)' <=> Current(r, k)
    BY <1>7, <2>1 DEF Current
  <2>3. ~Leaving(r)'
    BY <1>2, <1>9 DEF Leaving
  <2>4. LeavesUnspoiled(r)'
    BY <2>3 DEF LeavesUnspoiled
  <2>5. run'[r] = run[r]
    BY <1>0, <1>1, <1>9, SectionWrites DEF OnlyRun
  <2> QED BY <1>0, <1>3, <1>4, <1>5, <1>6, <1>8, <1>9, <2>2, <2>4, <2>5, SegmentStays
<1>10. CASE op[Worker].run = r
  <2>0. /\ items' = items \/ (items[i].status \in ActiveItem /\ run' = run)
        /\ \/ items' = items /\ (run' = run \/ items[i].status = "running")
           \/ pc[Worker] = "fail_item" /\ items'[i].status = "failed" /\ run' = run
           \/ pc[Worker] = "mark" /\ items'[i].status = "running" /\ run' = run
           \/ pc[Worker] \in {"finish", "error_item"} /\ items'[i].status = run[r] /\ run' = run
           \/ pc[Worker] = "error_item" /\ items'[i].status = "failed" /\ run' = run /\ run[r] # "waiting"
        /\ Leaving(r)' => \/ Leaving(r) /\ items' = items /\ run' = run
                          \/ items'[i].status = run[r] /\ run' = run
    BY <1>0, <1>1, <1>10, WorkerSectionItem
  <2>1. Serves(r, i)
    BY <1>2, <1>10 DEF Serves, SectionPc
  <2>2. \A k : Current(r, k) => k = i
    BY <1>0, <1>2, <1>10, CurrentAlone
  <2>3. \A k : Current(r, k)' => k = i
    BY <1>2, <1>7, <2>2 DEF Current, Serves
  <2>4. Going => Current(r, i)'
    BY <1>2, <1>4, <1>10 DEF Current, Serves
  <2>5. BackgroundItems(r, ActiveItem)' \subseteq BackgroundItems(r, ActiveItem)
    <3>1. ASSUME NEW k \in BackgroundItems(r, ActiveItem)' PROVE k \in BackgroundItems(r, ActiveItem)
      <4>1. k \in DOMAIN items /\ items[k].run = r /\ items[k].bg
        BY <1>3, <3>1 DEF BackgroundItems, RowsKept
      <4>2. items[k].status \in ActiveItem
        BY <1>3, <2>0, <3>1 DEF BackgroundItems
      <4> QED BY <4>1, <4>2 DEF BackgroundItems
    <3> QED BY <3>1
  <2>6. OneSegment(r)'
    BY <1>0, <2>5 DEF Segment, OneSegment
  <2>7. Dormant(r) /\ run' = run => Dormant(r)'
    BY <1>6, <2>5 DEF Dormant
  <2>8. SpoiledDormant(r)'
    <3> SUFFICES ASSUME Spoiled(r, i)' PROVE Dormant(r)'
      BY <2>3 DEF SpoiledDormant
    <3>0. items'[i].status = "failed" /\ run'[r] \in LiveRun
      BY DEF Spoiled
    <3>1. CASE items' = items
      <4>1. run' = run /\ Spoiled(r, i)
        BY <2>0, <3>0, <3>1, <1>3 DEF Spoiled
      <4> QED BY <1>0, <1>3, <2>1, <2>7, <4>1 DEF Segment, SpoiledDormant, Current
    <3>2. CASE pc[Worker] = "fail_item" /\ run' = run
      <4>1. run[r] \in TerminalRun \cup {"queued"}
        BY <1>0, <1>10, <3>2 DEF StageInv, ActivateInv
      <4> QED BY <3>0, <3>2, <4>1 DEF Dormant, LiveRun, TerminalRun
    <3>3. ~(items'[i].status = run[r] /\ run' = run)
      BY <3>0 DEF LiveRun
    <3>4. CASE pc[Worker] = "error_item" /\ run' = run /\ run[r] # "waiting"
      <4>1. run'[r] = run[r] /\ lock[r] = Worker
        BY <1>0, <1>10, <3>4 DEF StageInv, HoldInv
      <4>2. \A c \in Client : ~InRunner(c, r)
        <5>1. \A c \in Client : InRunner(c, r) => Using(c, r) /\ c \in Proc /\ c # Worker
          BY <1>0 DEF InRunner, Using, BodyPc, Proc
        <5> QED BY <1>0, <4>1, <5>1 DEF LockInv
      <4>3. BackgroundItems(r, ActiveItem)' = {}
        <5>1. i \in BackgroundItems(r, ActiveItem)
          <6>1. items[i].status = "running"
            BY <1>0, <3>4 DEF ItemStages
          <6> QED BY <1>3, <1>10, <6>1 DEF BackgroundItems, ActiveItem
        <5>2. i \notin BackgroundItems(r, ActiveItem)'
          BY <3>0 DEF BackgroundItems, ActiveItem
        <5> QED BY <1>0, <2>5, <5>1, <5>2 DEF Segment, OneSegment
      <4>4. CASE run[r] \in {"queued", "running"}
        BY <1>6, <4>1, <4>2, <4>3, <4>4 DEF Dormant
      <4> QED BY <3>0, <3>4, <4>1, <4>4 DEF LiveRun
    <3> QED BY <2>0, <3>0, <3>1, <3>2, <3>3, <3>4
  <2>9. LeavesUnspoiled(r)'
    <3> SUFFICES ASSUME Leaving(r)', Spoiled(r, i)' PROVE FALSE
      BY <1>2 DEF LeavesUnspoiled
    <3>1. CASE Leaving(r) /\ items' = items /\ run' = run
      BY <1>0, <3>1 DEF Segment, LeavesUnspoiled, Spoiled
    <3>2. CASE items'[i].status = run[r] /\ run' = run
      BY <3>2 DEF Spoiled, LiveRun
    <3> QED BY <2>0, <3>1, <3>2
  <2>10. SpoiledCurrent(r)'
    <3> SUFFICES ASSUME NEW k \in DOMAIN items', Going', Held(r, k)', Spoiled(r, k)' PROVE Current(r, k)'
      BY DEF SpoiledCurrent
    <3>1. CASE k = i
      BY <1>4, <2>4, <3>1
    <3>2. CASE k # i
      <4>1. run'[r] \in LiveRun => run[r] \in LiveRun
        <5>1. run[r] \in LiveRun \cup TerminalRun
          BY <1>0, <1>1, <1>2, <1>10, WorkingRun DEF RunStatus
        <5>2. run'[r] \in LiveRun => run'[r] \notin TerminalRun
          BY DEF LiveRun, TerminalRun
        <5> QED BY <1>8, <5>1, <5>2 DEF Sound
      <4>2. Spoiled(r, k)
        BY <1>3, <3>2, <4>1 DEF Spoiled
      <4> QED BY <1>0, <1>3, <1>4, <1>5, <2>2, <3>2, <4>2 DEF Segment, SpoiledCurrent
    <3> QED BY <3>1, <3>2
  <2> QED BY <2>6, <2>8, <2>9, <2>10 DEF Segment
<1> QED BY <1>9, <1>10

\* The steps of the worker between taking a wake item and dropping it.
Attends(ok) ==
    \/ ReadWake(ok) \/ RequeueSegment(ok) \/ ReleaseOrphans(ok) \/ Reconcile(ok)
    \/ ConfigurationMissing(ok) \/ Terminalize(ok)
    \/ ok /\ PutBack /\ phase = "stopping"

LEMMA AttendsKeeps ==
    ASSUME NameInv, ItemStages, NEW ok \in BOOLEAN, Attends(ok)
    PROVE  /\ op' = op /\ UNCHANGED <<phase, queue, pending>>
           /\ pc[Worker] \notin Resting /\ pc'[Worker] \notin Resting /\ pc[Worker] # "settle"
           /\ pc[Worker] = "wake" => Going \/ pc'[Worker] = "settle"
<1>0. /\ TypeInv /\ ThreadTypeOK /\ Worker \in Proc /\ Quiet /\ phase \in Phase
  BY DEF NameInv, TokenInv, TypeInv, TypeOK, Proc
<1>1. \A l : Continue(Worker, l) => l = pc'[Worker] /\ op' = op
  BY <1>0 DEF Continue, Goto, ThreadTypeOK
<1>2. CASE ReadWake(ok)
  <2>1. /\ op' = op /\ UNCHANGED <<phase, queue, pending>> /\ pc[Worker] = "wake"
        /\ pc'[Worker] = "settle" \/ (phase # "stopping" /\ pc'[Worker] \in {"reput", Branch(op[Worker].run, op[Worker].item)})
    BY <1>1, <1>2 DEF ReadWake, memVars
  <2>2. Branch(op[Worker].run, op[Worker].item) \in {"acquire", "requeue", "orphans", "reconcile"}
    BY DEF Branch
  <2>3. phase \in {"schedule", "serving", "stopping"}
    BY <1>0, <2>1 DEF Quiet, ItemStages, Phase
  <2> QED BY <2>1, <2>2, <2>3 DEF Resting, Going
<1>3. CASE RequeueSegment(ok)
  BY <1>1, <1>3 DEF RequeueSegment, memVars, Resting
<1>4. CASE ReleaseOrphans(ok) \/ Reconcile(ok)
  BY <1>1, <1>4 DEF ReleaseOrphans, Reconcile, memVars, Resting
<1>5. CASE ConfigurationMissing(ok) \/ Terminalize(ok)
  BY <1>1, <1>5 DEF ConfigurationMissing, Terminalize, memVars, Resting
<1>6. CASE PutBack /\ phase = "stopping"
  BY <1>1, <1>6 DEF PutBack, Resting
<1> QED BY <1>2, <1>3, <1>4, <1>5, <1>6 DEF Attends

LEMMA AttendsSegments ==
    ASSUME SegInv, NEW ok \in BOOLEAN, Attends(ok), NEW r \in Run \ disturbed
    PROVE  Segment(r)'
<1> SUFFICES ASSUME NEW i, i = op[Worker].item PROVE Segment(r)'
  OBVIOUS
<1>0. /\ TypeInv /\ StoreTypeOK /\ ThreadTypeOK /\ Worker \in Proc /\ Worker \notin Client /\ NameInv
      /\ ItemStages /\ Segment(r)
  BY RunStoreAssumption DEF SegInv, GoodInv, SegmentInv, NameInv, TokenInv, TypeInv, TypeOK, StageInv, Proc
<1>1. WorkerStep(ok)
  BY DEF Attends, WorkerStep
<1>2. /\ op' = op /\ UNCHANGED <<phase, queue, pending>>
      /\ pc[Worker] \notin Resting /\ pc'[Worker] \notin Resting /\ pc[Worker] # "settle"
      /\ pc[Worker] = "wake" => Going \/ pc'[Worker] = "settle"
  BY <1>0, AttendsKeeps
<1>3. OnlyRun(op[Worker].run) /\ Writes(i) /\ TypeInv'
  BY <1>0, <1>1, WorkerWrites, WorkerType
<1>4. /\ i \in DOMAIN items /\ items[i].run = op[Worker].run /\ items[i].bg
      /\ DOMAIN items' = DOMAIN items /\ RowsKept
      /\ \A k \in DOMAIN items : k # i => items'[k] = items[k]
      /\ op[Worker].run # r => Untouched(r)
  BY <1>0, <1>2, <1>3, OtherRows
<1>5. \A c \in Client : pc'[c] = pc[c] /\ op'[c] = op[c]
  BY <1>0, <1>1, WorkerStepOutside DEF Proc
<1>6. \A c \in Client : InRunner(c, r)' <=> InRunner(c, r)
  BY <1>5 DEF InRunner
<1>7. (\A k : Held(r, k)' <=> Held(r, k)) /\ (Going' <=> Going)
  BY <1>2 DEF Held, Going
<1>8. \A k : Waits(r, k)' <=> Waits(r, k)
  BY <1>2, <1>7 DEF Waits
<1>9. \A k : /\ Serves(r, k)' => Serves(r, k)
             /\ Going /\ Serves(r, k) => Serves(r, k)'
  BY <1>2, <1>7 DEF Serves
<1>10. \A k : /\ Current(r, k)' => Current(r, k)
              /\ Going /\ Current(r, k) => Current(r, k)'
  BY <1>8, <1>9 DEF Current
<1>11. ASSUME run'[r] = run[r], Untouched(r), LeavesUnspoiled(r)' PROVE Segment(r)'
  BY <1>0, <1>3, <1>4, <1>6, <1>7, <1>10, <1>11, SegmentStays
<1>12. ASSUME ~Leaving(r)' PROVE LeavesUnspoiled(r)'
  BY <1>12 DEF LeavesUnspoiled
<1>13. CASE op[Worker].run # r
  <2>1. ~Leaving(r)' /\ run'[r] = run[r]
    BY <1>2, <1>3, <1>13 DEF Leaving, OnlyRun
  <2> QED BY <1>4, <1>11, <1>12, <1>13, <2>1
<1>14. CASE op[Worker].run = r
  <2>1. \A l : Continue(Worker, l) => l = pc'[Worker]
    BY <1>0 DEF Continue, Goto, ThreadTypeOK
  <2>2. items' = items => Untouched(r)
    BY DEF Untouched
  <2>3. ASSUME items' = items, run' = run, Leaving(r)' => Leaving(r) PROVE Segment(r)'
    <3>1. LeavesUnspoiled(r)'
      BY <1>0, <1>2, <2>3, LeavingStays DEF Segment
    <3> QED BY <1>11, <2>2, <2>3, <3>1
  <2>4. \A k : Current(r, k) => k = i
    BY <1>0, <1>2, <1>14, CurrentAlone
  <2>5. Going \/ pc[Worker] # "wake" => Current(r, i)
    BY <1>2, <1>14 DEF Current, Serves
  <2>6. \A s \in ItemStatus : items' = WithStatus(i, s) => items'[i].status = s
    BY <1>0, <1>2, OwnStatus
  <2>7. ASSUME NEW k \in BackgroundItems(r, ActiveItem)', k # i PROVE k \in BackgroundItems(r, ActiveItem)
    BY <1>4, <2>7 DEF BackgroundItems, RowsKept
  <2>8. ASSUME items'[i].status \notin ActiveItem \/ items[i].status \in ActiveItem
        PROVE  BackgroundItems(r, ActiveItem)' \subseteq BackgroundItems(r, ActiveItem)
    <3>1. i \in BackgroundItems(r, ActiveItem)' => i \in BackgroundItems(r, ActiveItem)
      BY <1>4, <1>14, <2>8 DEF BackgroundItems
    <3> QED BY <2>7, <3>1
  <2>9. ASSUME run[r] \in LiveRun, ~Spoiled(r, i)' PROVE SpoiledCurrent(r)' /\ LeavesUnspoiled(r)' /\ SpoiledDormant(r)'
    <3>1. ASSUME NEW k \in DOMAIN items', Going', Held(r, k)', Spoiled(r, k)' PROVE FALSE
      <4>1. k # i
        BY <2>9, <3>1
      <4>2. Spoiled(r, k)
        BY <1>4, <2>9, <3>1, <4>1 DEF Spoiled
      <4> QED BY <1>0, <1>4, <1>7, <2>4, <3>1, <4>1, <4>2 DEF Segment, SpoiledCurrent
    <3>2. LeavesUnspoiled(r)'
      BY <1>2, <2>9 DEF LeavesUnspoiled
    <3>3. SpoiledDormant(r)'
      BY <1>10, <2>4, <2>9 DEF SpoiledDormant
    <3> QED BY <3>1, <3>2, <3>3 DEF SpoiledCurrent
  <2>10. CASE ReadWake(ok)
    <3>1. /\ items' = items /\ run' = run /\ pc[Worker] = "wake"
          /\ \/ pc'[Worker] \in {"settle", "reput"} /\ (pc'[Worker] = "settle" => phase = "stopping")
             \/ pc'[Worker] = Branch(r, i)
      BY <1>14, <2>1, <2>10 DEF ReadWake
    <3>2. ASSUME Leaving(r)', Spoiled(r, i) PROVE FALSE
      <4>1. Going /\ pc'[Worker] \in {"orphans", "reconcile", "settle", "release"}
        BY <1>7, <3>2 DEF Leaving
      <4>2. Branch(r, i) \in {"orphans", "reconcile"}
        BY <3>1, <4>1 DEF Going, Branch
      <4>3. Dormant(r)
        BY <1>0, <1>4, <2>5, <3>2, <4>1 DEF Segment, SpoiledDormant
      <4>4. run[r] \in {"queued", "running"} /\ items[i].status = "failed"
        BY <3>2, <4>3 DEF Dormant, Spoiled
      <4>5. run[r] = "queued" => Branch(r, i) = "acquire"
        BY DEF Branch, TerminalRun
      <4>6. run[r] = "running" /\ items[i].status = "failed" => Branch(r, i) = "requeue"
        BY DEF Branch, TerminalRun
      <4> QED BY <4>2, <4>4, <4>5, <4>6
    <3>3. LeavesUnspoiled(r)'
      BY <1>2, <3>1, <3>2 DEF LeavesUnspoiled, Spoiled
    <3> QED BY <1>11, <2>2, <3>1, <3>3
  <2>11. CASE RequeueSegment(ok)
    <3>1. \/ items' = items /\ run' = run /\ pc'[Worker] \in {"reput", "terminalize"}
          \/ run[r] = "running" /\ run'[r] = "queued" /\ items' = WithStatus(i, "queued")
      BY <1>0, <1>14, <2>1, <2>11 DEF RequeueSegment, SetRun, StoreTypeOK
    <3>2. CASE items' = items /\ run' = run /\ pc'[Worker] \in {"reput", "terminalize"}
      BY <2>3, <3>2 DEF Leaving
    <3>3. CASE run[r] = "running" /\ run'[r] = "queued" /\ items' = WithStatus(i, "queued")
      <4>1. items'[i].status = "queued" /\ pc[Worker] = "requeue" /\ items[i].status \in {"running", "failed"}
        BY <1>0, <2>6, <2>11, <3>3 DEF RequeueSegment, ItemStages, ItemStatus, RunStatus, LiveRun
      <4>2. SpoiledCurrent(r)' /\ LeavesUnspoiled(r)' /\ SpoiledDormant(r)'
        BY <2>9, <3>3, <4>1 DEF Spoiled, LiveRun
      <4>3. CASE items[i].status = "running"
        <5>1. BackgroundItems(r, ActiveItem)' \subseteq BackgroundItems(r, ActiveItem)
          BY <2>8, <4>3 DEF ActiveItem
        <5> QED BY <1>0, <4>2, <5>1 DEF Segment, OneSegment
      <4>4. CASE items[i].status = "failed"
        <5>1. Spoiled(r, i)
          BY <1>4, <3>3, <4>4 DEF Spoiled, LiveRun
        <5>2. Dormant(r)
          BY <1>0, <1>4, <2>5, <4>1, <5>1 DEF Segment, SpoiledDormant
        <5>3. BackgroundItems(r, ActiveItem) = {}
          BY <3>3, <5>2 DEF Dormant
        <5>4. OneSegment(r)'
          BY <2>7, <5>3 DEF OneSegment
        <5> QED BY <4>2, <5>4 DEF Segment
      <4> QED BY <4>1, <4>3, <4>4
    <3> QED BY <3>1, <3>2, <3>3
  <2>12. CASE ReleaseOrphans(ok)
    <3>1. items' = items /\ run' = run /\ pc[Worker] = "orphans"
      BY <2>12 DEF ReleaseOrphans
    <3>2. Leaving(r)' => Leaving(r)
      BY <1>7, <1>14, <3>1 DEF Leaving
    <3> QED BY <2>3, <3>1, <3>2
  <2>13. CASE Reconcile(ok)
    <3>1. /\ run' = run /\ pc[Worker] = "reconcile"
          /\ items' = items \/ (items' = WithStatus(i, run[r]) /\ items[i].status \in ActiveItem)
      BY <1>14, <2>13 DEF Reconcile
    <3>2. Leaving(r)' => Leaving(r)
      BY <1>7, <1>14, <3>1 DEF Leaving
    <3>3. CASE items' = items
      BY <2>3, <3>1, <3>2, <3>3
    <3>4. CASE items' = WithStatus(i, run[r]) /\ items[i].status \in ActiveItem
      <4>1. run[r] \in RunStatus
        BY <1>0, <1>2, <1>14 DEF TypeInv, ThreadsExist, Exists, StoreTypeOK
      <4>2. items'[i].status = run[r]
        BY <2>6, <3>4, <4>1 DEF ItemStatus
      <4>3. BackgroundItems(r, ActiveItem)' \subseteq BackgroundItems(r, ActiveItem)
        BY <2>8, <3>4
      <4>4. CASE run[r] \in LiveRun
        <5>1. SpoiledCurrent(r)' /\ LeavesUnspoiled(r)' /\ SpoiledDormant(r)'
          BY <2>9, <4>2, <4>4 DEF Spoiled, LiveRun
        <5> QED BY <1>0, <4>3, <5>1 DEF Segment, OneSegment
      <4>5. CASE run[r] \notin LiveRun
        BY <1>0, <3>1, <4>3, <4>5, SegmentOver DEF Segment
      <4> QED BY <4>4, <4>5
    <3> QED BY <3>1, <3>3, <3>4
  <2>14. CASE ConfigurationMissing(ok) \/ Terminalize(ok)
    <3>1. \/ items' = items /\ run' = run /\ pc'[Worker] = "reput"
          \/ run'[r] \notin LiveRun /\ (items' = items \/ items' = WithStatus(i, "failed"))
      BY <1>0, <1>14, <2>1, <2>14 DEF ConfigurationMissing, Terminalize, SetRun, StoreTypeOK, LiveRun
    <3>2. CASE items' = items /\ run' = run /\ pc'[Worker] = "reput"
      BY <2>3, <3>2 DEF Leaving
    <3>3. CASE run'[r] \notin LiveRun /\ (items' = items \/ items' = WithStatus(i, "failed"))
      <4>1. items' = items \/ items'[i].status = "failed"
        BY <2>6, <3>3 DEF ItemStatus, RunStatus, TerminalRun
      <4>2. BackgroundItems(r, ActiveItem)' \subseteq BackgroundItems(r, ActiveItem)
        BY <2>2, <2>8, <4>1, UntouchedItems DEF ActiveItem
      <4> QED BY <1>0, <3>3, <4>2, SegmentOver DEF Segment
    <3> QED BY <3>1, <3>2, <3>3
  <2>15. CASE PutBack /\ phase = "stopping"
    <3>1. items' = items /\ run' = run /\ ~Going
      BY <2>15 DEF PutBack, storeVars, Going
    <3>2. ~Leaving(r)'
      BY <1>7, <3>1 DEF Leaving
    <3> QED BY <2>3, <3>1, <3>2
  <2> QED BY <2>10, <2>11, <2>12, <2>13, <2>14, <2>15 DEF Attends
<1> QED BY <1>13, <1>14

LEMMA WorkerSegments ==
    ASSUME SegInv, NEW ok \in BOOLEAN, WorkerStep(ok), NEW r \in Run \ disturbed
    PROVE  Segment(r)'
<1> SUFFICES ASSUME NEW i, i = op[Worker].item PROVE Segment(r)'
  OBVIOUS
<1>0. /\ TypeInv /\ StoreTypeOK /\ ThreadTypeOK /\ Worker \in Proc /\ Worker \notin Client /\ NameInv
      /\ ItemStages /\ Segment(r) /\ NoRun # r /\ pending \in [Run -> Nat]
  BY RunStoreAssumption DEF SegInv, GoodInv, SegmentInv, NameInv, TokenInv, TypeInv, TypeOK, StageInv, Proc
<1>1. TypeInv' /\ RowsKept
  BY <1>0, WorkerType, WorkerNames
<1>2. \A c \in Client : pc'[c] = pc[c] /\ op'[c] = op[c]
  BY <1>0, WorkerStepOutside DEF Proc
<1>3. \A c \in Client : InRunner(c, r)' => InRunner(c, r)
  BY <1>2 DEF InRunner
<1>4. ASSUME UNCHANGED <<storeVars, phase>>, pc'[Worker] \in Resting \cup {"wake"},
             \A k : Current(r, k)' => Current(r, k) \/ (k \in DOMAIN items /\ items[k].bg /\ items[k].run = r /\ ~Spoiled(r, k)),
             \A k \in DOMAIN items : Going /\ Held(r, k)' => Held(r, k) /\ (Current(r, k) /\ Spoiled(r, k) => Current(r, k)')
      PROVE  Segment(r)'
  <2>1. run'[r] = run[r] /\ Untouched(r) /\ items' = items
    BY <1>4 DEF storeVars, Untouched
  <2>2. (Going' <=> Going) /\ LeavesUnspoiled(r)'
    BY <1>4 DEF Going, LeavesUnspoiled, Leaving, Resting
  <2> QED BY <1>0, <1>1, <1>3, <1>4, <2>1, <2>2, SegmentStays
<1>5. CASE LoopTest
  <2>1. /\ UNCHANGED <<storeVars, phase, queue, pending>> /\ pc[Worker] = "loop" /\ pc'[Worker] \in {"dead", "get"}
    BY <1>0, <1>5 DEF LoopTest, Continue, Goto, memVars, ThreadTypeOK
  <2>2. \A k : (Current(r, k)' <=> Current(r, k)) /\ (Held(r, k)' <=> Held(r, k))
    BY <1>2, <2>1 DEF Current, Waits, Serves, Going, Resting, Held
  <2> QED BY <1>4, <2>1, <2>2 DEF Resting
<1>6. CASE GetWake
  <2>1. /\ UNCHANGED <<storeVars, phase, pending>> /\ pc[Worker] = "get" /\ queue # << >> /\ queue' = Tail(queue)
        /\ \/ Head(queue) = Sentinel /\ pc'[Worker] = "dead"
           \/ /\ pc'[Worker] = "wake" /\ op'[Worker].run = Head(queue).run /\ op'[Worker].item = Head(queue).item
    BY <1>0, <1>6 DEF GetWake, Begin, Continue, Goto, ThreadTypeOK
  <2>2. /\ 1 \in DOMAIN queue /\ Head(queue) = queue[1]
        /\ \A k \in DOMAIN queue' : k + 1 \in DOMAIN queue /\ queue'[k] = queue[k + 1]
        /\ \A k \in DOMAIN queue : k = 1 \/ (k - 1 \in DOMAIN queue' /\ queue'[k - 1] = queue[k])
    BY <1>0, <2>1, TailWake
  <2>3. Going' <=> Going
    BY <2>1 DEF Going
  <2>4. \A k : ~Serves(r, k)
    BY <2>1 DEF Serves, Resting
  <2>5. \A k : Current(r, k)' => Current(r, k)
    <3>1. \A k : Waits(r, k)' => Waits(r, k)
      BY <2>2, <2>3 DEF Waits
    <3>2. \A k : Serves(r, k)' => Waits(r, k)
      BY <2>1, <2>2, <2>3 DEF Serves, Waits, Resting
    <3> QED BY <3>1, <3>2 DEF Current
  <2>6. \A k : Current(r, k) => Current(r, k)'
    <3> SUFFICES ASSUME NEW k, Waits(r, k) PROVE Current(r, k)'
      BY <2>4 DEF Current
    <3>1. PICK n \in DOMAIN queue : queue[n].run = r /\ queue[n].item = k
      BY DEF Waits
    <3>2. CASE n # 1
      <4>1. Waits(r, k)'
        BY <2>2, <2>3, <3>1, <3>2 DEF Waits
      <4> QED BY <4>1 DEF Current
    <3>3. CASE n = 1
      <4>1. pc'[Worker] = "wake" /\ op'[Worker].run = r /\ op'[Worker].item = k
        BY <1>0, <2>1, <2>2, <3>1, <3>3 DEF Sentinel, Wake
      <4> QED BY <2>3, <4>1 DEF Current, Serves, Waits, Resting
    <3> QED BY <3>2, <3>3
  <2>7. \A k : Held(r, k)' => Held(r, k)
    BY <1>2, <2>1 DEF Held
  <2> QED BY <1>4, <2>1, <2>5, <2>6, <2>7 DEF Resting
<1>7. CASE PutBack /\ phase # "stopping"
  <2>1. /\ UNCHANGED <<storeVars, phase, pending>> /\ pc[Worker] = "reput" /\ pc'[Worker] = "loop"
        /\ queue' = Append(queue, Wake(i, op[Worker].run))
    BY <1>0, <1>7 DEF PutBack, ThreadTypeOK
  <2>2. Exists(op[Worker].run) /\ i \in Nat
    BY <1>0, <2>1 DEF TypeInv, ThreadsExist, Resting, ThreadTypeOK
  <2>3. /\ DOMAIN queue' = DOMAIN queue \cup {Len(queue) + 1}
        /\ \A k \in DOMAIN queue : queue'[k] = queue[k]
        /\ queue'[Len(queue) + 1] = Wake(i, op[Worker].run)
    BY <1>0, <2>1, <2>2, AppendWake
  <2>4. Going' <=> Going
    BY <2>1 DEF Going
  <2>5. \A k : ~Serves(r, k)'
    BY <2>1 DEF Serves, Resting
  <2>6. \A k : Current(r, k)' => Current(r, k)
    <3>1. \A k : Waits(r, k)' => Waits(r, k) \/ (op[Worker].run = r /\ i = k)
      BY <2>3, <2>4 DEF Waits, Wake
    <3>2. \A k : op[Worker].run = r /\ i = k => Serves(r, k)
      BY <2>1 DEF Serves, Resting
    <3> QED BY <2>5, <3>1, <3>2 DEF Current
  <2>7. \A k : Going /\ Current(r, k) => Current(r, k)'
    <3>1. \A k : Waits(r, k) => Waits(r, k)'
      BY <2>3, <2>4 DEF Waits
    <3>2. \A k : Going /\ Serves(r, k) => Waits(r, k)'
      BY <2>3, <2>4 DEF Serves, Waits, Wake
    <3> QED BY <3>1, <3>2 DEF Current
  <2>8. \A k : Held(r, k)' => Held(r, k)
    BY <1>2, <2>1 DEF Held
  <2> QED BY <1>4, <2>1, <2>6, <2>7, <2>8 DEF Resting
<1>8. CASE Settle
  <2>1. /\ UNCHANGED <<storeVars, phase>> /\ pc[Worker] = "settle" /\ pc'[Worker] = "loop"
        /\ \/ pending' = pending /\ queue' = queue
           \/ /\ pending[op[Worker].run] # 0
              /\ pending' = [pending EXCEPT ![op[Worker].run] = 0]
              /\ queue' = Append(queue, Wake(pending[op[Worker].run], op[Worker].run))
    BY <1>0, <1>8 DEF Settle, ThreadTypeOK
  <2>2. Exists(op[Worker].run) /\ op[Worker].run \in Run /\ pending[op[Worker].run] \in Nat
    BY <1>0, <2>1 DEF TypeInv, ThreadsExist, Resting, Exists
  <2>3. Going' <=> Going
    BY <2>1 DEF Going
  <2>4. \A k : ~Serves(r, k)'
    BY <2>1 DEF Serves, Resting
  <2>5. Going /\ op[Worker].run = r => ~Spoiled(r, i)
    BY <1>0, <2>1 DEF Segment, LeavesUnspoiled, Leaving
  <2>6. \A k : Serves(r, k) => Going /\ op[Worker].run = r /\ k = i
    BY <2>1 DEF Serves
  <2>7. 0 \notin DOMAIN items
    <3>1. DOMAIN items = 1..Len(items) /\ Len(items) \in Nat
      BY <1>0, LenProperties DEF StoreTypeOK
    <3> QED BY <3>1
  <2>8. \A k \in DOMAIN items : Held(r, k)' => Held(r, k)
    BY <1>0, <1>2, <2>1, <2>2, <2>7 DEF Held
  <2>9. CASE pending' = pending /\ queue' = queue
    <3>1. \A k : Waits(r, k)' <=> Waits(r, k)
      BY <2>3, <2>9 DEF Waits
    <3>2. \A k : Current(r, k)' => Current(r, k)
      BY <2>4, <3>1 DEF Current
    <3>3. \A k : Current(r, k) /\ Spoiled(r, k) => Current(r, k)'
      BY <2>5, <2>6, <3>1 DEF Current
    <3> QED BY <1>4, <2>1, <2>8, <3>2, <3>3 DEF Resting
  <2>10. CASE /\ pending[op[Worker].run] # 0
              /\ pending' = [pending EXCEPT ![op[Worker].run] = 0]
              /\ queue' = Append(queue, Wake(pending[op[Worker].run], op[Worker].run))
    <3>1. /\ DOMAIN queue' = DOMAIN queue \cup {Len(queue) + 1}
          /\ \A k \in DOMAIN queue : queue'[k] = queue[k]
          /\ queue'[Len(queue) + 1] = Wake(pending[op[Worker].run], op[Worker].run)
      BY <1>0, <2>2, <2>10, AppendWake
    <3>2. \A k : Waits(r, k) => Waits(r, k)'
      BY <2>3, <3>1 DEF Waits
    <3>3. \A k : Waits(r, k)' => Waits(r, k) \/ (Going /\ op[Worker].run = r /\ pending[r] = k)
      BY <2>3, <3>1 DEF Waits, Wake
    <3>4. \A k : Current(r, k) /\ Spoiled(r, k) => Current(r, k)'
      BY <2>5, <2>6, <3>2 DEF Current
    <3>5. ASSUME Going, op[Worker].run = r, NEW k, pending[r] = k
          PROVE  k \in DOMAIN items /\ items[k].bg /\ items[k].run = r /\ ~Spoiled(r, k)
      <4>1. Held(r, k) /\ k # 0
        BY <2>10, <3>5 DEF Held
      <4>2. k \in DOMAIN items /\ items[k].bg /\ items[k].run = r
        BY <1>0, <4>1, CurrentNames
      <4>3. Spoiled(r, k) => Current(r, k)
        BY <1>0, <3>5, <4>1, <4>2 DEF Segment, SpoiledCurrent
      <4>4. Current(r, k) => k = i
        BY <1>0, <2>1, <3>5, CurrentAlone DEF Resting
      <4> QED BY <2>5, <3>5, <4>2, <4>3, <4>4
    <3>6. \A k : Current(r, k)' => Current(r, k) \/ (k \in DOMAIN items /\ items[k].bg /\ items[k].run = r /\ ~Spoiled(r, k))
      BY <2>4, <3>3, <3>5 DEF Current
    <3> QED BY <1>4, <2>1, <2>8, <3>4, <3>6 DEF Resting
  <2> QED BY <2>1, <2>9, <2>10
<1> QED BY <1>0, <1>5, <1>6, <1>7, <1>8, AttendsSegments DEF WorkerStep, Attends

\* Recovery only closes segments.
LEMMA RecoveryCloses ==
    ASSUME TokenInv, NEW r \in Run,
           \/ RecoverJobs \/ RecoverRun
           \/ \E x \in Run : ReleaseLocks(x)
           \/ \E i \in DOMAIN items : RecoverItem(i)
    PROVE  BackgroundItems(r, ActiveItem)' \subseteq BackgroundItems(r, ActiveItem)
<1>0. StoreTypeOK /\ items \in Seq(ItemRow) /\ StartupExists /\ fixing \in Run \cup {NoRun}
  BY DEF TokenInv, TypeInv, TypeOK, StoreTypeOK, ItemRow
<1>1. ASSUME items' = items PROVE BackgroundItems(r, ActiveItem)' \subseteq BackgroundItems(r, ActiveItem)
  BY <1>1 DEF BackgroundItems
<1>2. CASE RecoverJobs \/ \E x \in Run : ReleaseLocks(x)
  BY <1>1, <1>2 DEF RecoverJobs, ReleaseLocks
<1>3. ASSUME NEW i \in DOMAIN items, RecoverItem(i)
      PROVE  BackgroundItems(r, ActiveItem)' \subseteq BackgroundItems(r, ActiveItem)
  <2>1. \E s \in ItemStatus \ ActiveItem : items' = WithStatus(i, s)
    BY <1>3 DEF RecoverItem, ItemStatus, RunStatus, ActiveItem, TerminalRun, LiveRun
  <2>2. PICK s \in ItemStatus \ ActiveItem : items' = WithStatus(i, s)
    BY <2>1
  <2>3. /\ DOMAIN items' = DOMAIN items
        /\ \A k \in DOMAIN items :
              /\ items'[k].run = items[k].run
              /\ items'[k].bg = items[k].bg
              /\ items'[k].status = IF k = i THEN s ELSE items[k].status
    BY <1>0, <2>2, WithStatusRow
  <2> QED BY <2>3 DEF BackgroundItems
<1>4. CASE RecoverRun
  <2>1. items' = items \/ items' = Rewritten(fixing, ActiveItem, "cancelled")
    BY <1>4 DEF RecoverRun
  <2>2. CASE items' = Rewritten(fixing, ActiveItem, "cancelled")
    <3>1. "cancelled" \in ItemStatus /\ "cancelled" \notin ActiveItem
      BY DEF ItemStatus, RunStatus, TerminalRun, ActiveItem
    <3>2. /\ DOMAIN items' = DOMAIN items
          /\ \A k \in DOMAIN items :
                /\ items'[k].run = items[k].run
                /\ items'[k].bg = items[k].bg
                /\ items'[k].status = IF items[k].run = fixing /\ items[k].status \in ActiveItem
                                      THEN "cancelled" ELSE items[k].status
      BY <1>0, <2>2, <3>1, RewrittenRow
    <3> QED BY <3>1, <3>2 DEF BackgroundItems
  <2> QED BY <1>1, <2>1, <2>2
<1> QED BY <1>2, <1>3, <1>4

LEMMA LifecycleSegments ==
    ASSUME SegInv, Start \/ Startup \/ Stop \/ Stopped \/ Crash, NEW r \in Run \ disturbed
    PROVE  Segment(r)'
<1>0. /\ TypeInv /\ StoreTypeOK /\ ThreadTypeOK /\ Worker \in Proc /\ Worker \notin Client /\ NameInv /\ Quiet
      /\ ItemStages /\ Segment(r) /\ NoRun # r /\ pending \in [Run -> Nat] /\ TokenInv /\ WakeUpTokens /\ ShapeInv
  BY RunStoreAssumption DEF SegInv, GoodInv, SegmentInv, NameInv, TokenInv, TypeInv, TypeOK, StageInv, Proc
<1>1. TypeInv' /\ RowsKept
  BY <1>0, LifecycleType, LifecycleNames
<1>2. ASSUME \A k : ~Current(r, k)', ~Leaving(r)', \A k \in DOMAIN items' : ~(Going' /\ Held(r, k)'), OneSegment(r)'
      PROVE  Segment(r)'
  BY <1>2 DEF Segment, SpoiledDormant, LeavesUnspoiled, SpoiledCurrent
<1>3. ASSUME ~Going', pc'[Worker] \in Resting,
             BackgroundItems(r, ActiveItem)' \subseteq BackgroundItems(r, ActiveItem)
      PROVE  Segment(r)'
  <2>1. OneSegment(r)'
    BY <1>0, <1>3 DEF Segment, OneSegment
  <2>2. (\A k : ~Current(r, k)') /\ ~Leaving(r)'
    BY <1>3 DEF Current, Waits, Serves, Leaving, Resting
  <2> QED BY <1>2, <1>3, <2>1, <2>2
<1>4. items' = items => BackgroundItems(r, ActiveItem)' \subseteq BackgroundItems(r, ActiveItem)
  BY DEF BackgroundItems
<1>5. CASE Start
  BY <1>0, <1>3, <1>4, <1>5 DEF Start, storeVars, threadVars, Quiet, Going, Resting
<1>6. CASE Stopped
  BY <1>0, <1>3, <1>4, <1>6 DEF Stopped, storeVars, threadVars, Going, Resting
<1>7. CASE Crash
  BY <1>0, <1>3, <1>4, <1>7 DEF Crash, storeVars, Going, Resting
<1>8. CASE RecoverJobs \/ RecoverRun \/ (\E x \in Run : ReleaseLocks(x)) \/ \E i \in DOMAIN items : RecoverItem(i)
  <2>1. phase = "recover" /\ phase' = "recover" /\ pc' = pc
    BY <1>8 DEF RecoverJobs, RecoverRun, ReleaseLocks, RecoverItem, memVars, threadVars
  <2>2. BackgroundItems(r, ActiveItem)' \subseteq BackgroundItems(r, ActiveItem)
    BY <1>0, <1>8, RecoveryCloses
  <2> QED BY <1>0, <1>3, <2>1, <2>2 DEF Quiet, Going, Resting
<1>9. CASE Accept
  <2>1. UNCHANGED <<storeVars, threadVars, queue, pending>> /\ Going /\ Going'
    BY <1>9 DEF Accept, Going
  <2>2. \A k : (Current(r, k)' <=> Current(r, k)) /\ (Held(r, k)' <=> Held(r, k)) /\ (Leaving(r)' <=> Leaving(r))
    BY <2>1 DEF Current, Waits, Serves, Held, Leaving, threadVars
  <2>3. run'[r] = run[r] /\ Untouched(r) /\ items' = items
    BY <2>1 DEF storeVars, Untouched
  <2>4. LeavesUnspoiled(r)'
    BY <1>0, <2>1, <2>2, <2>3, LeavingStays DEF Segment, threadVars
  <2>5. \A c \in Client : InRunner(c, r)' => InRunner(c, r)
    BY <2>1 DEF InRunner, threadVars
  <2> QED BY <1>0, <1>1, <2>1, <2>2, <2>3, <2>4, <2>5, SegmentStays
<1>10. CASE Stop
  <2>1. UNCHANGED <<storeVars, threadVars, pending>> /\ ~Going'
    BY <1>10 DEF Stop, Going
  <2>2. \A k : Current(r, k)' => Current(r, k)
    BY <2>1 DEF Current, Waits, Serves, threadVars
  <2>3. run'[r] = run[r] /\ Untouched(r) /\ items' = items
    BY <2>1 DEF storeVars, Untouched
  <2>4. LeavesUnspoiled(r)'
    BY <2>1 DEF LeavesUnspoiled, Leaving
  <2>5. \A c \in Client : InRunner(c, r)' => InRunner(c, r)
    BY <2>1 DEF InRunner, threadVars
  <2> QED BY <1>0, <1>1, <2>1, <2>2, <2>3, <2>4, <2>5, SegmentStays
<1>11. CASE StartThread
  <2>0. /\ phase = "recover" /\ pc'[Worker] = "loop" /\ UNCHANGED <<storeVars, queue, pending>> /\ op' = op
    BY <1>0, <1>11 DEF StartThread, Continue, Goto, ThreadTypeOK
  <2>1. ~InQueue(r) /\ pending[r] = 0
    BY <1>0, <2>0 DEF Quiet, WakeUpTokens
  <2>2. (\A k : ~Current(r, k)') /\ ~Leaving(r)'
    BY <2>0, <2>1 DEF Current, Waits, Serves, InQueue, Leaving, Resting
  <2>3. 0 \notin DOMAIN items'
    <3>1. DOMAIN items' = 1..Len(items') /\ Len(items') \in Nat
      BY <1>1, LenProperties DEF TypeInv, TypeOK, StoreTypeOK
    <3> QED BY <3>1
  <2>4. \A c \in Client : ~Background(op[c].kind)
    BY <1>0, <2>0 DEF Quiet, ShapeInv, Shape, Placed, Proc, Background
  <2>5. \A k \in DOMAIN items' : ~Held(r, k)'
    BY <2>0, <2>1, <2>3, <2>4 DEF Held
  <2>6. OneSegment(r)'
    BY <1>0, <1>4, <2>0 DEF Segment, OneSegment, storeVars
  <2> QED BY <1>2, <2>2, <2>5, <2>6
<1>12. ASSUME NEW x \in Run, ScheduleRecovered(x) PROVE Segment(r)'
  <2> DEFINE Q == BackgroundItems(x, {"queued"})
             i == IF Q = {} THEN Len(items) + 1 ELSE Latest(Q)
  <2>0. /\ phase = "schedule" /\ UNCHANGED <<phase, run, threadVars, pending>> /\ x \in todo
        /\ items' = IF Q = {} THEN Append(items, NewItem(x, TRUE)) ELSE items
        /\ queue' = Append(queue, Wake(i, x))
    BY <1>12 DEF ScheduleRecovered
  <2>1. /\ i \in DOMAIN items' /\ items'[i].run = x /\ items'[i].bg /\ items'[i].status = "queued" /\ i \in Nat
        /\ i \in Q \/ (Q = {} /\ i \notin DOMAIN items)
    <3>1. items' = IF BackgroundItems(x, {"queued"}) = {} THEN Append(items, NewItem(x, TRUE)) ELSE items
      BY <2>0
    <3>2. /\ i \in DOMAIN items' /\ items'[i].run = x /\ items'[i].bg /\ items'[i].status \in {"queued"} \cup {"queued"}
          /\ i \in Nat
          /\ i \in BackgroundItems(x, {"queued"}) \/ (BackgroundItems(x, {"queued"}) = {} /\ i \notin DOMAIN items)
      BY <1>0, <3>1, EnqueuedItem
    <3> QED BY <3>2
  <2>2. Exists(x)
    BY <1>0, <2>0 DEF TypeInv, StartupExists
  <2> HIDE DEF i
  <2>3. /\ DOMAIN queue' = DOMAIN queue \cup {Len(queue) + 1}
        /\ \A k \in DOMAIN queue : queue'[k] = queue[k]
        /\ queue'[Len(queue) + 1] = Wake(i, x)
    BY <1>0, <2>0, <2>1, <2>2, AppendWake
  <2>4. Going /\ Going'
    BY <2>0 DEF Going
  <2>5. \A k : /\ Current(r, k) => Current(r, k)'
               /\ Current(r, k)' => Current(r, k) \/ (x = r /\ k = i)
    <3>1. \A k : Serves(r, k)' <=> Serves(r, k)
      BY <2>0, <2>4 DEF Serves, threadVars
    <3>2. \A k : Waits(r, k) => Waits(r, k)'
      BY <2>3, <2>4 DEF Waits
    <3>3. \A k : Waits(r, k)' => Waits(r, k) \/ (x = r /\ k = i)
      BY <2>3, <2>4 DEF Waits, Wake
    <3> QED BY <3>1, <3>2, <3>3 DEF Current
  <2>6. (\A k : Held(r, k)' <=> Held(r, k)) /\ (Leaving(r)' <=> Leaving(r))
    BY <2>0, <2>4 DEF Held, Leaving, threadVars
  <2>7. \A k \in DOMAIN items : k \in DOMAIN items' /\ items'[k] = items[k]
    <3>1. items' = items \/ Adds(x, TRUE)
      BY <2>0 DEF Adds
    <3> QED BY <1>0, <3>1, AddsKeep
  <2>8. LeavesUnspoiled(r)'
    BY <1>0, <2>0, <2>6, <2>7, LeavingStays DEF Segment, threadVars
  <2>9. \A c \in Client : InRunner(c, r)' => InRunner(c, r)
    BY <2>0 DEF InRunner, threadVars
  <2>10. CASE Q # {}
    <3>1. Untouched(r) /\ run'[r] = run[r]
      BY <2>0, <2>10 DEF Untouched
    <3>2. \A k : Current(r, k)' => Current(r, k) \/ (k \in DOMAIN items /\ items[k].bg /\ items[k].run = r /\ ~Spoiled(r, k))
      BY <2>0, <2>1, <2>5, <2>10 DEF Spoiled
    <3> QED BY <1>0, <1>1, <2>4, <2>5, <2>6, <2>8, <2>9, <3>1, <3>2, SegmentStays
  <2>11. CASE Q = {} /\ x # r
    <3>1. Untouched(r) /\ run'[r] = run[r]
      <4>1. Adds(x, TRUE)
        BY <2>0, <2>11 DEF Adds
      <4>2. DOMAIN items' = DOMAIN items \cup {Len(items) + 1} /\ items'[Len(items) + 1] = NewItem(x, TRUE)
        BY <1>0, <4>1, AddsKeep
      <4> QED BY <2>0, <2>7, <2>11, <4>2 DEF Untouched, NewItem
    <3> QED BY <1>0, <1>1, <2>4, <2>5, <2>6, <2>8, <2>9, <2>11, <3>1, SegmentStays
  <2>12. CASE Q = {} /\ x = r
    <3>1. Adds(r, TRUE)
      BY <2>0, <2>12 DEF Adds
    <3>2. DOMAIN items' = DOMAIN items \cup {Len(items) + 1} /\ i = Len(items) + 1
      BY <1>0, <2>12, <3>1, AddsKeep DEF i
    <3>3. BackgroundItems(r, ActiveItem) = {}
      BY <2>0, <2>12 DEF SegInv, TodoInv, BackgroundItems
    <3>4. OneSegment(r)'
      <4>1. \A k \in BackgroundItems(r, ActiveItem)' : k = Len(items) + 1
        BY <2>7, <3>2, <3>3 DEF BackgroundItems
      <4> QED BY <4>1 DEF OneSegment
    <3>5. r \notin scheduled
      BY <1>0, <2>0, <2>12 DEF Quiet
    <3>6. \A k : ~Current(r, k)
      BY <1>0, <3>5, CurrentAlone
    <3>7. SpoiledDormant(r)'
      <4>1. \A k : k = i => ~Spoiled(r, k)'
        BY <2>1 DEF Spoiled
      <4> QED BY <2>5, <3>6, <4>1 DEF SpoiledDormant
    <3>8. SpoiledCurrent(r)'
      <4> SUFFICES ASSUME NEW k \in DOMAIN items', Held(r, k)', Spoiled(r, k)' PROVE FALSE
        BY DEF SpoiledCurrent
      <4>1. k # i
        BY <2>1 DEF Spoiled
      <4>2. k \in DOMAIN items /\ Spoiled(r, k)
        BY <2>0, <2>7, <3>2, <4>1 DEF Spoiled
      <4> QED BY <1>0, <2>4, <2>6, <3>6, <4>2 DEF Segment, SpoiledCurrent
    <3> QED BY <2>8, <3>4, <3>7, <3>8 DEF Segment
  <2> QED BY <2>10, <2>11, <2>12
<1> QED BY <1>5, <1>6, <1>7, <1>8, <1>9, <1>10, <1>11, <1>12 DEF Startup

LEMMA TodoStays == ASSUME SegInv, [Next]_vars PROVE TodoInv'
<1>0. /\ TypeInv /\ StoreTypeOK /\ ThreadTypeOK /\ Worker \in Proc /\ NameInv /\ Quiet /\ TokenInv /\ WakeUpTokens
      /\ ItemStages /\ RecoveryInv
  BY DEF SegInv, GoodInv, NameInv, TokenInv, TypeInv, TypeOK, StageInv, Proc
<1> SUFFICES ASSUME phase' = "schedule", NEW r \in todo', NEW m \in BackgroundItems(r, ActiveItem)'
             PROVE  items'[m].status = "queued"
  BY DEF TodoInv
<1>1. m \in DOMAIN items' /\ items'[m].run = r /\ items'[m].status \in ActiveItem /\ items'[m].bg
  BY DEF BackgroundItems
<1>2. ASSUME phase = "schedule", r \in todo, m \in DOMAIN items, items'[m] = items[m] PROVE items'[m].status = "queued"
  BY <1>1, <1>2 DEF SegInv, TodoInv, BackgroundItems
<1>3. ASSUME phase = "schedule", r \in todo PROVE pc[Worker] \in Resting \/ op[Worker].run # r
  BY <1>0, <1>3 DEF Quiet, WakeUpTokens, Handling, Resting, TypeInv, TypeOK
<1>4. ASSUME NEW ok \in BOOLEAN, SectionStep(Worker, ok) \/ WorkerStep(ok) PROVE items'[m].status = "queued"
  <2>1. phase = "schedule" /\ r \in todo
    BY <1>0, <1>4, WorkerKeepsOp, WorkerStepOutside DEF SectionStep, memVars
  <2>2. r \in Run
    BY <1>0, <2>1 DEF TypeInv, TypeOK
  <2>3. CASE items' = items
    BY <1>1, <1>2, <2>1, <2>3
  <2>4. CASE pc[Worker] \notin Resting
    <3>1. Writes(op[Worker].item)
      <4>1. CASE SectionStep(Worker, ok)
        <5>1. (CoordinatorStep(Worker, ok) \/ BodyStep(Worker, ok)) /\ phase' = phase
          BY <4>1 DEF SectionStep, memVars
        <5> QED BY <1>0, <5>1, WorkerSectionItem
      <4> QED BY <1>0, <1>4, <4>1, WorkerWrites
    <3>2. Untouched(r)
      BY <1>0, <1>3, <2>1, <2>2, <2>4, <3>1, OtherRows
    <3> QED BY <1>1, <1>2, <2>1, <3>2 DEF Untouched
  <2>5. CASE pc[Worker] \in Resting
    <3>1. ~SectionStep(Worker, ok)
      <4>1. CoordinatorStep(Worker, ok) \/ BodyStep(Worker, ok) => Moves(Worker)
        BY <1>0, CoordinatorMoves, BodyMoves
      <4> QED BY <2>5, <4>1 DEF SectionStep, Moves, SectionPc, Resting
    <3>2. items' = items
      BY <1>4, <2>5, <3>1 DEF WorkerStep, LoopTest, GetWake, ReadWake, RequeueSegment, ReleaseOrphans, Reconcile,
                  ConfigurationMissing, Terminalize, PutBack, Settle, Resting, storeVars
    <3> QED BY <2>3, <3>2
  <2> QED BY <2>4, <2>5
<1>5. ASSUME NEW c \in Client, NEW ok \in BOOLEAN, SectionStep(c, ok) PROVE FALSE
  <2>1. phase = "schedule" /\ c \in Proc
    BY <1>5 DEF SectionStep, memVars, Proc
  <2>2. Moves(c)
    BY <1>0, <1>5, <2>1, CoordinatorMoves, BodyMoves DEF SectionStep
  <2> QED BY <1>0, <2>1, <2>2 DEF Quiet, Moves, SectionPc
<1>6. ASSUME NEW c \in Client, Request(c) \/ Schedule(c) \/ Put(c) PROVE FALSE
  <2>1. phase' = phase
    BY <1>6 DEF Request, StartRun, JobRequest, BackgroundApproval, Schedule, Put, memVars
  <2> QED BY <1>0, <1>6, <2>1 DEF Quiet, Request, StartRun, JobRequest, BackgroundApproval, Schedule, Put
<1>7. CASE StartThread
  <2>1. /\ phase = "recover" /\ todo = {} /\ fixing = NoRun /\ items' = items /\ run[r] = "queued" /\ r \in Run
    BY <1>7 DEF StartThread, storeVars
  <2>2. Recovered(r)
    BY <1>0, <2>1, RunStoreAssumption DEF RecoveryInv
  <2> QED BY <1>1, <2>1, <2>2 DEF Recovered
<1>8. ASSUME NEW x \in Run, ScheduleRecovered(x) PROVE items'[m].status = "queued"
  <2>1. /\ phase = "schedule" /\ r \in todo /\ r # x /\ (items' = items \/ Adds(x, TRUE))
    BY <1>8 DEF ScheduleRecovered, Adds
  <2>2. CASE Adds(x, TRUE)
    <3>1. /\ DOMAIN items' = DOMAIN items \cup {Len(items) + 1}
          /\ \A k \in DOMAIN items : items'[k] = items[k]
          /\ items'[Len(items) + 1] = NewItem(x, TRUE)
      BY <1>0, <2>2, AddsKeep
    <3> QED BY <1>1, <1>2, <2>1, <3>1 DEF NewItem
  <2> QED BY <1>1, <1>2, <2>1, <2>2
<1>9. ~Start /\ ~Stop /\ ~Stopped /\ ~Crash /\ ~Accept
  BY DEF Start, Stop, Stopped, Crash, Accept
<1>10. ~RecoverJobs /\ ~RecoverRun /\ ~(\E x \in Run : ReleaseLocks(x)) /\ ~\E i \in DOMAIN items : RecoverItem(i)
  BY DEF RecoverJobs, RecoverRun, ReleaseLocks, RecoverItem, memVars
<1>11. CASE UNCHANGED vars
  <2>1. items' = items /\ phase' = phase /\ todo' = todo
    BY <1>11 DEF vars, storeVars, memVars
  <2> QED BY <1>1, <1>2, <2>1
<1> QED BY <1>4, <1>5, <1>6, <1>7, <1>8, <1>9, <1>10, <1>11 DEF Next, Startup, Proc

LEMMA SegmentsStutter == ASSUME SegInv, UNCHANGED vars, NEW r \in Run \ disturbed PROVE Segment(r)'
<1>1. Segment(r)
  BY DEF SegInv, SegmentInv
<1>2. UNCHANGED <<run, items, pc, op, exc, phase, queue, pending>>
  BY DEF vars, storeVars, threadVars, memVars
<1>3. /\ Dormant(r)' <=> Dormant(r)
      /\ \A k : (Current(r, k)' <=> Current(r, k)) /\ (Held(r, k)' <=> Held(r, k)) /\ (Spoiled(r, k)' <=> Spoiled(r, k))
  BY <1>2 DEF Dormant, InRunner, BackgroundItems, Current, Waits, Serves, Going, Held, Spoiled
<1>4. OneSegment(r)'
  BY <1>1, <1>2 DEF Segment, OneSegment, BackgroundItems
<1>5. LeavesUnspoiled(r)'
  BY <1>1, <1>2 DEF Segment, LeavesUnspoiled, Leaving, Going, Spoiled
<1>6. SpoiledDormant(r)' /\ SpoiledCurrent(r)'
  BY <1>1, <1>2, <1>3 DEF Segment, SpoiledDormant, SpoiledCurrent, Going
<1> QED BY <1>4, <1>5, <1>6 DEF Segment

LEMMA SegmentsInductive == SegInv /\ [Next]_vars => SegInv'
<1> SUFFICES ASSUME SegInv, [Next]_vars PROVE SegInv'
  OBVIOUS
<1>1. GoodInv' /\ StageInv' /\ TodoInv' /\ RecoveryInv'
  BY GoodInductive, StagesInductive, TodoStays, RecoveryInductive DEF SegInv, GoodInv, NameInv
<1>2. disturbed \subseteq disturbed'
  BY StepRows DEF SegInv, GoodInv
<1>3. ASSUME NEW r \in Run \ disturbed' PROVE Segment(r)'
  <2>1. r \in Run \ disturbed
    BY <1>2, <1>3
  <2>2. CASE Next
    <3>1. ASSUME NEW p \in Proc, NEW ok \in BOOLEAN, SectionStep(p, ok) PROVE Segment(r)'
      <4>1. p \in Client \/ p = Worker
        BY DEF Proc
      <4> QED BY <2>1, <3>1, <4>1, ClientSectionSegments, WorkerSectionSegments
    <3>2. ASSUME NEW ok \in BOOLEAN, WorkerStep(ok) PROVE Segment(r)'
      BY <2>1, <3>2, WorkerSegments
    <3>3. ASSUME NEW c \in Client, Request(c) \/ Schedule(c) \/ Put(c) PROVE Segment(r)'
      BY <2>1, <3>3, ClientSegments
    <3>4. ASSUME Start \/ Startup \/ Stop \/ Stopped \/ Crash PROVE Segment(r)'
      BY <2>1, <3>4, LifecycleSegments
    <3> QED BY <2>2, <3>1, <3>2, <3>3, <3>4 DEF Next
  <2>3. CASE UNCHANGED vars
    BY <2>1, <2>3, SegmentsStutter
  <2> QED BY <2>2, <2>3
<1> QED BY <1>1, <1>3 DEF SegInv, SegmentInv

LEMMA InitSegments == Init => SegInv
<1> SUFFICES ASSUME Init PROVE SegInv
  OBVIOUS
<1>1. WriteInv /\ ShapeInv /\ NamesInv /\ ExistInv /\ FreshInv
  BY InitWrite, InitNames, InitFresh
<1>2. GoodInv
  BY <1>1 DEF GoodInv, NameInv, WriteInv
<1>3. phase = "down" /\ fixing = NoRun /\ items = << >> /\ pc[Worker] = "dead" /\ \A c \in Client : pc[c] = "idle"
  BY RunStoreAssumption DEF Init, Proc
<1>4. RecoveryInv /\ TodoInv /\ ItemStages /\ HoldInv /\ ResumeInv /\ ActivateInv
  BY <1>3 DEF RecoveryInv, TodoInv, ItemStages, HoldInv, ResumeInv, ActivateInv
<1>5. DOMAIN items = {}
  BY <1>3
<1>6. SegmentInv
  BY <1>3, <1>5 DEF SegmentInv, Segment, OneSegment, BackgroundItems, SpoiledDormant, SpoiledCurrent, LeavesUnspoiled,
     Leaving, Going
<1> QED BY <1>2, <1>4, <1>6 DEF SegInv, StageInv

\* A run never has two active background segments, whatever fails, crashes or
\* is retried, unless the worker wrote its row or broke its lock under the
\* thread that was using it.
THEOREM SegmentIsUnique == Spec => []OneActiveSegment
<1>1. SegInv => OneActiveSegment
  <2> SUFFICES ASSUME SegInv, NEW r \in Run \ disturbed PROVE Cardinality(BackgroundItems(r, ActiveItem)) <= 1
    BY DEF OneActiveSegment
  <2>1. \A i, m \in BackgroundItems(r, ActiveItem) : i = m
    BY DEF SegInv, SegmentInv, Segment, OneSegment
  <2>2. CASE BackgroundItems(r, ActiveItem) = {}
    BY <2>2, FS_EmptySet
  <2>3. CASE BackgroundItems(r, ActiveItem) # {}
    <3>1. PICK i : i \in BackgroundItems(r, ActiveItem)
      BY <2>3
    <3>2. BackgroundItems(r, ActiveItem) = {i}
      BY <2>1, <3>1
    <3>3. Cardinality({i}) = 1
      BY FS_Singleton
    <3> QED BY <3>2, <3>3
  <2> QED BY <2>2, <2>3
<1> QED BY <1>1, InitSegments, SegmentsInductive, PTL DEF Spec
=============================================================================
