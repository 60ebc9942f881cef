---------------------------- MODULE LineageProofs ----------------------------
(***************************************************************************)
(* What the checkpoints of a run say about each other, for every pack: one *)
(* attempt counts for each step, it consumed the attempts that count, and  *)
(* the quality report finds the evidence it looks for.                     *)
(***************************************************************************)
EXTENDS WorkflowRunnerProofs, FiniteSetTheorems

----------------------------------------------------------------------------
(* The branches of a batch.                                                *)

\* A branch that never ran stands behind one that failed.
CancelledBehind ==
    \A i \in DOMAIN branch : branch[i] = "cancelled" => \E k \in 1..(i - 1) : branch[k] = "error"

\* The branches are submitted in order, and while nothing failed there is one at
\* work whose result lets the collector submit the next.
Dispatch ==
    /\ \A i, k \in DOMAIN branch : branch[i] = "new" /\ i < k => branch[k] = "new"
    /\ \A i \in seen : branch[i] \in {"ok", "error"}
    /\ (Errors(seen) = {} /\ \E i \in DOMAIN branch : branch[i] = "new") =>
          \E i \in DOMAIN branch \ seen : branch[i] \notin {"new", "cancelled"}

BranchInv ==
    /\ pc \in {"prepare", "record"} => seen = {}
    /\ pc = "execute" => CancelledBehind /\ Dispatch
    /\ pc \in {"commit", "handoffs", "checkpoint"} => CancelledBehind

----------------------------------------------------------------------------
(* The checkpoints and what they consumed.                                 *)

\* The locations at which agent_runs_by_step is loaded.
Working == {"loop", "prepare", "record", "execute", "commit", "handoffs", "checkpoint",
            "complete"}

OneCheckpoint == \A s \in Step : \A a, b \in Completed(s) : a = b

\* A completed attempt consumed attempts of the steps it depends on.
Consumed ==
    \A s \in Step : \A a \in Completed(s) : \A d \in DependsOn[s] :
        attempts[a].from[d] \in Attempts(d)

\* agent_runs_by_step is the table of the checkpoints ...
Tracks ==
    \A s \in Step : Completed(s) = IF done[s] = 0 THEN {} ELSE {done[s]}

\* ... and each of them consumed the others.
Linked ==
    \A s \in Step : done[s] # 0 =>
        \A d \in DependsOn[s] : done[d] # 0 /\ attempts[done[s]].from[d] = done[d]

\* What is prepared is not done, and what it needs is.
Pending(s) == done[s] = 0 /\ \A d \in DependsOn[s] : done[d] # 0

Uncommitted(i) == pc \in {"prepare", "record", "execute"} \/ i >= pos

\* Member i of the batch consumes what counts.
UpToDate(i) ==
    /\ Pending(attempts[batch[i]].step)
    /\ \A d \in DependsOn[attempts[batch[i]].step] : attempts[batch[i]].from[d] = done[d]

BatchLineage ==
    /\ pc \in {"prepare", "record"} => \A s \in todo : Pending(s)
    /\ \A i, k \in DOMAIN batch : attempts[batch[i]].step = attempts[batch[k]].step => i = k
    /\ \A i \in DOMAIN batch : Uncommitted(i) => UpToDate(i)

\* The checkpoints of the steps before pos that recovery has examined.
Examined ==
    \A k \in DOMAIN Order : k < pos =>
        \A a \in Completed(Order[k]) : \A d \in DependsOn[Order[k]] :
            attempts[a].from[d] \in Completed(d)

AllDone == \A s \in Step : done[s] # 0

LineageInv ==
    /\ EvidenceInv
    /\ OneCheckpoint
    /\ Consumed
    /\ pc \in Working => Tracks /\ Linked
    /\ pc \in Batching => BatchLineage
    /\ pc = "invalidate" => Examined
    /\ pc = "complete" => AllDone
    /\ ConsistentLineage

----------------------------------------------------------------------------
(* The pack evaluation.                                                    *)

\* The pack has one step that nothing depends on, the last in plan order ...
SingleSink == \A k \in 1..(Len(Order) - 1) : Dependents(Order[k]) # {}

\* The Pack that recovery finds declares the steps as the frozen plan does.
Unedited == \A e \in Editions : \A k \in DOMAIN e.order : e.order[k] \in Step => Agrees(e, e.order[k])

\* ... or it declares no dependencies and is executed step by step; then every
\* step has an artifact, nobody damages it and nobody edits the Pack.
FlatIntact == ~Explicit /\ Bare = {} /\ MaxDamage = 0 /\ Unedited

Sink == Order[Len(Order)]

Undamaged == \A a \in DOMAIN attempts : ~attempts[a].damaged

\* The checkpoints of a flat pack are those of its first steps ...
InSequence ==
    \A k \in 2..Len(Order) : Completed(Order[k]) # {} => Completed(Order[k - 1]) # {}

\* ... because a step is executed with the handoff of the one before it.
PredecessorDone(s) == \A k \in 2..Len(Order) : Order[k] = s => done[Order[k - 1]] # 0

FlatInv ==
    /\ Undamaged
    /\ InSequence
    /\ pc \in Batching => \A i \in DOMAIN batch :
          Uncommitted(i) => PredecessorDone(attempts[batch[i]].step)

EvalInv ==
    /\ \A i \in DOMAIN packEvals : /\ attempts[packEvals[i]].step = Sink
                                   /\ attempts[packEvals[i]].status \notin OpenAttempt
    /\ \A i, k \in DOMAIN packEvals : packEvals[i] = packEvals[k] => i = k
    /\ PackEvalOnce

\* The pack evaluation of attempt a is recorded, once, and does not block.
Released(a) == a \notin PackBlocks /\ \E i \in DOMAIN packEvals : Bound(a) = {i}

SinkInv ==
    /\ LineageInv
    /\ FlatIntact => FlatInv
    /\ EvalInv
    /\ pc \in Working /\ AllDone => last = done[Sink]
    /\ pc = "complete" => Released(last)
    /\ run = "completed" => \A a \in Completed(Sink) : Released(a)

----------------------------------------------------------------------------
(* What a step does to the rows and to the location.                       *)

\* The checkpoints stay what they are, and nothing closed is opened.
SameCheckpoints ==
    /\ DOMAIN attempts \subseteq DOMAIN attempts'
    /\ \A a \in DOMAIN attempts :
          /\ attempts'[a].step = attempts[a].step
          /\ attempts'[a].status = "completed" <=> attempts[a].status = "completed"
          /\ attempts[a].status = "completed" => attempts'[a].from = attempts[a].from
          /\ attempts[a].status \notin OpenAttempt => attempts'[a].status \notin OpenAttempt
    /\ \A a \in DOMAIN attempts' \ DOMAIN attempts : attempts'[a].status # "completed"

SameInputs == \A a \in DOMAIN attempts : attempts'[a].from = attempts[a].from

LEMMA CloseAsInputs ==
    ASSUME NEW x \in Attempt, NEW s \in {"failed", "cancelled"}
    PROVE  CloseAs(x, s).from = x.from
BY DEF CloseAs, Attempt

LEMMA RowsClosed ==
    ASSUME TypeInv, DOMAIN attempts' = DOMAIN attempts,
           \A b \in DOMAIN attempts :
              \/ attempts'[b] = attempts[b]
              \/ \E s \in {"failed", "cancelled"} : attempts'[b] = CloseAs(attempts[b], s)
    PROVE  SameCheckpoints /\ SameInputs
<1>1. \A b \in DOMAIN attempts : attempts[b] \in Attempt
  BY DEF TypeInv, TypeOK
<1> SUFFICES ASSUME NEW b \in DOMAIN attempts
             PROVE  /\ attempts'[b].step = attempts[b].step
                    /\ attempts'[b].status = "completed" <=> attempts[b].status = "completed"
                    /\ attempts'[b].from = attempts[b].from
                    /\ attempts[b].status \notin OpenAttempt =>
                          attempts'[b].status \notin OpenAttempt
  BY DEF SameCheckpoints, SameInputs
<1>2. CASE attempts'[b] = attempts[b]
  BY <1>2
<1>3. ASSUME NEW s \in {"failed", "cancelled"}, attempts'[b] = CloseAs(attempts[b], s)
      PROVE  /\ attempts'[b].step = attempts[b].step
             /\ attempts'[b].status = "completed" <=> attempts[b].status = "completed"
             /\ attempts'[b].from = attempts[b].from
             /\ attempts[b].status \notin OpenAttempt =>
                   attempts'[b].status \notin OpenAttempt
  BY <1>1, <1>3, CloseAsFields, CloseAsInputs DEF OpenAttempt
<1> QED BY <1>2, <1>3

LEMMA RowReplaced ==
    ASSUME TypeInv, NEW a \in DOMAIN attempts, NEW x,
           attempts' = [attempts EXCEPT ![a] = x],
           x.step = attempts[a].step, x.status = attempts[a].status, x.from = attempts[a].from
    PROVE  SameCheckpoints /\ SameInputs
<1>1. DOMAIN attempts' = DOMAIN attempts
      /\ \A b \in DOMAIN attempts : attempts'[b] = IF b = a THEN x ELSE attempts[b]
  BY DEF TypeInv, TypeOK
<1> QED BY <1>1 DEF SameCheckpoints, SameInputs

\* Only the invalidation of checkpoints and the checkpoint itself change what
\* counts, and only the preparation changes what an attempt consumes.
LEMMA Rows ==
    ASSUME TypeInv, [Next]_vars
    PROVE  Invalidate \/ Checkpoint \/ PrepareStep \/ (SameCheckpoints /\ SameInputs)
<1> DEFINE Kept == SameCheckpoints /\ SameInputs
<1> USE DEF durableVars, localVars
<1>a. attempts \in Seq(Attempt) /\ Len(attempts) \in Nat /\ DOMAIN attempts = 1..Len(attempts)
  BY LenProperties DEF TypeInv, TypeOK
<1>b. \A a \in DOMAIN attempts : attempts[a] \in Attempt
  BY <1>a
<1>c. \A i \in DOMAIN batch : batch[i] \in DOMAIN attempts
  BY DEF TypeInv, TypeOK
<1>1. ASSUME UNCHANGED attempts PROVE Kept
  BY <1>1 DEF SameCheckpoints, SameInputs
<1>2. CASE Reclose \/ CloseRun \/ CompleteRun
  <2>1. DOMAIN attempts' = DOMAIN attempts
        /\ \A b \in DOMAIN attempts : attempts'[b] = CloseAs(attempts[b], "cancelled")
    BY <1>2 DEF Reclose, CloseRun, CompleteRun, AllClosed
  <2> QED BY <2>1, RowsClosed
<1>3. CASE AbortBatch \/ FailRun
  <2>1. DOMAIN attempts' = DOMAIN attempts
        /\ \A b \in DOMAIN attempts :
              \/ attempts'[b] = attempts[b]
              \/ \E s \in {"failed", "cancelled"} : attempts'[b] = CloseAs(attempts[b], s)
    BY <1>3, <1>a DEF AbortBatch, FailRun
  <2> QED BY <2>1, RowsClosed
<1>4. ASSUME NEW a \in DOMAIN attempts, Approve(a) \/ Damage(a) PROVE Kept
  <2>1. CASE Approve(a)
    <3> DEFINE x == [attempts[a] EXCEPT !.job = "approved"]
    <3>1. attempts' = [attempts EXCEPT ![a] = x]
      BY <2>1 DEF Approve
    <3>2. x.step = attempts[a].step /\ x.status = attempts[a].status /\ x.from = attempts[a].from
      BY <1>b DEF Attempt
    <3> HIDE DEF x
    <3> QED BY <3>1, <3>2, RowReplaced
  <2>2. CASE Damage(a)
    <3> DEFINE x == [attempts[a] EXCEPT !.damaged = TRUE]
    <3>1. attempts' = [attempts EXCEPT ![a] = x]
      BY <2>2 DEF Damage
    <3>2. x.step = attempts[a].step /\ x.status = attempts[a].status /\ x.from = attempts[a].from
      BY <1>b DEF Attempt
    <3> HIDE DEF x
    <3> QED BY <3>1, <3>2, RowReplaced
  <2> QED BY <1>4, <2>1, <2>2
<1>5. CASE RecordRuntimeState
  <2> DEFINE a == Len(attempts)
             x == [attempts[a] EXCEPT !.job = "required"]
  <2>1. a \in DOMAIN attempts
    BY <1>5, <1>a DEF RecordRuntimeState, TypeInv, References
  <2>2. attempts' = [attempts EXCEPT ![a] = x]
    BY <1>5 DEF RecordRuntimeState
  <2>3. x.step = attempts[a].step /\ x.status = attempts[a].status /\ x.from = attempts[a].from
    BY <1>b, <2>1 DEF Attempt
  <2> HIDE DEF x, a
  <2> QED BY <2>1, <2>2, <2>3, RowReplaced
<1>6. CASE WriteHandoff \/ CompleteJob
  <2>1. Current \in DOMAIN attempts
    BY <1>6, <1>c DEF WriteHandoff, CompleteJob, Current, TypeInv, References
  <2>2. CASE WriteHandoff
    <3> DEFINE x == [attempts[Current] EXCEPT !.handoffs[First(todo)] = @ + 1]
    <3>1. attempts' = [attempts EXCEPT ![Current] = x]
      BY <2>2 DEF WriteHandoff
    <3>2. /\ x.step = attempts[Current].step /\ x.status = attempts[Current].status
          /\ x.from = attempts[Current].from
      BY <1>b, <2>1 DEF Attempt
    <3> HIDE DEF x
    <3> QED BY <2>1, <3>1, <3>2, RowReplaced
  <2>3. CASE CompleteJob
    <3> DEFINE x == [attempts[Current] EXCEPT !.job = IF @ = "approved" THEN "completed" ELSE @]
    <3>1. attempts' = [attempts EXCEPT ![Current] = x]
      BY <2>3 DEF CompleteJob
    <3>2. /\ x.step = attempts[Current].step /\ x.status = attempts[Current].status
          /\ x.from = attempts[Current].from
      BY <1>b, <2>1 DEF Attempt
    <3> HIDE DEF x
    <3> QED BY <2>1, <3>1, <3>2, RowReplaced
  <2> QED BY <1>6, <2>2, <2>3
<1>7. CASE CommitEvidence
  <2> DEFINE s == attempts[Current].step
             x == [attempts[Current] EXCEPT !.evals = IF s \in Bare THEN @ ELSE @ + 1]
  <2>1. Current \in DOMAIN attempts
    BY <1>7, <1>c DEF CommitEvidence, Current, TypeInv, TypeOK
  <2>2. attempts' = [attempts EXCEPT ![Current] = x] \/ attempts' = attempts
    BY <1>7 DEF CommitEvidence
  <2>3. /\ x.step = attempts[Current].step /\ x.status = attempts[Current].status
        /\ x.from = attempts[Current].from
    BY <1>b, <2>1 DEF Attempt
  <2> HIDE DEF x
  <2> QED BY <1>1, <2>1, <2>2, <2>3, RowReplaced
<1>8. CASE StartAttempt
  <2> DEFINE x == NewAttempt(First(todo))
             n == Len(attempts) + 1
  <2>1. x.status # "completed"
    BY DEF NewAttempt
  <2>2. attempts' = Append(attempts, x)
    BY <1>8 DEF StartAttempt
  <2> HIDE DEF x
  <2>3. DOMAIN attempts' = DOMAIN attempts \cup {n}
    BY <1>a, <2>2
  <2>4. attempts'[n] = x /\ \A b \in DOMAIN attempts : attempts'[b] = attempts[b]
    BY <1>a, <2>2
  <2> QED BY <2>1, <2>3, <2>4 DEF SameCheckpoints, SameInputs
<1>9. CASE Begin \/ Requeue \/ Interrupt \/ LoadState \/ PickReady \/ PrepareFails \/ WaitRun
           \/ SubmitBatch \/ BatchEnds \/ BatchFailed \/ BatchCommitted \/ EvaluatePack
  BY <1>9, <1>1 DEF Begin, Requeue, Interrupt, LoadState, PickReady, PrepareFails, WaitRun,
       SubmitBatch, BatchEnds, BatchFailed, BatchCommitted, EvaluatePack
<1>10. ASSUME NEW i, BranchStarts(i) \/ BranchEnds(i) \/ CollectError(i) \/ CollectOk(i)
       PROVE  Kept
  BY <1>10, <1>1 DEF BranchStarts, BranchEnds, SetBranch, CollectError, CollectOk
<1>11. CASE UNCHANGED vars
  BY <1>11, <1>1 DEF vars
<1> HIDE DEF Kept
<1> QED BY <1>2, <1>3, <1>4, <1>5, <1>6, <1>7, <1>8, <1>9, <1>10, <1>11 DEF Next, RunnerStep, Kept

\* How a step that is none of these three moves.
Moves ==
    /\ pc' \in Working => LoadState \/ (pc \in Working /\ UNCHANGED <<done, last>>)
    /\ pc' \in Batching =>
          \/ PickReady
          \/ /\ pc \in Batching
             /\ UNCHANGED <<batch, done>>
             /\ pc' \in {"prepare", "record"} => pc \in {"prepare", "record"} /\ todo' = todo
             /\ \A i : Uncommitted(i)' => Uncommitted(i)
    /\ pc' = "invalidate" => pos' = 1 \/ (pc = "invalidate" /\ pos' = pos)
    /\ pc' = "complete" => EvaluatePack \/ (pc = "complete" /\ UNCHANGED <<done, last, packEvals>>)
    /\ run' = "completed" => CompleteRun \/ (run = "completed" /\ UNCHANGED <<final, packEvals>>)
    /\ EvaluatePack \/ UNCHANGED packEvals

LEMMA Control ==
    ASSUME RunningWhileWorking, [Next]_vars
    PROVE  Invalidate \/ Checkpoint \/ PrepareStep \/ Moves
<1> USE DEF RunningWhileWorking, durableVars, localVars, Moves, Working, Batching, Uncommitted
<1>1. CASE Begin \/ Requeue \/ Reclose \/ Interrupt \/ WaitRun \/ CloseRun \/ CompleteRun
  BY <1>1 DEF Begin, Requeue, Reclose, Interrupt, WaitRun, CloseRun, CompleteRun, Fresh, Enter
<1>2. ASSUME NEW a, Approve(a) \/ Damage(a) PROVE Moves
  BY <1>2 DEF Approve, Damage
<1>3. CASE LoadState \/ PickReady \/ StartAttempt \/ RecordRuntimeState
           \/ PrepareFails \/ SubmitBatch \/ BatchEnds
  BY <1>3 DEF LoadState, PickReady, StartAttempt, RecordRuntimeState,
              PrepareFails, SubmitBatch, BatchEnds, Fail
<1>4. ASSUME NEW i, BranchStarts(i) \/ BranchEnds(i) \/ CollectError(i) \/ CollectOk(i)
      PROVE Moves
  BY <1>4 DEF BranchStarts, BranchEnds, CollectError, CollectOk, SetBranch
<1>5. CASE CommitEvidence \/ BatchFailed \/ WriteHandoff \/ CompleteJob
           \/ BatchCommitted \/ AbortBatch \/ FailRun
  BY <1>5 DEF CommitEvidence, BatchFailed, WriteHandoff, CompleteJob,
              BatchCommitted, AbortBatch, FailRun, Fail
<1>6. CASE EvaluatePack
  BY <1>6 DEF EvaluatePack, Fail
<1>7. CASE UNCHANGED vars
  BY <1>7 DEF vars
<1> HIDE DEF Moves
<1> QED BY <1>1, <1>2, <1>3, <1>4, <1>5, <1>6, <1>7 DEF Next, RunnerStep

----------------------------------------------------------------------------
(* The lineage of the checkpoints.                                         *)

\* Rows that stay checkpoints keep everything said about them.
LEMMA KeptCheckpoints ==
    ASSUME SameCheckpoints
    PROVE  /\ \A s \in Step : Completed(s)' = Completed(s) /\ Attempts(s) \subseteq Attempts(s)'
           /\ \A s \in Step : \A a \in Completed(s) : attempts'[a].from = attempts[a].from
           /\ OneCheckpoint => OneCheckpoint'
           /\ Consumed => Consumed'
<1>1. \A s \in Step : Completed(s)' = Completed(s) /\ Attempts(s) \subseteq Attempts(s)'
  BY DEF SameCheckpoints, Completed, Attempts
<1>2. \A s \in Step : \A a \in Completed(s) : attempts'[a].from = attempts[a].from
  BY DEF SameCheckpoints, Completed, Attempts
<1>3. OneCheckpoint => OneCheckpoint'
  BY <1>1 DEF OneCheckpoint
<1>4. Consumed => Consumed'
  <2>1. \A s \in Step : DependsOn[s] \subseteq Step
    BY WorkflowRunnerAssumption
  <2> QED BY <1>1, <1>2, <2>1 DEF Consumed
<1> QED BY <1>1, <1>2, <1>3, <1>4

LEMMA LineageInit == Init => LineageInv
<1> SUFFICES ASSUME Init PROVE LineageInv
  OBVIOUS
<1>1. EvidenceInv
  BY EvidenceInit
<1>2. \A s \in Step : Completed(s) = {}
  BY DEF Init, Completed, Attempts
<1> QED BY <1>1, <1>2 DEF Init, LineageInv, OneCheckpoint, Consumed, Working, Batching,
                          ConsistentLineage

\* A step that keeps the checkpoints and their inputs.
LEMMA LineageMoves ==
    ASSUME LineageInv, EvidenceInv', SameCheckpoints, SameInputs, Moves
    PROVE  LineageInv'
<1>a. TypeInv /\ TypeInv' /\ RunningWhileWorking
  BY DEF LineageInv, EvidenceInv
<1>b. attempts \in Seq(Attempt) /\ Len(attempts) \in Nat /\ DOMAIN attempts = 1..Len(attempts)
  BY <1>a, LenProperties DEF TypeInv, TypeOK
<1>c. /\ \A s \in Step : Completed(s)' = Completed(s) /\ Attempts(s) \subseteq Attempts(s)'
      /\ \A s \in Step : \A a \in Completed(s) : attempts'[a].from = attempts[a].from
      /\ OneCheckpoint' /\ Consumed'
  BY KeptCheckpoints DEF LineageInv
<1>d. \A s \in Step : Latest(Completed(s)) \in Completed(s) \cup {0}
                       /\ (Completed(s) # {} => Latest(Completed(s)) \in Completed(s))
  <2>1. \A s \in Step : Completed(s) \in SUBSET (1..Len(attempts))
    BY <1>b DEF Completed, Attempts
  <2> QED BY <1>b, <2>1, LatestIsMember
<1>1. pc' \in Working => Tracks' /\ Linked'
  <2>1. CASE pc \in Working /\ UNCHANGED <<done, last>>
    <3>1. Tracks /\ Linked
      BY <2>1 DEF LineageInv
    <3>2. Tracks'
      BY <1>c, <2>1, <3>1 DEF Tracks
    <3>3. Linked'
      BY <1>c, <2>1, <3>1 DEF Tracks, Linked
    <3> QED BY <3>2, <3>3
  <2>2. CASE LoadState
    <3>1. /\ pc = "invalidate" /\ pos > Len(Order)
          /\ done' = [s \in Step |-> Latest(Completed(s))]
      BY <2>2 DEF LoadState
    <3>2. \A s \in Step : Completed(s) = IF done'[s] = 0 THEN {} ELSE {done'[s]}
      <4>1. 0 \notin DOMAIN attempts
        BY <1>b
      <4> QED BY <1>d, <3>1, <4>1 DEF LineageInv, OneCheckpoint, Completed, Attempts
    <3>3. Tracks'
      BY <1>c, <3>2 DEF Tracks
    <3>4. ASSUME NEW s \in Step, done'[s] # 0, NEW d \in DependsOn[s]
          PROVE  done'[d] # 0 /\ attempts'[done'[s]].from[d] = done'[d]
      <4>1. d \in Step
        BY WorkflowRunnerAssumption
      <4>2. done'[s] \in Completed(s)
        BY <3>2, <3>4
      <4>3. PICK k \in DOMAIN Order : Order[k] = s
        BY WorkflowRunnerAssumption
      <4>4. k < pos
        <5>1. k <= Len(Order) /\ k \in Nat /\ Len(Order) \in Nat
          BY WorkflowRunnerAssumption
        <5> QED BY <1>a, <3>1, <5>1 DEF TypeInv, TypeOK
      <4>5. attempts[done'[s]].from[d] \in Completed(d)
        BY <3>1, <4>2, <4>3, <4>4 DEF LineageInv, Examined
      <4> QED BY <1>c, <3>2, <4>1, <4>2, <4>5
    <3> QED BY <3>3, <3>4 DEF Linked
  <2> QED BY <2>1, <2>2 DEF Moves
<1>2. pc' \in Batching => BatchLineage'
  <2>1. CASE PickReady
    <3>1. batch' = << >> /\ todo' \subseteq Ready /\ UNCHANGED done
      <4>1. Ready # {} /\ Ready \subseteq Step
        BY <2>1, SomeReady DEF PickReady
      <4>2. First(Ready) \in Ready
        BY <4>1, FirstIsMember
      <4> QED BY <2>1, <4>2 DEF PickReady, durableVars
    <3>2. \A s \in Ready : Pending(s)
      <4>1. CASE Explicit
        BY <4>1 DEF Ready, Pending, Incomplete
      <4>2. CASE ~Explicit
        <5> DEFINE S == {s \in Step : Incomplete(s)}
        <5>1. S \in SUBSET Step /\ S # {}
          BY <2>1 DEF PickReady
        <5>2. First(S) \in S
          BY <5>1, FirstIsMember
        <5>3. Ready = {First(S)}
          BY <4>2 DEF Ready
        <5> QED BY <4>2, <5>2, <5>3 DEF Pending, Incomplete, Explicit
      <4> QED BY <4>1, <4>2
    <3>3. \A s \in todo' : Pending(s)'
      BY <3>1, <3>2 DEF Pending
    <3> QED BY <3>1, <3>3 DEF BatchLineage
  <2>2. CASE /\ pc \in Batching
             /\ UNCHANGED <<batch, done>>
             /\ pc' \in {"prepare", "record"} => pc \in {"prepare", "record"} /\ todo' = todo
             /\ \A i : Uncommitted(i)' => Uncommitted(i)
    <3>1. BatchLineage
      BY <2>2 DEF LineageInv
    <3>2. \A i \in DOMAIN batch : /\ batch[i] \in DOMAIN attempts
                                  /\ attempts'[batch[i]].step = attempts[batch[i]].step
                                  /\ attempts'[batch[i]].from = attempts[batch[i]].from
      BY <1>a DEF SameCheckpoints, SameInputs, TypeInv, TypeOK
    <3>3. \A s : Pending(s)' <=> Pending(s)
      BY <2>2 DEF Pending
    <3>4. pc' \in {"prepare", "record"} => \A s \in todo' : Pending(s)'
      BY <2>2, <3>1, <3>3 DEF BatchLineage
    <3>5. \A i, k \in DOMAIN batch' :
             attempts'[batch'[i]].step = attempts'[batch'[k]].step => i = k
      BY <2>2, <3>1, <3>2 DEF BatchLineage
    <3>6. \A i \in DOMAIN batch' : Uncommitted(i)' => UpToDate(i)'
      <4>1. \A i \in DOMAIN batch : UpToDate(i) => UpToDate(i)'
        BY <2>2, <3>2 DEF UpToDate, Pending
      <4> QED BY <2>2, <3>1, <4>1 DEF BatchLineage
    <3> QED BY <3>4, <3>5, <3>6 DEF BatchLineage
  <2> QED BY <2>1, <2>2 DEF Moves
<1>3. pc' = "invalidate" => Examined'
  <2>1. CASE pos' = 1
    <3>1. DOMAIN Order = 1..Len(Order) /\ Len(Order) \in Nat
      BY WorkflowRunnerAssumption
    <3> QED BY <2>1, <3>1 DEF Examined
  <2>2. CASE pc = "invalidate" /\ pos' = pos
    <3>1. Examined
      BY <2>2 DEF LineageInv
    <3>2. \A k \in DOMAIN Order : Order[k] \in Step
      BY WorkflowRunnerAssumption
    <3> QED BY <1>c, <2>2, <3>1, <3>2, WorkflowRunnerAssumption DEF Examined
  <2> QED BY <2>1, <2>2 DEF Moves
<1>4. pc' = "complete" => AllDone'
  <2>1. CASE EvaluatePack
    BY <2>1 DEF EvaluatePack, Fail, AllDone, Incomplete
  <2>2. CASE pc = "complete" /\ done' = done
    BY <2>2 DEF LineageInv, AllDone
  <2> QED BY <2>1, <2>2 DEF Moves
<1>5. ConsistentLineage'
  <2>1. CASE run' # "completed"
    BY <2>1 DEF ConsistentLineage
  <2>2. CASE run = "completed" /\ final' = final
    <3>1. /\ final \in Completed(FinalStep)
          /\ \A s \in Step : Cardinality(Completed(s)) = 1
          /\ Explicit => \A s \in Step : \A a \in Completed(s) : \A d \in DependsOn[s] :
                attempts[a].from[d] \in Completed(d)
      BY <2>2 DEF LineageInv, ConsistentLineage
    <3>2. \A s \in Step : Cardinality(Completed(s)') = 1
      BY <1>c, <3>1
    <3>3. final' \in Completed(FinalStep)'
      BY <1>c, <2>2, <3>1, WorkflowRunnerAssumption
    <3>4. Explicit => \A s \in Step : \A a \in Completed(s)' : \A d \in DependsOn[s] :
                attempts'[a].from[d] \in Completed(d)'
      BY <1>c, <3>1, WorkflowRunnerAssumption
    <3> QED BY <3>2, <3>3, <3>4 DEF ConsistentLineage
  <2>3. CASE CompleteRun
    <3>1. pc = "complete" /\ final' = done[FinalStep]
      BY <2>3 DEF CompleteRun
    <3>2. AllDone /\ Tracks /\ Linked
      BY <3>1 DEF LineageInv, Working
    <3>3. \A s \in Step : Completed(s) = {done[s]}
      BY <3>2 DEF AllDone, Tracks
    <3>4. \A s \in Step : Cardinality(Completed(s)') = 1
      BY <1>c, <3>3, FS_Singleton
    <3>5. final' \in Completed(FinalStep)'
      BY <1>c, <3>1, <3>3, WorkflowRunnerAssumption
    <3>6. \A s \in Step : \A a \in Completed(s)' : \A d \in DependsOn[s] :
                attempts'[a].from[d] \in Completed(d)'
      <4> SUFFICES ASSUME NEW s \in Step, NEW a \in Completed(s), NEW d \in DependsOn[s]
                   PROVE  attempts[a].from[d] \in Completed(d)
        BY <1>c, WorkflowRunnerAssumption
      <4>1. a = done[s] /\ d \in Step /\ done[s] # 0
        BY <3>2, <3>3, WorkflowRunnerAssumption DEF AllDone
      <4>2. attempts[a].from[d] = done[d]
        BY <3>2, <4>1 DEF Linked
      <4> QED BY <3>3, <4>1, <4>2
    <3> QED BY <3>4, <3>5, <3>6 DEF ConsistentLineage
  <2> QED BY <2>1, <2>2, <2>3 DEF Moves
<1> QED BY <1>c, <1>1, <1>2, <1>3, <1>4, <1>5 DEF LineageInv

LEMMA LineagePrepare ==
    ASSUME LineageInv, EvidenceInv', PrepareStep
    PROVE  LineageInv' /\ SameCheckpoints
<1> DEFINE s == First(todo)
           a == Latest(Attempts(s))
           x == [attempts[a] EXCEPT !.status = "running",
                    !.from = [d \in Step |-> IF d \in DependsOn[s] THEN done[d] ELSE 0]]
<1>a. TypeInv /\ TypeInv' /\ RunningWhileWorking /\ BatchInv /\ BatchLineage /\ Tracks /\ Linked
  BY DEF LineageInv, EvidenceInv, PrepareStep, Batching, Working
<1>b. attempts \in Seq(Attempt) /\ Len(attempts) \in Nat /\ DOMAIN attempts = 1..Len(attempts)
  BY <1>a, LenProperties DEF TypeInv, TypeOK
<1>c. /\ batch \in Seq(DOMAIN attempts) /\ Len(batch) \in Nat /\ DOMAIN batch = 1..Len(batch)
      /\ \A i \in DOMAIN batch : batch[i] \in DOMAIN attempts
  BY <1>a, LenProperties DEF TypeInv, TypeOK
<1>d. \A b \in DOMAIN attempts : attempts[b] \in Attempt
  BY <1>b
<1>e. /\ pc = "prepare" /\ pc' = "prepare" /\ todo' = todo \ {s} /\ run = "running"
      /\ UNCHANGED <<run, pos, done, final>>
  BY <1>a DEF PrepareStep, RunningWhileWorking
<1>f. s \in todo /\ s \in Step /\ Pending(s)
  <2>1. s \in todo /\ todo \subseteq Step
    BY <1>a, FirstIsMember DEF PrepareStep, TypeInv, TypeOK
  <2> QED BY <1>a, <1>e, <2>1 DEF BatchLineage
<1>1. \/ UNCHANGED <<attempts, batch>>
      \/ /\ ~CannotRun(a)
         /\ attempts' = [attempts EXCEPT ![a] = x]
         /\ batch' = Append(batch, a)
  BY DEF PrepareStep
<1>g. a \in DOMAIN attempts /\ attempts[a].step = s
  <2>1. Attempts(s) # {} /\ Attempts(s) \subseteq 1..Len(attempts)
    BY <1>b DEF PrepareStep, NeedsAttempt, Attempts
  <2>2. a \in Attempts(s)
    BY <1>b, <2>1, LatestIsMember
  <2> QED BY <2>2 DEF Attempts
<1>h. /\ x.step = s /\ x.status = "running"
      /\ x.from = [d \in Step |-> IF d \in DependsOn[s] THEN done[d] ELSE 0]
  BY <1>d, <1>g DEF Attempt
<1> HIDE DEF x, a, s
<1>2. SameCheckpoints
  <2>1. CASE UNCHANGED attempts
    BY <2>1 DEF SameCheckpoints
  <2>2. CASE ~CannotRun(a) /\ attempts' = [attempts EXCEPT ![a] = x]
    <3>1. attempts[a].status \in OpenAttempt
      BY <2>2 DEF CannotRun
    <3>2. /\ DOMAIN attempts' = DOMAIN attempts
          /\ \A b \in DOMAIN attempts : attempts'[b] = IF b = a THEN x ELSE attempts[b]
      BY <1>b, <2>2
    <3> QED BY <1>g, <1>h, <3>1, <3>2 DEF SameCheckpoints, OpenAttempt
  <2> QED BY <1>1, <2>1, <2>2
<1>3. /\ \A t \in Step : Completed(t)' = Completed(t)
      /\ \A t \in Step : \A b \in Completed(t) : attempts'[b].from = attempts[b].from
      /\ OneCheckpoint' /\ Consumed'
  BY <1>2, KeptCheckpoints DEF LineageInv
<1>4. Tracks' /\ Linked'
  <2>1. Tracks'
    BY <1>a, <1>e, <1>3 DEF Tracks
  <2>2. Linked'
    BY <1>a, <1>e, <1>3 DEF Tracks, Linked
  <2> QED BY <2>1, <2>2
<1>5. \A t : Pending(t)' <=> Pending(t)
  BY <1>e DEF Pending
<1>6. \A t \in todo' : Pending(t)'
  BY <1>a, <1>e, <1>5 DEF BatchLineage
<1>7. BatchLineage'
  <2>1. CASE UNCHANGED <<attempts, batch>>
    BY <1>a, <1>e, <1>6, <2>1 DEF BatchLineage, UpToDate, Pending, Uncommitted
  <2>2. CASE attempts' = [attempts EXCEPT ![a] = x] /\ batch' = Append(batch, a)
    <3>1. /\ DOMAIN attempts' = DOMAIN attempts
          /\ \A b \in DOMAIN attempts : attempts'[b] = IF b = a THEN x ELSE attempts[b]
      BY <1>b, <2>2
    <3>2. /\ DOMAIN batch' = DOMAIN batch \cup {Len(batch) + 1}
          /\ batch'[Len(batch) + 1] = a
          /\ \A i \in DOMAIN batch : batch'[i] = batch[i]
      BY <1>c, <1>g, <2>2
    <3>3. \A i \in DOMAIN batch : batch[i] # a /\ attempts[batch[i]].step # s
      BY <1>a, <1>e, <1>f, <1>g DEF BatchInv
    <3>4. \A i \in DOMAIN batch : attempts'[batch'[i]] = attempts[batch[i]]
      BY <1>c, <3>1, <3>2, <3>3
    <3>5. attempts'[batch'[Len(batch) + 1]] = x
      BY <1>g, <3>1, <3>2
    <3>6. \A i \in DOMAIN batch : UpToDate(i)'
      BY <1>a, <1>e, <3>4 DEF BatchLineage, Uncommitted, UpToDate, Pending
    <3>7. ASSUME NEW i \in DOMAIN batch', i = Len(batch) + 1
          PROVE  UpToDate(i)'
      <4>1. \A d \in DependsOn[s] : d \in Step /\ x.from[d] = done[d]
        BY <1>f, <1>h, WorkflowRunnerAssumption
      <4>2. done[s] = 0 /\ \A d \in DependsOn[s] : done[d] # 0
        BY <1>f DEF Pending
      <4> QED BY <1>e, <1>h, <3>5, <3>7, <4>1, <4>2 DEF UpToDate, Pending
    <3>8. \A i, k \in DOMAIN batch' :
             attempts'[batch'[i]].step = attempts'[batch'[k]].step => i = k
      BY <1>a, <1>h, <3>2, <3>3, <3>4, <3>5 DEF BatchLineage
    <3>9. \A i \in DOMAIN batch' : UpToDate(i)'
      BY <3>2, <3>6, <3>7
    <3> QED BY <1>6, <3>8, <3>9 DEF BatchLineage
  <2> QED BY <1>1, <2>1, <2>2
<1> QED BY <1>e, <1>2, <1>3, <1>4, <1>7 DEF LineageInv, ConsistentLineage

LEMMA LineageCheckpoint ==
    ASSUME LineageInv, EvidenceInv', Checkpoint
    PROVE  LineageInv'
<1> DEFINE a == Current
           s == attempts[Current].step
           x == [attempts[Current] EXCEPT !.status = "completed"]
<1>a. TypeInv /\ TypeInv' /\ RunningWhileWorking /\ BatchInv /\ BatchLineage /\ Tracks /\ Linked
  BY DEF LineageInv, EvidenceInv, Checkpoint, Batching, Working
<1>b. attempts \in Seq(Attempt) /\ DOMAIN attempts \subseteq Nat \ {0}
  BY <1>a DEF TypeInv, TypeOK
<1>c. /\ DOMAIN batch \subseteq Nat
      /\ \A i \in DOMAIN batch : batch[i] \in DOMAIN attempts
  BY <1>a DEF TypeInv, TypeOK
<1>d. /\ pc = "checkpoint" /\ pc' = "commit" /\ pos' = pos + 1 /\ run = "running"
      /\ UNCHANGED <<run, batch>>
  BY <1>a DEF Checkpoint, RunningWhileWorking
<1>e. /\ pos \in DOMAIN batch /\ a = batch[pos] /\ a \in DOMAIN attempts /\ a # 0
      /\ s \in Step /\ attempts[a] \in Attempt
  <2>1. pos \in DOMAIN batch /\ a = batch[pos]
    BY <1>a, <1>d DEF Current, TypeInv, References
  <2>2. a \in DOMAIN attempts /\ attempts[a] \in Attempt
    BY <1>b, <1>c, <2>1
  <2> QED BY <1>b, <2>1, <2>2 DEF Attempt
<1>f. /\ x.step = s /\ x.status = "completed" /\ x.from = attempts[a].from
      /\ attempts[a].status = "running"
  BY <1>a, <1>c, <1>d, <1>e DEF Attempt, BatchInv
<1>g. UpToDate(pos) /\ Pending(s) /\ \A d \in DependsOn[s] : attempts[a].from[d] = done[d]
  <2>1. Uncommitted(pos)
    BY <1>c, <1>e DEF Uncommitted
  <2> QED BY <1>a, <1>e, <2>1 DEF BatchLineage, UpToDate, Current
<1>h. /\ DOMAIN attempts' = DOMAIN attempts
      /\ \A b \in DOMAIN attempts : attempts'[b] = IF b = a THEN x ELSE attempts[b]
  BY <1>b DEF Checkpoint
<1>i. done' = [done EXCEPT ![s] = a] /\ DOMAIN done = Step
  BY <1>a DEF Checkpoint, TypeInv, TypeOK
<1> HIDE DEF x, a, s
<1>j. \A t \in Step : done'[t] = IF t = s THEN a ELSE done[t]
  BY <1>i
<1>1. \A t \in Step : /\ Attempts(t)' = Attempts(t)
                       /\ Completed(t)' = IF t = s THEN Completed(t) \cup {a} ELSE Completed(t)
  BY <1>e, <1>f, <1>h DEF Completed, Attempts, s, a
<1>2. Completed(s) = {}
  BY <1>a, <1>e, <1>g DEF Tracks, Pending
<1>3. \A t \in Step : \A b \in Completed(t)' : attempts'[b].from = attempts[b].from
  BY <1>f, <1>h DEF Completed, Attempts
<1>4. Tracks'
  BY <1>a, <1>e, <1>j, <1>1, <1>2 DEF Tracks
<1>5. OneCheckpoint'
  BY <1>4 DEF Tracks, OneCheckpoint
<1>6. Linked'
  <2> SUFFICES ASSUME NEW t \in Step, done'[t] # 0, NEW d \in DependsOn[t]
               PROVE  done'[d] # 0 /\ attempts'[done'[t]].from[d] = done'[d]
    BY DEF Linked
  <2>1. d \in Step
    BY WorkflowRunnerAssumption
  <2>2. attempts'[done'[t]].from = attempts[done'[t]].from
    BY <1>3, <1>4 DEF Tracks
  <2>3. CASE t = s
    <3>1. done[d] # 0 /\ attempts[a].from[d] = done[d] /\ done[s] = 0
      BY <1>g, <2>3 DEF Pending
    <3> QED BY <1>j, <2>1, <2>2, <2>3, <3>1
  <2>4. CASE t # s
    <3>1. done[d] # 0 /\ attempts[done[t]].from[d] = done[d] /\ done[s] = 0
      BY <1>a, <1>g, <1>j, <2>4 DEF Linked, Pending
    <3> QED BY <1>j, <2>1, <2>2, <2>4, <3>1
  <2> QED BY <2>3, <2>4
<1>7. Consumed'
  <2> SUFFICES ASSUME NEW t \in Step, NEW b \in Completed(t)', NEW d \in DependsOn[t]
               PROVE  attempts'[b].from[d] \in Attempts(d)'
    BY DEF Consumed
  <2>1. d \in Step /\ b = done'[t] /\ done'[t] # 0
    BY <1>4, WorkflowRunnerAssumption DEF Tracks
  <2>2. done'[d] # 0 /\ attempts'[b].from[d] = done'[d]
    BY <1>6, <2>1 DEF Linked
  <2>3. done'[d] \in Completed(d)'
    BY <1>4, <2>1, <2>2 DEF Tracks
  <2> QED BY <2>2, <2>3 DEF Completed
<1>8. BatchLineage'
  <2>1. \A i \in DOMAIN batch : /\ attempts'[batch[i]].step = attempts[batch[i]].step
                                /\ attempts'[batch[i]].from = attempts[batch[i]].from
    BY <1>c, <1>f, <1>h DEF s, a
  <2>2. ASSUME NEW i \in DOMAIN batch, i >= pos + 1
        PROVE  UpToDate(i)'
    <3> DEFINE t == attempts[batch[i]].step
    <3>1. UpToDate(i) /\ i # pos /\ i >= pos
      <4>1. pos \in Nat
        BY <1>c, <1>e
      <4>2. i # pos /\ i >= pos
        BY <1>c, <2>2, <4>1
      <4> QED BY <1>a, <4>2 DEF BatchLineage, Uncommitted
    <3>2. t # s /\ t \in Step
      <4>1. attempts[batch[i]] \in Attempt
        BY <1>b, <1>c
      <4>2. s = attempts[batch[pos]].step
        BY DEF s, Current
      <4>3. t # s
        BY <1>a, <1>e, <3>1, <4>2 DEF BatchLineage
      <4> QED BY <4>1, <4>3 DEF Attempt
    <3>3. \A d \in DependsOn[t] : d \in Step /\ d # s
      BY <1>g, <3>1, <3>2, WorkflowRunnerAssumption DEF UpToDate, Pending
    <3> QED BY <1>d, <1>j, <2>1, <3>1, <3>2, <3>3 DEF UpToDate, Pending
  <2>3. \A i \in DOMAIN batch' : Uncommitted(i)' => UpToDate(i)'
    BY <1>d, <2>2 DEF Uncommitted
  <2>4. \A i, k \in DOMAIN batch' :
           attempts'[batch'[i]].step = attempts'[batch'[k]].step => i = k
    BY <1>a, <1>d, <2>1 DEF BatchLineage
  <2> QED BY <1>d, <2>3, <2>4 DEF BatchLineage
<1> QED BY <1>d, <1>4, <1>5, <1>6, <1>7, <1>8 DEF LineageInv, ConsistentLineage

LEMMA FrozenFields ==
    Frozen.order = Order /\ Frozen.needs = DependsOn /\ Frozen.alien = {} /\ Frozen.gates = {}
BY DEF Frozen

\* The frozen plan agrees with itself.
LEMMA FrozenAgrees ==
    ASSUME NEW s
    PROVE  Agrees(Frozen, s)
BY FrozenFields DEF Agrees, NextSteps, Fits

LEMMA PackOrder ==
    ASSUME TypeInv
    PROVE  /\ Len(pack.order) \in Nat
           /\ DOMAIN pack.order = 1..Len(pack.order)
<1>1. CASE pack = Frozen
  BY <1>1, FrozenFields, WorkflowRunnerAssumption
<1>2. CASE pack \in Editions
  <2>1. pack.order \in Seq(DOMAIN pack.needs)
    BY <1>2, WorkflowRunnerAssumption
  <2> QED BY <2>1, LenProperties
<1> QED BY <1>1, <1>2 DEF TypeInv, TypeOK

\* The step that recovery examines: its checkpoints stay as they are, or all of
\* them are given up because the latest is not valid.
LEMMA InvalidateRows ==
    ASSUME TypeInv, Invalidate
    PROVE  /\ pos \in DOMAIN pack.order
           /\ DOMAIN attempts' = DOMAIN attempts
           /\ \A b \in DOMAIN attempts : /\ attempts'[b].step = attempts[b].step
                                         /\ attempts'[b].from = attempts[b].from
           /\ \/ /\ UNCHANGED attempts
                 /\ \/ Latest(Completed(pack.order[pos])) = 0
                    \/ ValidCheckpoint(pack, Latest(Completed(pack.order[pos])))
              \/ /\ Latest(Completed(pack.order[pos])) # 0
                 /\ ~ValidCheckpoint(pack, Latest(Completed(pack.order[pos])))
                 /\ \A b \in DOMAIN attempts :
                       IF b \in Completed(pack.order[pos]) THEN attempts'[b].status = "cancelled"
                       ELSE attempts'[b] = attempts[b]
<1>a. attempts \in Seq(Attempt) /\ \A b \in DOMAIN attempts : attempts[b] \in Attempt
  BY DEF TypeInv, TypeOK
<1>1. pos \in DOMAIN pack.order
  BY PackOrder DEF Invalidate, TypeInv, TypeOK
<1> DEFINE C == Completed(pack.order[pos])
           a == Latest(C)
<1>2. attempts' = IF a = 0 \/ ValidCheckpoint(pack, a) THEN attempts
                  ELSE [b \in DOMAIN attempts |->
                           IF b \in C THEN [attempts[b] EXCEPT !.status = "cancelled"]
                           ELSE attempts[b]]
  BY DEF Invalidate
<1>3. \A b \in DOMAIN attempts :
         LET y == [attempts[b] EXCEPT !.status = "cancelled"]
         IN  y.step = attempts[b].step /\ y.from = attempts[b].from /\ y.status = "cancelled"
  BY <1>a DEF Attempt
<1> HIDE DEF C, a
<1>4. CASE a = 0 \/ ValidCheckpoint(pack, a)
  BY <1>1, <1>2, <1>4 DEF C, a
<1>5. CASE ~(a = 0 \/ ValidCheckpoint(pack, a))
  <2>1. DOMAIN attempts' = DOMAIN attempts
    BY <1>2, <1>5
  <2>2. \A b \in DOMAIN attempts :
           attempts'[b] = IF b \in C THEN [attempts[b] EXCEPT !.status = "cancelled"]
                          ELSE attempts[b]
    BY <1>2, <1>5
  <2>3. \A b \in DOMAIN attempts : /\ attempts'[b].step = attempts[b].step
                                   /\ attempts'[b].from = attempts[b].from
    BY <1>3, <2>2
  <2>4. \A b \in DOMAIN attempts : IF b \in C THEN attempts'[b].status = "cancelled"
                                   ELSE attempts'[b] = attempts[b]
    BY <1>3, <2>2
  <2> QED BY <1>1, <1>5, <2>1, <2>3, <2>4 DEF C, a
<1> QED BY <1>4, <1>5

\* The dependencies of the step at a position come before it.
LEMMA DependenciesFirst ==
    ASSUME NEW k \in DOMAIN Order, NEW d \in DependsOn[Order[k]]
    PROVE  d \in Step /\ \E m \in DOMAIN Order : m < k /\ Order[m] = d
<1>1. Order \in Seq(Step) /\ Len(Order) \in Nat /\ DOMAIN Order = 1..Len(Order) /\ Order[k] \in Step
  BY WorkflowRunnerAssumption
<1>2. PICK j \in DOMAIN Order :
         Order[j] = Order[k] /\ \A e \in DependsOn[Order[k]] : \E m \in 1..(j - 1) : Order[m] = e
  BY <1>1, WorkflowRunnerAssumption
<1>3. j = k
  BY <1>2, WorkflowRunnerAssumption
<1>4. PICK m \in 1..(k - 1) : Order[m] = d
  BY <1>2, <1>3
<1>5. m \in DOMAIN Order /\ m < k
  BY <1>1, <1>4
<1>6. d \in Step
  BY <1>1, WorkflowRunnerAssumption
<1> QED BY <1>4, <1>5, <1>6

LEMMA LineageInvalidate ==
    ASSUME LineageInv, EvidenceInv', Invalidate
    PROVE  LineageInv'
<1>a. TypeInv /\ RunningWhileWorking /\ OneCheckpoint /\ Consumed
  BY DEF LineageInv, EvidenceInv
<1> DEFINE s == pack.order[pos]
<1>b. /\ pc' = pc /\ pc \in {"invalidate", "requeue"} /\ run' = run /\ pos' = pos + 1
      /\ run = "running"
  BY <1>a DEF Invalidate, RunningWhileWorking
<1>c. /\ DOMAIN attempts' = DOMAIN attempts
      /\ \A b \in DOMAIN attempts : /\ attempts'[b].step = attempts[b].step
                                    /\ attempts'[b].from = attempts[b].from
  BY <1>a, InvalidateRows
<1>1. /\ \A t \in Step : Attempts(t)' = Attempts(t) /\ Completed(t)' \subseteq Completed(t)
      /\ \A t \in Step : t # s => Completed(t)' = Completed(t)
  BY <1>a, <1>c, InvalidateRows DEF Completed, Attempts
<1>2. OneCheckpoint'
  BY <1>a, <1>1 DEF OneCheckpoint
<1>3. Consumed'
  <2> SUFFICES ASSUME NEW t \in Step, NEW b \in Completed(t)', NEW d \in DependsOn[t]
               PROVE  attempts'[b].from[d] \in Attempts(d)'
    BY DEF Consumed
  <2>1. d \in Step /\ b \in Completed(t) /\ b \in DOMAIN attempts
    BY <1>1, WorkflowRunnerAssumption DEF Completed, Attempts
  <2>2. attempts[b].from[d] \in Attempts(d)
    BY <1>a, <2>1 DEF Consumed
  <2> QED BY <1>c, <1>1, <2>1, <2>2
<1>4. pc' = "invalidate" => Examined'
  <2> SUFFICES ASSUME pc = "invalidate", NEW k \in DOMAIN Order, k < pos + 1,
                      NEW b \in Completed(Order[k])', NEW d \in DependsOn[Order[k]]
               PROVE  attempts'[b].from[d] \in Completed(d)'
    BY <1>b DEF Examined
  <2>0. pack = Frozen /\ pos \in DOMAIN Order /\ s = Order[pos] /\ s \in Step
    <3>1. pack = Frozen
      BY <1>a DEF TypeInv, References
    <3>2. pos \in DOMAIN Order /\ s = Order[pos]
      BY <1>a, <3>1, FrozenFields, InvalidateRows
    <3> QED BY <3>1, <3>2, WorkflowRunnerAssumption
  <2>1. Order[k] \in Step /\ DOMAIN Order \subseteq Nat
    BY WorkflowRunnerAssumption
  <2>2. PICK m \in DOMAIN Order : m < k /\ Order[m] = d /\ d \in Step
    BY DependenciesFirst
  <2>3. d # s
    <3>1. m # pos
      BY <2>0, <2>1, <2>2
    <3> QED BY <2>0, <2>2, <3>1, WorkflowRunnerAssumption
  <2>4. Completed(d)' = Completed(d) /\ b \in Completed(Order[k]) /\ b \in DOMAIN attempts
        /\ attempts'[b].from = attempts[b].from
    <3>1. Completed(d)' = Completed(d)
      BY <1>1, <2>2, <2>3
    <3>2. b \in Completed(Order[k])
      BY <1>1, <2>1
    <3> QED BY <1>c, <3>1, <3>2 DEF Completed, Attempts
  <2>5. CASE k < pos
    <3>1. Examined
      BY DEF LineageInv
    <3> QED BY <2>4, <2>5, <3>1 DEF Examined
  <2>6. CASE ~(k < pos)
    <3>1. k = pos
      BY <2>0, <2>1, <2>6
    <3>2. attempts \in Seq(Attempt) /\ DOMAIN attempts = 1..Len(attempts) /\ Len(attempts) \in Nat
      BY <1>a, LenProperties DEF TypeInv, TypeOK
    <3>3. Completed(s) \subseteq 1..Len(attempts) /\ Completed(d) \subseteq 1..Len(attempts)
      BY <3>2 DEF Completed, Attempts
    <3>4. b \in Completed(s) /\ Latest(Completed(s)) \in Completed(s)
      BY <2>0, <2>4, <3>1, <3>2, <3>3, LatestIsMember
    <3>5. Latest(Completed(s)) = b /\ b # 0
      <4>1. Latest(Completed(s)) = b
        BY <1>a, <2>0, <3>4 DEF OneCheckpoint
      <4> QED BY <3>3, <3>4, <4>1
    <3>6. ValidCheckpoint(pack, b)
      <4>1. attempts'[b].status # "cancelled"
        BY DEF Completed
      <4> QED BY <1>a, <2>4, <3>4, <3>5, <4>1, InvalidateRows
    <3>7. Lineage(b, d)
      <4>1. attempts[b].step = s
        BY <3>4 DEF Completed, Attempts
      <4> QED BY <2>0, <3>1, <3>6, <4>1 DEF ValidCheckpoint
    <3>8. Latest(Completed(d)) # 0 /\ attempts[b].from[d] = Latest(Completed(d))
      BY <3>7 DEF Lineage
    <3>9. Latest(Completed(d)) \in Completed(d)
      BY <3>2, <3>3, <3>8, LatestIsMember
    <3> QED BY <2>4, <3>8, <3>9
  <2> QED BY <2>5, <2>6
<1> QED BY <1>b, <1>2, <1>3, <1>4 DEF LineageInv, Working, Batching, ConsistentLineage

LEMMA LineageNext == LineageInv /\ [Next]_vars => LineageInv'
<1> SUFFICES ASSUME LineageInv, [Next]_vars PROVE LineageInv'
  OBVIOUS
<1>1. EvidenceInv /\ TypeInv /\ RunningWhileWorking
  BY DEF LineageInv, EvidenceInv
<1>2. EvidenceInv'
  BY <1>1, EvidenceNext
<1>3. Invalidate \/ Checkpoint \/ PrepareStep \/ (SameCheckpoints /\ SameInputs)
  BY <1>1, Rows
<1>4. Invalidate \/ Checkpoint \/ PrepareStep \/ Moves
  BY <1>1, Control
<1> QED BY <1>2, <1>3, <1>4, LineageMoves, LineagePrepare, LineageCheckpoint, LineageInvalidate

\* A completed run is built from one consistent set of attempts: one completed
\* attempt for each step, each of which consumed the attempts that count, through
\* crashes, damaged artifacts and repeated steps, for every pack.
THEOREM LineageIsConsistent == Spec => []ConsistentLineage
<1>1. LineageInv => ConsistentLineage
  BY DEF LineageInv
<1> QED BY LineageInit, LineageNext, <1>1, PTL DEF Spec

\* The reasons for which a checkpoint may be given up.
Lost(a) ==
    \/ attempts[a].damaged
    \/ attempts[a].step \in Bare
    \/ \E d \in DependsOn[attempts[a].step] : attempts[attempts[a].from[d]].status # "completed"
    \/ pc = "requeue" /\ ~Agrees(pack, attempts[a].step)

\* A checkpoint that fails the checks of recovery has one of these reasons.
LEMMA InvalidIsLost ==
    ASSUME LineageInv, NEW a \in DOMAIN attempts, attempts[a].status = "completed",
           ~ValidCheckpoint(pack, a)
    PROVE  Lost(a)
<1>a. TypeInv /\ CheckpointComplete /\ OneCheckpoint /\ Consumed
  BY DEF LineageInv, EvidenceInv
<1>b. /\ attempts \in Seq(Attempt) /\ DOMAIN attempts = 1..Len(attempts) /\ Len(attempts) \in Nat
      /\ \A b \in DOMAIN attempts : attempts[b] \in Attempt
  BY <1>a, LenProperties DEF TypeInv, TypeOK
<1> DEFINE s == attempts[a].step
<1>c. s \in Step /\ a \in Completed(s)
  BY <1>b DEF Completed, Attempts, Attempt
<1>e. pc # "requeue" => Agrees(pack, s)
  BY <1>a, FrozenAgrees DEF TypeInv, References
<1> SUFFICES ASSUME ~attempts[a].damaged, s \notin Bare, Agrees(pack, s)
             PROVE  \E d \in DependsOn[s] : attempts[attempts[a].from[d]].status # "completed"
  BY <1>e DEF Lost
<1>1. attempts[a].evals = 1 /\ attempts[a].handoffs = Edges(s)
  BY <1>a DEF CheckpointComplete
<1>2. PICK d \in DependsOn[s] : ~Lineage(a, d)
  <2>1. NextStepsIn(pack, s) = NextSteps(s) /\ Step \cup NextSteps(s) = Step
    BY <1>c, NextStepsType DEF Agrees
  <2>2. HandoffsMatch(pack, a)
    BY <1>1, <2>1 DEF HandoffsMatch, Edges, Agrees
  <2> QED BY <1>1, <2>2 DEF ValidCheckpoint, Agrees
<1>d. d \in Step /\ Explicit /\ s \in NextSteps(d)
  BY <1>c, WorkflowRunnerAssumption, NextStepsFrozen DEF Explicit, Dependents
<1> DEFINE b == attempts[a].from[d]
<1>3. b \in Attempts(d)
  BY <1>a, <1>c DEF Consumed
<1>4. SUFFICES ASSUME attempts[b].status = "completed" PROVE FALSE
  OBVIOUS
<1>5. b \in Completed(d)
  BY <1>3, <1>4 DEF Completed
<1>6. Latest(Completed(d)) = b
  <2>1. Completed(d) \in SUBSET (1..Len(attempts))
    BY <1>b DEF Completed, Attempts
  <2>2. Latest(Completed(d)) \in Completed(d)
    BY <1>b, <1>5, <2>1, LatestIsMember
  <2> QED BY <1>a, <1>d, <1>5, <2>2 DEF OneCheckpoint
<1>7. b # 0 /\ b \in DOMAIN attempts /\ attempts[b].step = d
  BY <1>b, <1>3 DEF Attempts
<1>8. attempts[b].handoffs = Edges(d)
  BY <1>a, <1>4, <1>7 DEF CheckpointComplete
<1>9. attempts[b].handoffs[s] = 1
  BY <1>c, <1>d, <1>8 DEF Edges
<1> QED BY <1>2, <1>6, <1>7, <1>9 DEF Lineage

LEMMA GivenUpIsLost ==
    ASSUME LineageInv, [Next]_vars, NEW a \in DOMAIN attempts,
           attempts[a].status = "completed", attempts'[a].status # "completed"
    PROVE  Lost(a)
<1>a. TypeInv /\ EvidenceInv /\ OneCheckpoint /\ EvidenceInv'
  BY EvidenceNext DEF LineageInv, EvidenceInv
<1>b. /\ attempts \in Seq(Attempt) /\ DOMAIN attempts = 1..Len(attempts) /\ Len(attempts) \in Nat
  BY <1>a, LenProperties DEF TypeInv, TypeOK
<1>1. CASE SameCheckpoints
  BY <1>1 DEF SameCheckpoints
<1>2. CASE PrepareStep
  BY <1>a, <1>1, <1>2, LineagePrepare
<1>3. CASE Checkpoint
  <2> DEFINE x == [attempts[Current] EXCEPT !.status = "completed"]
  <2>1. Current \in DOMAIN attempts /\ attempts[Current] \in Attempt
    BY <1>a, <1>3 DEF Checkpoint, Current, TypeInv, TypeOK, References
  <2>2. x.status = "completed"
    BY <2>1 DEF Attempt
  <2>3. attempts'[a] = IF a = Current THEN x ELSE attempts[a]
    BY <1>b, <1>3 DEF Checkpoint
  <2> HIDE DEF x
  <2> QED BY <2>2, <2>3
<1>4. CASE Invalidate
  <2> DEFINE C == Completed(pack.order[pos])
  <2>1. a \in C /\ ~ValidCheckpoint(pack, Latest(C))
    BY <1>a, <1>4, InvalidateRows
  <2>2. C \in SUBSET (1..Len(attempts))
    BY <1>b DEF Completed, Attempts
  <2>3. Latest(C) \in C
    BY <1>b, <2>1, <2>2, LatestIsMember
  <2>4. Latest(C) = a
    <3>1. attempts[a] \in Attempt /\ attempts[a].step = pack.order[pos]
      BY <1>b, <2>1 DEF Completed, Attempts
    <3>2. pack.order[pos] \in Step
      BY <3>1 DEF Attempt
    <3> QED BY <1>a, <2>1, <2>3, <3>2 DEF OneCheckpoint
  <2> QED BY <2>1, <2>4, InvalidIsLost
<1> QED BY <1>a, <1>1, <1>2, <1>3, <1>4, Rows

\* A checkpoint is given up only if its artifacts were damaged or absent, or an
\* attempt it consumed was given up, or a requeue examined it against a Pack that
\* declares its step differently from the frozen plan: while the Pack of the run
\* agrees with its plan, crashes alone cost no completed step, whatever the plan.
THEOREM CheckpointsAreKept == Spec => CheckpointsKept
<1> DEFINE A == \A a \in DOMAIN attempts :
                   attempts[a].status = "completed" /\ attempts'[a].status # "completed" =>
                       \/ attempts[a].damaged
                       \/ attempts[a].step \in Bare
                       \/ \E d \in DependsOn[attempts[a].step] :
                             attempts[attempts[a].from[d]].status # "completed"
                       \/ pc = "requeue" /\ ~Agrees(pack, attempts[a].step)
<1>1. LineageInv /\ [Next]_vars => [A]_vars
  BY GivenUpIsLost DEF Lost
<1>2. Spec => [][A]_vars
  BY LineageInit, LineageNext, <1>1, PTL DEF Spec
<1> QED BY <1>2 DEF CheckpointsKept

----------------------------------------------------------------------------
(* The branches of a batch.                                                *)

LEMMA LowestIsMember ==
    ASSUME NEW I, I \subseteq Nat, I # {}
    PROVE  Lowest(I) \in I /\ \A k \in I : Lowest(I) <= k
<1>1. \E i \in I : \A k \in I : i <= k
  BY SmallestElement
<1> QED BY <1>1 DEF Lowest

LEMMA BranchNext == TypeInv /\ BranchInv /\ [Next]_vars => BranchInv'
<1> SUFFICES ASSUME TypeInv, BranchInv, [Next]_vars PROVE BranchInv'
  OBVIOUS
<1> USE DEF durableVars, localVars
<1>a. /\ Len(batch) \in Nat /\ DOMAIN batch = 1..Len(batch)
      /\ branch \in [DOMAIN batch -> BranchState] /\ DOMAIN branch = DOMAIN batch
      /\ seen \subseteq DOMAIN branch
      /\ DOMAIN branch \subseteq Nat
  BY LenProperties DEF TypeInv, TypeOK
<1>1. CASE Begin \/ Requeue \/ Reclose \/ Interrupt \/ WaitRun \/ CloseRun \/ CompleteRun
           \/ LoadState \/ PickReady \/ PrepareFails \/ BatchFailed \/ BatchCommitted
           \/ AbortBatch \/ FailRun \/ EvaluatePack \/ Invalidate
  BY <1>1 DEF Begin, Requeue, Reclose, Interrupt, WaitRun, CloseRun, CompleteRun, Fresh, Enter,
       LoadState, PickReady, PrepareFails, BatchFailed, BatchCommitted, AbortBatch, FailRun,
       EvaluatePack, Fail, Invalidate, BranchInv
<1>2. CASE StartAttempt \/ RecordRuntimeState \/ PrepareStep
  BY <1>2 DEF StartAttempt, RecordRuntimeState, PrepareStep, BranchInv
<1>3. CASE CommitEvidence \/ WriteHandoff \/ CompleteJob \/ Checkpoint
  BY <1>3 DEF CommitEvidence, WriteHandoff, CompleteJob, Checkpoint, Fail, BranchInv,
              CancelledBehind
<1>4. CASE SubmitBatch
  <2>1. /\ pc = "prepare" /\ pc' = "execute" /\ seen = {} /\ seen' = {} /\ batch # << >>
        /\ branch' = [i \in DOMAIN batch |-> IF i <= Workers THEN "submitted" ELSE "new"]
    BY <1>4 DEF SubmitBatch, BranchInv
  <2>2. 1 \in DOMAIN batch
    BY <1>a, <2>1 DEF TypeInv, TypeOK
  <2>3. Workers \in Nat /\ 1 <= Workers
    BY <1>a, <2>2, WorkflowRunnerAssumption DEF Workers
  <2>4. /\ DOMAIN branch' = DOMAIN batch
        /\ \A i \in DOMAIN batch : branch'[i] = IF i <= Workers THEN "submitted" ELSE "new"
    BY <2>1
  <2>5. CancelledBehind'
    BY <2>4 DEF CancelledBehind
  <2>6. branch'[1] \notin {"new", "cancelled"}
    BY <2>2, <2>3, <2>4
  <2>7. Dispatch'
    BY <1>a, <2>1, <2>2, <2>3, <2>4, <2>6 DEF Dispatch
  <2> QED BY <2>1, <2>5, <2>7 DEF BranchInv
\* A branch at work goes on.
<1>5. ASSUME NEW i \in DOMAIN branch, BranchStarts(i) \/ BranchEnds(i) PROVE BranchInv'
  <2>1. /\ pc = "execute" /\ pc' = "execute" /\ seen' = seen
        /\ \E r \in {"running", "ok", "error"} : branch' = [branch EXCEPT ![i] = r]
        /\ branch[i] \in {"submitted", "running"}
    BY <1>5 DEF BranchStarts, BranchEnds, SetBranch
  <2>2. CancelledBehind /\ Dispatch
    BY <2>1 DEF BranchInv
  <2>3. PICK r \in {"running", "ok", "error"} :
           /\ DOMAIN branch' = DOMAIN branch
           /\ \A j \in DOMAIN branch : branch'[j] = IF j = i THEN r ELSE branch[j]
    BY <2>1
  <2>4. i \notin seen
    BY <2>1, <2>2 DEF Dispatch
  <2>5. CancelledBehind'
    <3> SUFFICES ASSUME NEW j \in DOMAIN branch, branch'[j] = "cancelled"
                 PROVE  \E k \in 1..(j - 1) : branch'[k] = "error"
      BY <2>3 DEF CancelledBehind
    <3>1. branch[j] = "cancelled"
      BY <2>3
    <3>2. PICK k \in 1..(j - 1) : branch[k] = "error"
      BY <2>2, <3>1 DEF CancelledBehind
    <3>3. k \in DOMAIN branch /\ k # i
      BY <1>a, <2>1, <3>2
    <3> QED BY <2>3, <3>2, <3>3
  <2>6. Errors(seen)' = Errors(seen)
    BY <1>a, <2>1, <2>3, <2>4 DEF Errors
  <2>7. Dispatch'
    BY <1>a, <2>1, <2>2, <2>3, <2>4, <2>6 DEF Dispatch
  <2> QED BY <2>1, <2>5, <2>7 DEF BranchInv
\* A failure cancels what stands behind the first one.
<1>6. ASSUME NEW i \in DOMAIN branch, CollectError(i) PROVE BranchInv'
  <2> DEFINE E == Errors(seen')
             m == Lowest(E)
  <2>1. /\ pc = "execute" /\ pc' = "execute" /\ seen' = seen \cup {i} /\ branch[i] = "error"
        /\ branch' = [j \in DOMAIN branch |->
              IF j > m /\ branch[j] = "submitted" THEN "cancelled" ELSE branch[j]]
    BY <1>6 DEF CollectError
  <2>2. CancelledBehind /\ Dispatch
    BY <2>1 DEF BranchInv
  <2>3. E \subseteq DOMAIN branch /\ E \subseteq Nat /\ i \in E
    BY <1>a, <2>1 DEF Errors
  <2>4. m \in DOMAIN branch /\ branch[m] = "error"
    <3>1. m \in E
      BY <2>3, LowestIsMember
    <3> QED BY <2>3, <3>1 DEF Errors
  <2> HIDE DEF m, E
  <2>5. /\ DOMAIN branch' = DOMAIN branch
        /\ \A j \in DOMAIN branch : branch'[j] = IF j > m /\ branch[j] = "submitted"
                                                 THEN "cancelled" ELSE branch[j]
    BY <2>1
  <2>6. CancelledBehind'
    <3> SUFFICES ASSUME NEW j \in DOMAIN branch, branch'[j] = "cancelled"
                 PROVE  \E k \in 1..(j - 1) : branch'[k] = "error"
      BY <2>5 DEF CancelledBehind
    <3>1. CASE j > m
      <4>1. m \in 1..(j - 1)
        BY <1>a, <2>4, <3>1
      <4> QED BY <2>4, <2>5, <4>1
    <3>2. CASE ~(j > m)
      <4>1. PICK k \in 1..(j - 1) : branch[k] = "error"
        BY <2>2, <2>5, <3>2 DEF CancelledBehind
      <4>2. k \in DOMAIN branch
        BY <1>a, <4>1
      <4> QED BY <2>5, <4>1, <4>2
    <3> QED BY <3>1, <3>2
  <2>7. i \in Errors(seen)'
    BY <2>1, <2>5 DEF Errors
  <2>8. \A j, k \in DOMAIN branch' : branch'[j] = "new" /\ j < k => branch'[k] = "new"
    BY <2>2, <2>5 DEF Dispatch
  <2>9. \A j \in seen' : branch'[j] \in {"ok", "error"}
    BY <1>a, <2>1, <2>2, <2>5 DEF Dispatch
  <2> QED BY <2>1, <2>6, <2>7, <2>8, <2>9 DEF BranchInv, Dispatch
\* A success submits the next branch.
<1>7. ASSUME NEW i \in DOMAIN branch, CollectOk(i) PROVE BranchInv'
  <2> DEFINE New == {j \in DOMAIN branch : branch[j] = "new"}
             n == Lowest(New)
  <2>1. /\ pc = "execute" /\ pc' = "execute" /\ seen' = seen \cup {i} /\ branch[i] = "ok"
        /\ branch' = IF Errors(seen) = {} /\ New # {}
                     THEN [branch EXCEPT ![n] = "submitted"] ELSE branch
    BY <1>7 DEF CollectOk
  <2>2. CancelledBehind /\ Dispatch
    BY <2>1 DEF BranchInv
  <2>3. CASE Errors(seen) = {} /\ New # {}
    <3>1. n \in New /\ \A k \in New : n <= k
      BY <1>a, <2>3, LowestIsMember
    <3>2. n \in DOMAIN branch /\ branch[n] = "new" /\ n \notin seen'
      BY <2>1, <2>2, <3>1 DEF Dispatch
    <3>3. \A k \in DOMAIN branch : branch[k] = "new" => n <= k
      BY <3>1
    <3> HIDE DEF n, New
    <3>4. /\ DOMAIN branch' = DOMAIN branch
          /\ \A j \in DOMAIN branch : branch'[j] = IF j = n THEN "submitted" ELSE branch[j]
      BY <2>1, <2>3
    <3>5. CancelledBehind'
      <4> SUFFICES ASSUME NEW j \in DOMAIN branch, branch'[j] = "cancelled"
                   PROVE  \E k \in 1..(j - 1) : branch'[k] = "error"
        BY <3>4 DEF CancelledBehind
      <4>1. PICK k \in 1..(j - 1) : branch[k] = "error"
        BY <2>2, <3>4 DEF CancelledBehind
      <4>2. k \in DOMAIN branch /\ k # n
        BY <1>a, <3>2, <4>1
      <4> QED BY <3>4, <4>1, <4>2
    <3>6. \A j, k \in DOMAIN branch' : branch'[j] = "new" /\ j < k => branch'[k] = "new"
      BY <1>a, <2>2, <3>2, <3>3, <3>4 DEF Dispatch
    <3>7. \A j \in seen' : branch'[j] \in {"ok", "error"}
      BY <1>a, <2>1, <2>2, <3>2, <3>4 DEF Dispatch
    <3>8. n \in DOMAIN branch' \ seen' /\ branch'[n] \notin {"new", "cancelled"}
      BY <3>2, <3>4
    <3> QED BY <2>1, <3>5, <3>6, <3>7, <3>8 DEF BranchInv, Dispatch
  <2>4. CASE ~(Errors(seen) = {} /\ New # {})
    <3>1. branch' = branch
      BY <2>1, <2>4
    <3>2. Errors(seen) \subseteq Errors(seen)'
      BY <2>1, <3>1 DEF Errors
    <3>3. ~(Errors(seen)' = {} /\ \E j \in DOMAIN branch' : branch'[j] = "new")
      BY <2>4, <3>1, <3>2
    <3>4. \A j \in seen' : branch'[j] \in {"ok", "error"}
      BY <2>1, <2>2, <3>1 DEF Dispatch
    <3> QED BY <2>1, <2>2, <3>1, <3>3, <3>4 DEF BranchInv, Dispatch, CancelledBehind
  <2> QED BY <2>3, <2>4
\* The branches that never started stand behind the failure that stopped them.
<1>8. CASE BatchEnds
  <2>1. /\ pc = "execute" /\ pc' = "commit"
        /\ \A i \in DOMAIN branch : branch[i] \in {"new", "cancelled"} \/ i \in seen
        /\ branch' = [i \in DOMAIN branch |-> IF branch[i] = "new" THEN "cancelled" ELSE branch[i]]
    BY <1>8 DEF BatchEnds
  <2>2. CancelledBehind /\ Dispatch
    BY <2>1 DEF BranchInv
  <2>3. /\ DOMAIN branch' = DOMAIN branch
        /\ \A j \in DOMAIN branch : branch'[j] = IF branch[j] = "new" THEN "cancelled" ELSE branch[j]
    BY <2>1
  <2> SUFFICES ASSUME NEW j \in DOMAIN branch, branch'[j] = "cancelled"
               PROVE  \E k \in 1..(j - 1) : branch'[k] = "error"
    BY <2>1, <2>3 DEF BranchInv, CancelledBehind
  <2>4. PICK k \in 1..(j - 1) : branch[k] = "error"
    <3>1. CASE branch[j] = "cancelled"
      BY <2>2, <3>1 DEF CancelledBehind
    <3>2. CASE branch[j] = "new"
      <4>1. Errors(seen) # {}
        BY <2>1, <2>2, <3>2 DEF Dispatch
      <4>2. PICK k \in DOMAIN branch : branch[k] = "error"
        BY <1>a, <4>1 DEF Errors
      <4>3. ~(j < k) /\ k # j
        BY <2>2, <3>2, <4>2 DEF Dispatch
      <4>4. k \in 1..(j - 1)
        BY <1>a, <4>3
      <4> QED BY <4>2, <4>4
    <3> QED BY <2>3, <3>1, <3>2
  <2>5. k \in DOMAIN branch
    BY <1>a, <2>4
  <2> QED BY <2>3, <2>4, <2>5
<1>9. ASSUME NEW a, Approve(a) \/ Damage(a) PROVE BranchInv'
  BY <1>9 DEF Approve, Damage, BranchInv, CancelledBehind, Dispatch, Errors
<1>10. CASE UNCHANGED vars
  BY <1>10 DEF vars, BranchInv, CancelledBehind, Dispatch, Errors
<1> QED BY <1>1, <1>2, <1>3, <1>4, <1>5, <1>6, <1>7, <1>8, <1>9, <1>10 DEF Next, RunnerStep

\* In plan order the first result of a batch that is not a success is a real
\* failure, for any number of branches and of pool threads: the run reports the
\* error that stopped it.
THEOREM FirstFailure == Spec => []FirstFailureIsReal
<1>1. Init => TypeInv /\ BranchInv
  BY TypeInit DEF Init, BranchInv
<1>2. TypeInv /\ BranchInv /\ [Next]_vars => TypeInv' /\ BranchInv'
  BY TypeNext, BranchNext
<1>3. BranchInv => FirstFailureIsReal
  BY DEF BranchInv, CancelledBehind, FirstFailureIsReal
<1> QED BY <1>1, <1>2, <1>3, PTL DEF Spec

----------------------------------------------------------------------------
(* The pack evaluation and the quality report, in packs with one sink.     *)

LEMMA SinkIsStep == Len(Order) \in Nat \ {0} /\ DOMAIN Order = 1..Len(Order) /\ Sink \in Step
<1>1. Order \in Seq(Step) /\ Len(Order) \in Nat /\ DOMAIN Order = 1..Len(Order)
  BY WorkflowRunnerAssumption
<1>2. \E k \in DOMAIN Order : Order[k] = FinalStep
  BY WorkflowRunnerAssumption
<1>3. Len(Order) \in DOMAIN Order
  BY <1>1, <1>2
<1> QED BY <1>1, <1>3 DEF Sink

\* What is closed stays closed, and is never completed again.
LEMMA ClosedStays ==
    ASSUME LineageInv, [Next]_vars, NEW a \in DOMAIN attempts,
           attempts[a].status \notin OpenAttempt
    PROVE  /\ attempts'[a].step = attempts[a].step
           /\ attempts'[a].status \notin OpenAttempt
           /\ attempts'[a].status = "completed" => attempts[a].status = "completed"
<1>a. TypeInv /\ EvidenceInv /\ EvidenceInv'
  BY EvidenceNext DEF LineageInv, EvidenceInv
<1>1. CASE SameCheckpoints
  BY <1>1 DEF SameCheckpoints
<1>2. CASE PrepareStep
  BY <1>a, <1>1, <1>2, LineagePrepare
<1>3. CASE Checkpoint
  <2>1. pos \in DOMAIN batch /\ pc \in Batching
    BY <1>a, <1>3 DEF Checkpoint, TypeInv, References, Batching
  <2>2. attempts[Current].status = "running"
    BY <1>a, <2>1 DEF EvidenceInv, BatchInv, Current, TypeInv, TypeOK
  <2>3. attempts'[a] = attempts[a]
    BY <1>a, <1>3, <2>2 DEF Checkpoint, OpenAttempt, TypeInv, TypeOK
  <2> QED BY <2>3
<1>4. CASE Invalidate
  BY <1>a, <1>4, InvalidateRows DEF OpenAttempt
<1> QED BY <1>a, <1>1, <1>2, <1>3, <1>4, Rows

\* Only Damage damages an artifact.
LEMMA UndamagedNext ==
    ASSUME TypeInv, MaxDamage = 0, Undamaged, [Next]_vars
    PROVE  Undamaged'
<1> USE DEF durableVars, localVars
<1>a. attempts \in Seq(Attempt) /\ Len(attempts) \in Nat /\ DOMAIN attempts = 1..Len(attempts)
  BY LenProperties DEF TypeInv, TypeOK
<1>b. \A a \in DOMAIN attempts : attempts[a] \in Attempt /\ ~attempts[a].damaged
  BY <1>a DEF Undamaged
<1>1. ASSUME UNCHANGED attempts PROVE Undamaged'
  BY <1>1 DEF Undamaged
<1>2. \A b \in DOMAIN attempts : \A s \in {"failed", "cancelled"} :
         ~CloseAs(attempts[b], s).damaged
  BY <1>b DEF CloseAs, Attempt
<1>3. ASSUME NEW a, NEW x, attempts' = [attempts EXCEPT ![a] = x],
             a \in DOMAIN attempts => ~x.damaged
      PROVE  Undamaged'
  BY <1>a, <1>b, <1>3 DEF Undamaged
<1>4. CASE Reclose \/ CloseRun \/ CompleteRun
  BY <1>2, <1>4 DEF Reclose, CloseRun, CompleteRun, AllClosed, Undamaged
<1>5. CASE AbortBatch
  BY <1>b, <1>2, <1>5 DEF AbortBatch, Undamaged
<1>6. CASE FailRun
  BY <1>2, <1>3, <1>6 DEF FailRun
<1>7. CASE Invalidate
  <2>1. \A b \in DOMAIN attempts : ~[attempts[b] EXCEPT !.status = "cancelled"].damaged
    BY <1>b DEF Attempt
  <2>2. DOMAIN attempts' = DOMAIN attempts
        /\ \A b \in DOMAIN attempts :
              attempts'[b] \in {attempts[b], [attempts[b] EXCEPT !.status = "cancelled"]}
    BY <1>7 DEF Invalidate
  <2> QED BY <1>b, <2>1, <2>2 DEF Undamaged
<1>8. ASSUME NEW a \in DOMAIN attempts, Approve(a) PROVE Undamaged'
  <2>1. ~[attempts[a] EXCEPT !.job = "approved"].damaged
    BY <1>b DEF Attempt
  <2> QED BY <1>3, <1>8, <2>1 DEF Approve
<1>9. ASSUME NEW a \in DOMAIN attempts, Damage(a) PROVE FALSE
  BY <1>9 DEF Damage, TypeInv, TypeOK
<1>10. CASE RecordRuntimeState
  <2> DEFINE a == Len(attempts)
  <2>1. a \in DOMAIN attempts => ~[attempts[a] EXCEPT !.job = "required"].damaged
    BY <1>b DEF Attempt
  <2> QED BY <1>3, <1>10, <2>1 DEF RecordRuntimeState
<1>11. CASE PrepareStep
  <2> DEFINE s == First(todo)
             a == Latest(Attempts(s))
             F == [d \in Step |-> IF d \in DependsOn[s] THEN done[d] ELSE 0]
             x == [attempts[a] EXCEPT !.status = "running", !.from = F]
  <2>1. a \in DOMAIN attempts => ~x.damaged
    BY <1>b DEF Attempt
  <2>2. UNCHANGED attempts \/ attempts' = [attempts EXCEPT ![a] = x]
    BY <1>11 DEF PrepareStep
  <2> HIDE DEF x, a
  <2> QED BY <1>1, <1>3, <2>1, <2>2
<1>12. CASE CommitEvidence
  <2> DEFINE s == attempts[Current].step
             x == [attempts[Current] EXCEPT !.evals = IF s \in Bare THEN @ ELSE @ + 1]
  <2>1. Current \in DOMAIN attempts => ~x.damaged
    BY <1>b DEF Attempt
  <2>2. attempts' = [attempts EXCEPT ![Current] = x] \/ attempts' = attempts
    BY <1>12 DEF CommitEvidence
  <2> HIDE DEF x
  <2> QED BY <1>1, <1>3, <2>1, <2>2
<1>13. CASE WriteHandoff
  <2> DEFINE x == [attempts[Current] EXCEPT !.handoffs[First(todo)] = @ + 1]
  <2>1. Current \in DOMAIN attempts => ~x.damaged
    BY <1>b DEF Attempt
  <2>2. attempts' = [attempts EXCEPT ![Current] = x]
    BY <1>13 DEF WriteHandoff
  <2> HIDE DEF x
  <2> QED BY <1>3, <2>1, <2>2
<1>14. CASE CompleteJob
  <2> DEFINE x == [attempts[Current] EXCEPT !.job = IF @ = "approved" THEN "completed" ELSE @]
  <2>1. Current \in DOMAIN attempts => ~x.damaged
    BY <1>b DEF Attempt
  <2>2. attempts' = [attempts EXCEPT ![Current] = x]
    BY <1>14 DEF CompleteJob
  <2> HIDE DEF x
  <2> QED BY <1>3, <2>1, <2>2
<1>15. CASE Checkpoint
  <2> DEFINE x == [attempts[Current] EXCEPT !.status = "completed"]
  <2>1. Current \in DOMAIN attempts => ~x.damaged
    BY <1>b DEF Attempt
  <2>2. attempts' = [attempts EXCEPT ![Current] = x]
    BY <1>15 DEF Checkpoint
  <2> HIDE DEF x
  <2> QED BY <1>3, <2>1, <2>2
<1>16. CASE StartAttempt
  <2> DEFINE x == NewAttempt(First(todo))
  <2>1. ~x.damaged
    BY DEF NewAttempt
  <2>2. attempts' = Append(attempts, x)
    BY <1>16 DEF StartAttempt
  <2> HIDE DEF x
  <2> QED BY <1>a, <1>b, <2>1, <2>2 DEF Undamaged
<1>17. CASE Begin \/ Requeue \/ Interrupt \/ LoadState \/ PickReady \/ PrepareFails \/ WaitRun
            \/ SubmitBatch \/ BatchEnds \/ BatchFailed \/ BatchCommitted \/ EvaluatePack
  BY <1>17, <1>1 DEF Begin, Requeue, Interrupt, LoadState, PickReady, PrepareFails, WaitRun,
       SubmitBatch, BatchEnds, BatchFailed, BatchCommitted, EvaluatePack
<1>18. ASSUME NEW i, BranchStarts(i) \/ BranchEnds(i) \/ CollectError(i) \/ CollectOk(i)
       PROVE  Undamaged'
  BY <1>18, <1>1 DEF BranchStarts, BranchEnds, SetBranch, CollectError, CollectOk
<1>19. CASE UNCHANGED vars
  BY <1>19, <1>1 DEF vars
<1> QED BY <1>4, <1>5, <1>6, <1>7, <1>8, <1>9, <1>10, <1>11, <1>12, <1>13, <1>14, <1>15, <1>16,
           <1>17, <1>18, <1>19 DEF Next, RunnerStep

\* A flat pack is executed in sequence, also across crashes: recovery keeps every
\* checkpoint of the steps that were completed.
LEMMA FlatNext ==
    ASSUME FlatIntact, LineageInv, FlatInv, [Next]_vars
    PROVE  FlatInv'
<1>a. TypeInv /\ RunningWhileWorking /\ EvidenceInv /\ EvidenceInv' /\ LineageInv'
  BY EvidenceNext, LineageNext DEF LineageInv, EvidenceInv
<1>b. \A k \in 2..Len(Order) : Order[k] \in Step /\ Order[k - 1] \in Step
  <2>1. Order \in Seq(Step) /\ Len(Order) \in Nat
    BY WorkflowRunnerAssumption
  <2> QED BY <2>1
<1>c. \A i \in DOMAIN batch : batch[i] \in DOMAIN attempts
  BY <1>a DEF TypeInv, TypeOK
<1>d. Undamaged'
  BY <1>a, UndamagedNext DEF FlatInv, FlatIntact
<1>1. ASSUME SameCheckpoints PROVE InSequence'
  <2>1. \A s \in Step : Completed(s)' = Completed(s)
    BY <1>1, KeptCheckpoints
  <2> QED BY <1>b, <2>1 DEF FlatInv, InSequence
<1>2. CASE SameCheckpoints /\ Moves
  <2>1. ASSUME pc' \in Batching, NEW i \in DOMAIN batch', Uncommitted(i)'
        PROVE  PredecessorDone(attempts[batch[i]].step)'
    <3>1. CASE PickReady
      BY <2>1, <3>1 DEF PickReady
    <3>2. CASE pc \in Batching /\ UNCHANGED <<batch, done>> /\ Uncommitted(i)
      <4>1. PredecessorDone(attempts[batch[i]].step)
        BY <2>1, <3>2 DEF FlatInv
      <4>2. attempts'[batch'[i]].step = attempts[batch[i]].step
        BY <1>2, <1>c, <2>1, <3>2 DEF SameCheckpoints
      <4> QED BY <3>2, <4>1, <4>2 DEF PredecessorDone
    <3> QED BY <1>2, <2>1, <3>1, <3>2 DEF Moves
  <2> QED BY <1>d, <1>1, <1>2, <2>1 DEF FlatInv
<1>3. CASE PrepareStep
  <2> DEFINE s == First(todo)
             a == Latest(Attempts(s))
  <2>1. SameCheckpoints
    BY <1>a, <1>3, LineagePrepare
  <2>2. /\ pc \in Batching /\ UNCHANGED done /\ \A i : Uncommitted(i)
        /\ \/ UNCHANGED batch
           \/ batch' = Append(batch, a) /\ HandoffsPresent(attempts[a].step)
    BY <1>3 DEF PrepareStep, Batching, Uncommitted, CannotRun
  <2>3. \A i \in DOMAIN batch : PredecessorDone(attempts'[batch[i]].step)
    BY <1>c, <2>1, <2>2 DEF FlatInv, SameCheckpoints
  <2>4. ASSUME HandoffsPresent(attempts[a].step) PROVE PredecessorDone(attempts[a].step)
    <3> SUFFICES ASSUME NEW k \in 2..Len(Order), Order[k] = attempts[a].step
                 PROVE  done[Order[k - 1]] # 0
      BY DEF PredecessorDone
    <3>1. k \in DOMAIN Order /\ k > 1 /\ ~Explicit
      BY SinkIsStep DEF FlatIntact
    <3>2. Order[k] \in NextSteps(Order[k - 1])
      BY <3>1, NextStepsFrozen
    <3> QED BY <1>b, <2>4, <3>2 DEF HandoffsPresent, Upstream
  <2>5. a \in DOMAIN attempts
    <3>1. /\ attempts \in Seq(Attempt) /\ Len(attempts) \in Nat
          /\ DOMAIN attempts = 1..Len(attempts)
      BY <1>a, LenProperties DEF TypeInv, TypeOK
    <3>2. Attempts(s) # {} /\ Attempts(s) \subseteq 1..Len(attempts)
      BY <1>3, <3>1 DEF PrepareStep, NeedsAttempt, Attempts
    <3>3. a \in Attempts(s)
      BY <3>1, <3>2, LatestIsMember
    <3> QED BY <3>3 DEF Attempts
  <2> HIDE DEF a, s
  <2>6. \A i \in DOMAIN batch' : PredecessorDone(attempts'[batch'[i]].step)
    <3>1. CASE UNCHANGED batch
      BY <2>3, <3>1
    <3>2. CASE batch' = Append(batch, a) /\ HandoffsPresent(attempts[a].step)
      <4>1. batch \in Seq(DOMAIN attempts)
        BY <1>a DEF TypeInv, TypeOK
      <4>2. \A i \in DOMAIN batch' : (i \in DOMAIN batch /\ batch'[i] = batch[i]) \/ batch'[i] = a
        BY <2>5, <3>2, <4>1
      <4>3. attempts'[a].step = attempts[a].step
        BY <2>1, <2>5 DEF SameCheckpoints
      <4> QED BY <2>3, <2>4, <3>2, <4>2, <4>3
    <3> QED BY <2>2, <3>1, <3>2
  <2>7. \A i \in DOMAIN batch' : PredecessorDone(attempts[batch[i]].step)'
    BY <2>2, <2>6 DEF PredecessorDone
  <2> QED BY <1>d, <1>1, <2>1, <2>7 DEF FlatInv
<1>4. CASE Checkpoint
  <2> DEFINE s == attempts[Current].step
             x == [attempts[Current] EXCEPT !.status = "completed"]
  <2>1. /\ pos \in DOMAIN batch /\ pc \in Batching \cap Working /\ Current = batch[pos]
        /\ Current \in DOMAIN attempts /\ attempts[Current] \in Attempt /\ pos \in Nat
    BY <1>a, <1>4 DEF Checkpoint, TypeInv, TypeOK, References, Batching, Working, Current
  <2>2. s \in Step /\ x.step = s /\ x.status = "completed" /\ Current # 0
    BY <1>a, <2>1 DEF Attempt, TypeInv, TypeOK
  <2>3. /\ DOMAIN attempts' = DOMAIN attempts
        /\ \A b \in DOMAIN attempts : attempts'[b] = IF b = Current THEN x ELSE attempts[b]
        /\ \A t \in Step : done'[t] = IF t = s THEN Current ELSE done[t]
        /\ pos' = pos + 1 /\ pc' = "commit" /\ UNCHANGED batch
    BY <1>a, <1>4 DEF Checkpoint, TypeInv, TypeOK
  <2> HIDE DEF x
  <2>4. \A t \in Step : Completed(t)' = IF t = s THEN Completed(t) \cup {Current} ELSE Completed(t)
    BY <2>1, <2>2, <2>3 DEF Completed, Attempts
  <2>5. PredecessorDone(s)
    <3>1. Uncommitted(pos)
      BY <2>1 DEF Uncommitted
    <3> QED BY <2>1, <3>1 DEF FlatInv
  <2>6. Tracks
    BY <1>a, <2>1 DEF LineageInv
  <2>7. ASSUME NEW k \in 2..Len(Order), Completed(Order[k])' # {}
        PROVE  Completed(Order[k - 1])' # {}
    <3>1. CASE Order[k] = s
      <4>1. done[Order[k - 1]] # 0
        BY <2>5, <3>1 DEF PredecessorDone
      <4>2. Completed(Order[k - 1]) # {}
        BY <1>b, <2>6, <4>1 DEF Tracks
      <4> QED BY <1>b, <2>4, <4>2
    <3>2. CASE Order[k] # s
      <4>1. Completed(Order[k - 1]) # {}
        BY <1>b, <2>4, <2>7, <3>2 DEF FlatInv, InSequence
      <4> QED BY <1>b, <2>4, <4>1
    <3> QED BY <3>1, <3>2
  <2>8. ASSUME NEW i \in DOMAIN batch', Uncommitted(i)'
        PROVE  PredecessorDone(attempts[batch[i]].step)'
    <3>1. i \in DOMAIN batch /\ i \in Nat /\ i >= pos
      BY <1>a, <2>1, <2>3, <2>8 DEF Uncommitted, TypeInv, TypeOK
    <3>2. PredecessorDone(attempts[batch[i]].step)
      BY <2>1, <3>1 DEF FlatInv, Uncommitted
    <3>3. attempts'[batch'[i]].step = attempts[batch[i]].step
      BY <1>c, <2>2, <2>3, <3>1
    <3> QED BY <1>b, <2>2, <2>3, <3>2, <3>3 DEF PredecessorDone
  <2> QED BY <1>d, <2>7, <2>8 DEF FlatInv, InSequence
<1>5. CASE Invalidate
  <2> DEFINE C == Completed(pack.order[pos])
  <2>0. ASSUME NEW a \in C PROVE Agrees(pack, attempts[a].step)
    <3>1. attempts[a] \in Attempt /\ attempts[a].step = pack.order[pos] /\ pos \in DOMAIN pack.order
      BY <1>a, <1>5, <2>0, InvalidateRows DEF Completed, Attempts, TypeInv, TypeOK
    <3>2. pack.order[pos] \in Step
      BY <3>1 DEF Attempt
    <3>3. CASE pack = Frozen
      BY <3>3, FrozenAgrees
    <3>4. CASE pack \in Editions
      BY <3>1, <3>2, <3>4 DEF FlatIntact, Unedited
    <3> QED BY <1>a, <3>3, <3>4 DEF TypeInv, TypeOK
  <2>1. \A a \in C : ~Lost(a)
    <3>1. attempts \in Seq(Attempt)
      BY <1>a DEF TypeInv, TypeOK
    <3>2. \A a \in DOMAIN attempts : attempts[a] \in Attempt
      BY <3>1
    <3>3. \A a \in DOMAIN attempts : attempts[a].step \in Step
      BY <3>2 DEF Attempt
    <3>4. C \subseteq DOMAIN attempts
      BY DEF Completed, Attempts
    <3> QED BY <2>0, <3>3, <3>4 DEF Lost, FlatInv, Undamaged, FlatIntact, Explicit
  <2>2. DOMAIN attempts' = DOMAIN attempts
        /\ \A b \in DOMAIN attempts : attempts'[b].step = attempts[b].step
    BY <1>a, <1>5, InvalidateRows
  <2>3. \A b \in DOMAIN attempts : attempts[b].status = "completed" =>
                                      attempts'[b].status = "completed"
    <3>1. \A b \in DOMAIN attempts \ C : attempts'[b].status = attempts[b].status
      BY <1>a, <1>5, InvalidateRows
    <3> QED BY <2>1, <3>1, GivenUpIsLost
  <2>4. \A b \in DOMAIN attempts : attempts'[b].status = "completed" =>
                                      attempts[b].status = "completed"
    BY <1>a, <1>5, InvalidateRows
  <2>5. \A s \in Step : Completed(s)' = Completed(s)
    BY <2>2, <2>3, <2>4 DEF Completed, Attempts
  <2>6. InSequence'
    BY <1>b, <2>5 DEF FlatInv, InSequence
  <2>7. pc' \notin Batching
    BY <1>5 DEF Invalidate, Batching
  <2> QED BY <1>d, <2>6, <2>7 DEF FlatInv
<1> QED BY <1>a, <1>2, <1>3, <1>4, <1>5, Rows, Control

LEMMA SinkInit == Init => SinkInv
<1> SUFFICES ASSUME Init PROVE SinkInv
  OBVIOUS
<1>1. FlatInv
  BY SinkIsStep DEF Init, FlatInv, Undamaged, InSequence, Completed, Attempts, Batching
<1> QED BY <1>1, LineageInit DEF Init, SinkInv, EvalInv, PackEvalOnce, Working

\* When every step is done, the last attempt completed is the sink's.
LEMMA LastNext ==
    ASSUME SingleSink \/ FlatIntact, SinkInv, [Next]_vars, pc' \in Working, AllDone'
    PROVE  last' = done'[Sink]
<1>a. LineageInv /\ LineageInv' /\ TypeInv /\ RunningWhileWorking
  BY LineageNext DEF SinkInv, LineageInv, EvidenceInv
<1>b. Len(Order) \in Nat \ {0} /\ DOMAIN Order = 1..Len(Order) /\ Sink \in Step
  BY SinkIsStep
<1>c. \A s \in Step : done'[s] # 0
  BY DEF AllDone
<1>1. CASE pc \in Working /\ UNCHANGED <<done, last>>
  BY <1>1 DEF SinkInv, AllDone
<1>2. CASE PrepareStep
  BY <1>1, <1>2 DEF PrepareStep, Working
<1>3. CASE Invalidate
  BY <1>3 DEF Invalidate, Working
<1>4. CASE LoadState
  <2> DEFINE I == {m \in DOMAIN Order : Completed(Order[m]) # {}}
             k == Latest(I)
             n == Len(Order)
  <2>1. /\ done' = [s \in Step |-> Latest(Completed(s))]
        /\ last' = IF k = 0 THEN 0 ELSE Latest(Completed(Order[k]))
    BY <1>4 DEF LoadState
  <2>2. Completed(Sink) # {}
    BY <1>b, <1>c, <2>1 DEF Latest
  <2>3. n \in I /\ I \in SUBSET (1..n) /\ n \in Nat
    BY <1>b, <2>2 DEF Sink
  <2>4. k = n
    <3> HIDE DEF I, n
    <3>1. \A j \in I : j <= n
      BY <2>3
    <3>2. \E i \in I : \A j \in I : j <= i
      BY <2>3, <3>1
    <3>3. k \in I /\ \A j \in I : j <= k
      BY <2>3, <3>2 DEF Latest
    <3>4. k \in 1..n /\ n <= k /\ n \in Nat
      BY <2>3, <3>3
    <3> HIDE DEF k
    <3> QED BY <3>4
  <2> QED BY <1>b, <2>1, <2>4 DEF Sink
<1>5. CASE Checkpoint
  <2> DEFINE s == attempts[Current].step
  <2>1. /\ pos \in DOMAIN batch /\ pc \in Batching /\ Current = batch[pos]
        /\ Current \in DOMAIN attempts /\ attempts[Current] \in Attempt
    BY <1>a, <1>5 DEF Checkpoint, TypeInv, TypeOK, References, Batching, Current
  <2>2. s \in Step /\ done[s] = 0 /\ \A d \in DependsOn[s] : done[d] # 0
    <3>1. s \in Step
      BY <2>1 DEF Attempt
    <3>2. Uncommitted(pos) /\ BatchLineage
      BY <1>a, <2>1 DEF Uncommitted, LineageInv, TypeInv, TypeOK
    <3> QED BY <2>1, <3>1, <3>2 DEF BatchLineage, UpToDate, Pending
  <2>3. DOMAIN done = Step /\ done' = [done EXCEPT ![s] = Current] /\ last' = Current
    BY <1>a, <1>5 DEF Checkpoint, TypeInv, TypeOK
  <2>4. s = Sink
    <3>1. SUFFICES ASSUME s # Sink PROVE FALSE
      OBVIOUS
    <3>2. PICK k \in DOMAIN Order : Order[k] = s
      BY <2>2, WorkflowRunnerAssumption
    <3>3. k \in 1..(Len(Order) - 1)
      BY <1>b, <3>1, <3>2 DEF Sink
    <3>4. Linked /\ Tracks
      BY <1>a, <1>5 DEF LineageInv, Checkpoint, Working
    <3>5. CASE SingleSink
      <4>1. PICK t \in Step : s \in DependsOn[t]
        BY <3>2, <3>3, <3>5 DEF SingleSink, Dependents
      <4>2. s \notin DependsOn[s]
        BY <2>2
      <4>3. t # s
        BY <4>1, <4>2
      <4>4. done[t] # 0
        BY <1>c, <2>3, <4>3
      <4> QED BY <2>2, <3>4, <4>1, <4>4 DEF Linked
    <3>6. CASE FlatIntact
      <4>1. k + 1 \in 2..Len(Order) /\ k + 1 \in DOMAIN Order /\ k + 1 # k /\ (k + 1) - 1 = k
        BY <1>b, <3>3
      <4>2. Order[k + 1] # s /\ Order[k + 1] \in Step
        BY <3>2, <4>1, WorkflowRunnerAssumption
      <4>3. done[Order[k + 1]] # 0
        BY <1>c, <2>3, <4>2
      <4>4. Completed(Order[k + 1]) # {} /\ Completed(s) = {}
        BY <2>2, <3>4, <4>2, <4>3 DEF Tracks
      <4> QED BY <3>2, <3>6, <4>1, <4>4 DEF SinkInv, FlatInv, InSequence
    <3> QED BY <3>5, <3>6
  <2> QED BY <2>2, <2>3, <2>4
<1> QED BY <1>a, <1>1, <1>2, <1>3, <1>4, <1>5, Control DEF Moves

LEMMA EvalNext ==
    ASSUME SinkInv, [Next]_vars
    PROVE  EvalInv' /\ (EvaluatePack /\ pc' = "complete" => Released(last)')
<1>a. LineageInv /\ TypeInv /\ RunningWhileWorking /\ EvalInv /\ TypeInv'
  BY TypeNext DEF SinkInv, LineageInv, EvidenceInv
<1>b. packEvals \in Seq(DOMAIN attempts) /\ Len(packEvals) \in Nat
      /\ DOMAIN packEvals = 1..Len(packEvals)
      /\ \A i \in DOMAIN packEvals : packEvals[i] \in DOMAIN attempts
  BY <1>a, LenProperties DEF TypeInv, TypeOK
<1>c. \A i \in DOMAIN packEvals :
         /\ attempts'[packEvals[i]].step = Sink
         /\ attempts'[packEvals[i]].status \notin OpenAttempt
         /\ attempts'[packEvals[i]].status = "completed" => attempts[packEvals[i]].status = "completed"
  BY <1>a, <1>b, ClosedStays DEF EvalInv
<1>1. CASE UNCHANGED packEvals /\ ~EvaluatePack
  BY <1>a, <1>c, <1>1 DEF EvalInv, PackEvalOnce
<1>2. CASE EvaluatePack
  <2>1. /\ pc = "loop" /\ AllDone /\ UNCHANGED attempts
        /\ packEvals' = IF Bound(last) = {} THEN Append(packEvals, last) ELSE packEvals
        /\ pc' = "complete" => last' = last /\ last \notin PackBlocks
    BY <1>2 DEF EvaluatePack, AllDone, Incomplete, Fail
  <2>2. last = done[Sink] /\ Completed(Sink) = {last} /\ last # 0
    BY <1>a, <2>1, SinkIsStep DEF SinkInv, LineageInv, Working, AllDone, Tracks
  <2>3. last \in DOMAIN attempts /\ attempts[last].step = Sink /\ attempts[last].status = "completed"
    BY <2>2 DEF Completed, Attempts
  <2>4. CASE Bound(last) # {}
    <3>1. packEvals' = packEvals
      BY <2>1, <2>4
    <3>2. EvalInv'
      BY <1>a, <2>1, <3>1 DEF EvalInv, PackEvalOnce
    <3>3. PICK i \in DOMAIN packEvals : packEvals[i] = last
      BY <2>4 DEF Bound
    <3>4. Bound(last) = {i}
      BY <1>a, <3>3 DEF EvalInv, Bound
    <3> QED BY <2>1, <3>1, <3>2, <3>4 DEF Released, Bound
  <2>5. CASE Bound(last) = {}
    <3> DEFINE n == Len(packEvals) + 1
    <3>1. packEvals' = Append(packEvals, last)
      BY <2>1, <2>5
    <3>2. /\ DOMAIN packEvals' = DOMAIN packEvals \cup {n} /\ packEvals'[n] = last
          /\ \A i \in DOMAIN packEvals : packEvals'[i] = packEvals[i] /\ i # n /\ i < n
      BY <1>b, <2>3, <3>1
    <3>3. \A i \in DOMAIN packEvals : packEvals[i] # last /\ packEvals[i] \in DOMAIN attempts
      BY <1>b, <2>5 DEF Bound
    <3>4. \A i \in DOMAIN packEvals : attempts[packEvals[i]].status # "completed"
      BY <1>a, <2>2, <3>3 DEF EvalInv, Completed, Attempts
    <3> HIDE DEF n
    <3>5. \A i \in DOMAIN packEvals' : /\ attempts'[packEvals'[i]].step = Sink
                                       /\ attempts'[packEvals'[i]].status \notin OpenAttempt
      BY <1>a, <2>1, <2>3, <3>2 DEF EvalInv, OpenAttempt
    <3>6. \A i, k \in DOMAIN packEvals' : packEvals'[i] = packEvals'[k] => i = k
      BY <1>a, <3>2, <3>3 DEF EvalInv
    <3>7. n \in Nat /\ DOMAIN packEvals \subseteq Nat
      BY <1>b DEF n
    <3>8. PackEvalOnce'
      <4> SUFFICES ASSUME NEW i \in DOMAIN packEvals', NEW k \in DOMAIN packEvals', i < k
                   PROVE  attempts[packEvals'[i]].status # "completed"
        BY <2>1 DEF PackEvalOnce
      <4>1. i # n
        BY <3>2, <3>7
      <4> QED BY <3>2, <3>4, <4>1
    <3>9. {i \in DOMAIN packEvals' : packEvals'[i] = last} = {n}
      BY <3>2, <3>3
    <3> QED BY <2>1, <3>2, <3>5, <3>6, <3>8, <3>9 DEF EvalInv, Released, Bound
  <2> QED BY <2>4, <2>5
<1>3. UNCHANGED packEvals \/ EvaluatePack
  BY <1>a, Control DEF Moves, Invalidate, Checkpoint, PrepareStep
<1> QED BY <1>1, <1>2, <1>3

LEMMA SinkNext ==
    ASSUME SingleSink \/ FlatIntact
    PROVE  SinkInv /\ [Next]_vars => SinkInv'
<1> SUFFICES ASSUME SinkInv, [Next]_vars PROVE SinkInv'
  OBVIOUS
<1>a. LineageInv /\ LineageInv' /\ TypeInv /\ RunningWhileWorking /\ EvidenceInv /\ EvidenceInv'
  BY LineageNext, EvidenceNext DEF SinkInv, LineageInv, EvidenceInv
<1>b. FlatIntact => FlatInv'
  BY <1>a, FlatNext DEF SinkInv
<1>1. pc' \in Working /\ AllDone' => last' = done'[Sink]
  BY LastNext
<1>2. EvalInv'
  BY EvalNext
<1>3. pc' = "complete" => Released(last)'
  <2>1. CASE EvaluatePack
    BY <2>1, EvalNext
  <2>2. CASE pc = "complete" /\ UNCHANGED <<done, last, packEvals>>
    BY <2>2 DEF SinkInv, Released, Bound
  <2>3. CASE Invalidate \/ Checkpoint \/ PrepareStep
    BY <2>3 DEF Invalidate, Checkpoint, PrepareStep
  <2> QED BY <1>a, <2>1, <2>2, <2>3, Control DEF Moves
<1>4. run' = "completed" => \A a \in Completed(Sink)' : Released(a)'
  <2>1. CASE Invalidate \/ Checkpoint \/ PrepareStep
    BY <1>a, <2>1 DEF Invalidate, Checkpoint, PrepareStep, RunningWhileWorking
  <2>2. CASE SameCheckpoints /\ Moves
    <3>1. Completed(Sink)' = Completed(Sink)
      <4>1. \A s \in Step : Completed(s)' = Completed(s)
        BY <2>2, KeptCheckpoints
      <4>2. Sink' = Sink
        BY DEF Sink
      <4> QED BY <4>1, <4>2, SinkIsStep
    <3>2. CASE run = "completed" /\ UNCHANGED packEvals
      BY <3>1, <3>2 DEF SinkInv, Released, Bound
    <3>3. CASE CompleteRun
      <4>1. pc = "complete" /\ UNCHANGED packEvals
        BY <3>3 DEF CompleteRun
      <4>2. Completed(Sink) = {last} /\ Released(last)
        BY <4>1, SinkIsStep DEF SinkInv, LineageInv, Working, AllDone, Tracks
      <4> QED BY <3>1, <4>1, <4>2 DEF Released, Bound
    <3> QED BY <2>2, <3>2, <3>3 DEF Moves
  <2> QED BY <1>a, <2>1, <2>2, Rows, Control
<1> QED BY <1>a, <1>b, <1>1, <1>2, <1>3, <1>4 DEF SinkInv

LEMMA QualityOfCompleted ==
    ASSUME SinkInv
    PROVE  QualityFollows
<1> SUFFICES ASSUME run = "completed"
             PROVE  QualityPassed <=> \A s \in Step : \A a \in Completed(s) :
                                          s \notin Bare /\ ~attempts[a].damaged
  BY DEF QualityFollows
<1>a. TypeInv /\ CheckpointComplete /\ OneCheckpoint /\ ConsistentLineage
  BY DEF SinkInv, LineageInv, EvidenceInv
<1>b. attempts \in Seq(Attempt) /\ DOMAIN attempts = 1..Len(attempts) /\ Len(attempts) \in Nat
  BY <1>a, LenProperties DEF TypeInv, TypeOK
<1> DEFINE c(s) == LatestCompleted(s)
<1>1. \A s \in Step : Completed(s) = {c(s)} /\ c(s) # 0 /\ c(s) \in DOMAIN attempts
                       /\ attempts[c(s)].step = s /\ attempts[c(s)].status = "completed"
  <2> SUFFICES ASSUME NEW s \in Step
               PROVE  Completed(s) = {c(s)} /\ c(s) # 0 /\ c(s) \in DOMAIN attempts
                      /\ attempts[c(s)].step = s /\ attempts[c(s)].status = "completed"
    OBVIOUS
  <2>1. Completed(s) # {}
    BY <1>a, FS_EmptySet DEF ConsistentLineage
  <2>2. Completed(s) \in SUBSET (1..Len(attempts))
    BY <1>b DEF Completed, Attempts
  <2>3. c(s) \in Completed(s)
    BY <1>b, <2>1, <2>2, LatestIsMember DEF LatestCompleted
  <2>4. Completed(s) = {c(s)}
    BY <1>a, <2>3 DEF OneCheckpoint
  <2> QED BY <1>b, <2>2, <2>3, <2>4 DEF Completed, Attempts
<1> HIDE DEF c
<1>2. \A s \in Step : LatestCompleted(s) = c(s)
  BY DEF c
<1>3. \A s \in Step : s \notin Bare => attempts[c(s)].evals = 1
  BY <1>a, <1>1 DEF CheckpointComplete
<1>4. PackEvalPassed(c(Sink))
  <2>1. Released(c(Sink))
    BY <1>1, SinkIsStep DEF SinkInv
  <2> QED BY <2>1, FS_Singleton DEF Released, PackEvalPassed
<1>5. final # 0 /\ final = c(FinalStep)
  BY <1>a, <1>1, WorkflowRunnerAssumption DEF ConsistentLineage
<1>6. ASSUME QualityPassed, NEW s \in Step, NEW a \in Completed(s)
      PROVE  s \notin Bare /\ ~attempts[a].damaged
  BY <1>1, <1>2, <1>6 DEF QualityPassed, StepQuality, ArtifactsVerified
<1>7. ASSUME \A s \in Step : \A a \in Completed(s) : s \notin Bare /\ ~attempts[a].damaged
      PROVE  QualityPassed
  <2>1. \A s \in Step : StepQuality(s)
    BY <1>1, <1>2, <1>3, <1>7 DEF StepQuality, StepEvalPassed
  <2>2. ArtifactsVerified
    BY <1>1, <1>2, <1>7 DEF ArtifactsVerified
  <2>3. PackEvalPassed(LatestCompleted(Order[Len(Order)]))
    BY <1>2, <1>4, SinkIsStep DEF Sink
  <2>4. final # 0 /\ final = LatestCompleted(FinalStep)
    BY <1>2, <1>5, WorkflowRunnerAssumption
  <2> QED BY <2>1, <2>2, <2>3, <2>4 DEF QualityPassed
<1> QED BY <1>6, <1>7

\* In a pack with one sink, and in a flat pack whose artifacts are intact and which
\* nobody edits, the pack is evaluated again only when the attempt an earlier result
\* is bound to no longer counts.
THEOREM PackEvaluatedOnce ==
    ASSUME SingleSink \/ FlatIntact
    PROVE  Spec => []PackEvalOnce
<1>1. SinkInv => PackEvalOnce
  BY DEF SinkInv, EvalInv
<1>2. SinkInv /\ [Next]_vars => SinkInv'
  BY SinkNext
<1> QED BY SinkInit, <1>1, <1>2, PTL DEF Spec

\* In a pack with one sink the quality report of a completed run passes exactly
\* when the artifacts of its checkpoints are there and intact, and in a flat pack
\* that nobody damages or edits it always passes: the evidence the report looks for was
\* recorded once and is bound to the attempts that count.  Without the hypothesis
\* this is false (run pack_eval_sinks).
THEOREM QualityOfRun ==
    ASSUME SingleSink \/ FlatIntact
    PROVE  Spec => []QualityFollows
<1>1. SinkInv => QualityFollows
  BY QualityOfCompleted
<1>2. SinkInv /\ [Next]_vars => SinkInv'
  BY SinkNext
<1> QED BY SinkInit, <1>1, <1>2, PTL DEF Spec
=============================================================================
