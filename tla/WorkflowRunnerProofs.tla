------------------------ MODULE WorkflowRunnerProofs ------------------------
(***************************************************************************)
(* Proofs about WorkflowRunner, for every pack: any graph of steps, any set *)
(* of approvals and failing steps, any number of interruptions and damaged *)
(* artifacts.                                                              *)
(***************************************************************************)
EXTENDS WorkflowRunner, SequenceTheorems, WellFoundedInduction, TLAPS

----------------------------------------------------------------------------
(* The invariants.                                                         *)

\* What the types rest on: the indices an action uses refer to rows.
References ==
    /\ pc \in {"handoffs", "checkpoint"} => pos \in DOMAIN batch
    /\ pc = "record" => Len(attempts) > 0
    /\ pc \in {"abort", "fail"} => failed # 0
    /\ (\E s \in Step : done[s] # 0) => last # 0
    /\ pc # "requeue" => pack = Frozen

TypeInv == TypeOK /\ References

\* A runner that works has a run that is running.
RunningWhileWorking ==
    /\ pc \notin {"idle", "close"} => run = "running"
    /\ pc = "close" => run = "failed"

\* The locations at which the attempts of the batch are on their way.
Batching == {"prepare", "record", "execute", "commit", "handoffs", "checkpoint"}

\* An open attempt of an approval step without a job is about to get it, or was
\* left by a crash and is closed before the run is executed again.
Unrecorded(a) ==
    \/ run = "running" /\ pc \in {"idle", "requeue"}
    \/ pc = "record" /\ a = Len(attempts)

JobOf(a) ==
    attempts[a].step \in Approval =>
        /\ attempts[a].status = "completed" => attempts[a].job = "completed"
        /\ attempts[a].status = "running" => attempts[a].job \in {"approved", "completed"}
        /\ attempts[a].status = "waiting" =>
              attempts[a].job \in {"required", "approved", "completed"} \/ Unrecorded(a)

JobsInv == \A a \in DOMAIN attempts : JobOf(a)

BatchJobs ==
    /\ pc \in Batching => \A i \in DOMAIN batch :
          attempts[batch[i]].step \in Approval =>
              attempts[batch[i]].job \in {"approved", "completed"}
    /\ pc = "checkpoint" => (attempts[Current].step \in Approval =>
                                attempts[Current].job = "completed")
    /\ pc = "record" =>
          /\ attempts[Len(attempts)].step \in Approval
          /\ attempts[Len(attempts)].status = "waiting"
          /\ attempts[Len(attempts)].job = "none"

ApprovalInv == TypeInv /\ RunningWhileWorking /\ JobsInv /\ BatchJobs

\* The attempt of the batch that is being committed.
Committing(a) == pc \in {"handoffs", "checkpoint"} /\ a = Current

\* While a runner executes steps, and before the next one does, an open attempt
\* carries no evidence yet, but for the one that is being committed.
Clean ==
    \/ pc \in Batching \cup {"invalidate", "loop", "complete"}
    \/ run \in {"queued", "waiting"}

Blank(a) == attempts[a].evals = 0 /\ attempts[a].handoffs = [t \in Step |-> 0]

Evaluated(a) == attempts[a].evals = IF attempts[a].step \in Bare THEN 0 ELSE 1

\* The members of the batch are distinct, and the ones not yet committed open.
BatchInv ==
    /\ \A i, k \in DOMAIN batch : batch[i] = batch[k] => i = k
    /\ \A i \in DOMAIN batch :
          /\ pc \in {"prepare", "record"} => attempts[batch[i]].step \notin todo
          /\ pc \in {"prepare", "record", "execute"} \/ i >= pos =>
                attempts[batch[i]].status = "running"

CommitInv ==
    /\ pc = "handoffs" =>
          /\ Evaluated(Current)
          /\ todo \subseteq NextSteps(attempts[Current].step)
          /\ attempts[Current].handoffs =
                [t \in Step |-> IF t \in NextSteps(attempts[Current].step) \ todo THEN 1 ELSE 0]
    /\ pc = "checkpoint" =>
          /\ Evaluated(Current)
          /\ attempts[Current].handoffs = Edges(attempts[Current].step)

OpenIsBlank ==
    Clean => \A a \in DOMAIN attempts :
        attempts[a].status \in OpenAttempt => Blank(a) \/ Committing(a)

EvidenceInv ==
    /\ TypeInv
    /\ RunningWhileWorking
    /\ CheckpointComplete
    /\ OpenIsBlank
    /\ pc \in Batching => BatchInv
    /\ CommitInv

----------------------------------------------------------------------------
(* Facts about the operators of the model.                                 *)

\* A non-empty set of naturals has a smallest element.
LEMMA SmallestElement ==
    ASSUME NEW T, T \subseteq Nat, T # {}
    PROVE  \E x \in T : \A y \in T : x <= y
<1>1. \E x \in T : \A y \in T : ~(<<y, x>> \in OpToRel(<, Nat))
  BY NatLessThanWellFounded, WFMin, Zenon
<1>2. \A x, y \in T : ~(<<y, x>> \in OpToRel(<, Nat)) => x <= y
  BY DEF OpToRel
<1> QED BY <1>1, <1>2

\* The latest of a non-empty set of attempts is one of them, and 0 stands for none.
LEMMA LatestIsMember ==
    ASSUME NEW n \in Nat, NEW I \in SUBSET (1..n)
    PROVE  Latest(I) \in I \cup {0} /\ (I # {} => Latest(I) \in I)
<1>1. CASE I = {}
  BY <1>1 DEF Latest
<1>2. CASE I # {}
  <2> DEFINE T == {n - i : i \in I}
  <2>1. T \subseteq Nat /\ T # {}
    <3>1. \A i \in I : n - i \in Nat
      OBVIOUS
    <3> QED BY <1>2, <3>1, Zenon
  <2>2. PICK x \in T : \A y \in T : x <= y
    <3> HIDE DEF T
    <3> QED BY <2>1, SmallestElement
  <2>3. PICK i \in I : x = n - i
    OBVIOUS
  <2>4. \A k \in I : k <= i
    <3>1. \A k \in I : n - i <= n - k
      BY <2>2, <2>3, Zenon
    <3> QED BY <3>1
  <2> QED BY <1>2, <2>4 DEF Latest
<1> QED BY <1>1, <1>2

\* A non-empty set of steps has a first one in plan order.
LEMMA FirstIsMember ==
    ASSUME NEW S \in SUBSET Step, S # {}
    PROVE  /\ First(S) \in S
           /\ \E k \in DOMAIN Order : /\ Order[k] = First(S)
                                      /\ \A m \in 1..(k - 1) : Order[m] \notin S
<1> DEFINE K == {k \in DOMAIN Order : Order[k] \in S}
<1>1. DOMAIN Order = 1..Len(Order) /\ Len(Order) \in Nat
  BY WorkflowRunnerAssumption, LenProperties
<1>2. K \subseteq Nat /\ K # {}
  BY <1>1, WorkflowRunnerAssumption
<1>3. PICK k \in K : \A m \in K : k <= m
  <2> HIDE DEF K
  <2> QED BY <1>2, SmallestElement
<1>4. \A m \in 1..(k - 1) : Order[m] \notin S
  BY <1>1, <1>3
<1> QED BY <1>3, <1>4 DEF First

\* Some step is ready as long as one is not completed.
LEMMA SomeReady ==
    ASSUME \E s \in Step : Incomplete(s)
    PROVE  Ready \subseteq Step /\ Ready # {}
<1> DEFINE S == {s \in Step : Incomplete(s)}
           s0 == First(S)
<1>1. S \in SUBSET Step /\ S # {}
  OBVIOUS
<1>2. s0 \in S
  BY <1>1, FirstIsMember
<1>3. PICK k \in DOMAIN Order : Order[k] = s0 /\ \A m \in 1..(k - 1) : Order[m] \notin S
  BY <1>1, FirstIsMember
<1>4. \A d \in DependsOn[s0] : d \in Step /\ \E m \in 1..(k - 1) : Order[m] = d
  BY <1>2, <1>3, WorkflowRunnerAssumption
<1>5. \A d \in DependsOn[s0] : ~Incomplete(d)
  BY <1>3, <1>4
<1> QED BY <1>2, <1>5 DEF Ready

\* A table with the rows of attempts replaced by well-formed rows.
LEMMA Replaced ==
    ASSUME attempts \in Seq(Attempt), NEW f \in [DOMAIN attempts -> Attempt]
    PROVE  f \in Seq(Attempt) /\ DOMAIN f = DOMAIN attempts /\ Len(f) = Len(attempts)
<1>1. DOMAIN attempts = 1..Len(attempts) /\ Len(attempts) \in Nat
  BY LenProperties
<1>2. f \in Seq(Attempt)
  BY <1>1, SeqDef
<1> QED BY <1>1, <1>2, LenProperties

LEMMA SeqMono ==
    ASSUME NEW S, NEW T, S \subseteq T, NEW q \in Seq(S)
    PROVE  q \in Seq(T)
<1>1. q \in [1..Len(q) -> S] /\ Len(q) \in Nat
  BY LenProperties
<1> QED BY <1>1, SeqDef

LEMMA CloseAsType ==
    ASSUME NEW x \in Attempt, NEW s \in {"failed", "cancelled"}
    PROVE  CloseAs(x, s) \in Attempt
BY DEF CloseAs, Attempt, OpenAttempt, OpenJob

LEMMA AllClosedType ==
    ASSUME attempts \in Seq(Attempt)
    PROVE  /\ AllClosed \in Seq(Attempt)
           /\ DOMAIN AllClosed = DOMAIN attempts
           /\ Len(AllClosed) = Len(attempts)
<1>1. \A a \in DOMAIN attempts : attempts[a] \in Attempt
  BY ElementOfSeq, LenProperties
<1>2. AllClosed \in [DOMAIN attempts -> Attempt]
  BY <1>1, CloseAsType DEF AllClosed
<1> QED BY <1>2, Replaced

LEMMA NewAttemptType ==
    ASSUME NEW s \in Step
    PROVE  NewAttempt(s) \in Attempt
BY DEF NewAttempt, Attempt, OpenAttempt, OpenJob

\* The steps that follow s in the frozen plan.
LEMMA NextStepsFrozen ==
    ASSUME NEW s
    PROVE  NextSteps(s) = IF Explicit THEN Dependents(s)
              ELSE {Order[k] : k \in {m \in DOMAIN Order : m > 1 /\ Order[m - 1] = s}}
BY WorkflowRunnerAssumption DEF NextSteps, NextStepsIn, Frozen, Explicit, Dependents

LEMMA NextStepsType ==
    ASSUME NEW s \in Step
    PROVE  NextSteps(s) \subseteq Step
BY WorkflowRunnerAssumption, NextStepsFrozen DEF Dependents

----------------------------------------------------------------------------
(* Type correctness.                                                       *)

LEMMA TypeInit == Init => TypeInv
<1> SUFFICES ASSUME Init PROVE TypeInv
  OBVIOUS
<1>1. 0 \in 0..MaxFaults /\ 0 \in 0..MaxDamage
  BY WorkflowRunnerAssumption
<1>2. branch \in [DOMAIN batch -> BranchState]
  BY DEF Init
<1> QED BY <1>1, <1>2 DEF Init, TypeInv, TypeOK, References, Pc

\* An action that keeps or replaces rows of attempts, and leaves the rest typed.
LEMMA SameTable ==
    ASSUME TypeOK, attempts' \in Seq(Attempt), DOMAIN attempts' = DOMAIN attempts
    PROVE  /\ packEvals \in Seq(DOMAIN attempts')
           /\ batch \in Seq(DOMAIN attempts')
           /\ final \in DOMAIN attempts' \cup {0}
           /\ done \in [Step -> DOMAIN attempts' \cup {0}]
           /\ last \in DOMAIN attempts' \cup {0}
           /\ failed \in DOMAIN attempts' \cup {0}
BY DEF TypeOK

\* One row is replaced by a well-formed one.
LEMMA OneReplaced ==
    ASSUME attempts \in Seq(Attempt), NEW a \in DOMAIN attempts, NEW x \in Attempt,
           NEW f, f = [attempts EXCEPT ![a] = x]
    PROVE  f \in Seq(Attempt) /\ DOMAIN f = DOMAIN attempts /\ Len(f) = Len(attempts)
<1>1. \A b \in DOMAIN attempts : attempts[b] \in Attempt
  BY ElementOfSeq, LenProperties
<1>2. f \in [DOMAIN attempts -> Attempt]
  BY <1>1
<1> QED BY <1>2, Replaced

LEMMA TypeNext == TypeInv /\ [Next]_vars => TypeInv'
<1> SUFFICES ASSUME TypeInv, [Next]_vars PROVE TypeInv'
  OBVIOUS
<1> USE DEF durableVars, localVars
<1>a. attempts \in Seq(Attempt) /\ Len(attempts) \in Nat /\ DOMAIN attempts = 1..Len(attempts)
  BY LenProperties DEF TypeInv, TypeOK
<1>b. batch \in Seq(DOMAIN attempts) /\ Len(batch) \in Nat /\ DOMAIN batch = 1..Len(batch)
  BY LenProperties DEF TypeInv, TypeOK
<1>c. \A a \in DOMAIN attempts : attempts[a] \in Attempt
  BY <1>a
<1>d. \A i \in DOMAIN batch : batch[i] \in DOMAIN attempts
  BY <1>b
<1>e. \A s : Attempts(s) \subseteq DOMAIN attempts /\ Completed(s) \subseteq DOMAIN attempts
  BY DEF Attempts, Completed
<1>f. \A s : /\ Latest(Attempts(s)) \in DOMAIN attempts \cup {0}
             /\ Latest(Completed(s)) \in DOMAIN attempts \cup {0}
             /\ Completed(s) # {} => Latest(Completed(s)) \in Completed(s)
             /\ Completed(s) = {} => Latest(Completed(s)) = 0
  <2> TAKE s
  <2>1. /\ Latest(Attempts(s)) \in Attempts(s) \cup {0}
        /\ Latest(Completed(s)) \in Completed(s) \cup {0}
        /\ Completed(s) # {} => Latest(Completed(s)) \in Completed(s)
    BY <1>a, <1>e, LatestIsMember
  <2>2. Completed(s) = {} => Latest(Completed(s)) = 0
    BY DEF Latest
  <2> QED BY <1>e, <2>1, <2>2
<1>g. ASSUME NEW l \in Pc \ {"handoffs", "checkpoint", "record", "abort", "fail"},
             NEW e \in Editions \cup {Frozen}, Enter(l, e), l # "requeue" => e = Frozen,
             attempts' \in Seq(Attempt), DOMAIN attempts' = DOMAIN attempts,
             UNCHANGED packEvals, final' \in DOMAIN attempts \cup {0},
             faults' \in 0..MaxFaults, damage' \in 0..MaxDamage,
             run' \in {"queued", "running", "waiting"} \cup Finished
      PROVE  TypeInv'
  <2>1. branch' \in [DOMAIN batch' -> BranchState]
    BY <1>g DEF Enter
  <2>2. batch' \in Seq(DOMAIN attempts')
    BY <1>g DEF Enter
  <2>3. packEvals' \in Seq(DOMAIN attempts')
    BY <1>g DEF TypeInv, TypeOK
  <2>4. done' \in [Step -> DOMAIN attempts' \cup {0}] /\ \A s \in Step : done'[s] = 0
    BY <1>g DEF Enter
  <2> QED BY <1>g, <2>1, <2>2, <2>3, <2>4 DEF Enter, TypeInv, TypeOK, References
<1>1. CASE Begin
  BY <1>1, <1>g, <1>a DEF Begin, Fresh, TypeInv, TypeOK, Pc
<1>2. CASE Requeue
  <2>1. PICK e \in Editions : Enter("requeue", e)
    BY <1>2 DEF Requeue
  <2> QED BY <1>2, <2>1, <1>g, <1>a DEF Requeue, TypeInv, TypeOK, Pc
<1>3. CASE Reclose
  BY <1>3, <1>g, <1>a, AllClosedType DEF Reclose, Fresh, TypeInv, TypeOK, Pc
<1>4. CASE Interrupt
  <2>1. faults' \in 0..MaxFaults
    <3>1. faults \in 0..MaxFaults /\ faults < MaxFaults /\ faults' = faults + 1
      BY <1>4 DEF Interrupt, TypeInv, TypeOK
    <3> QED BY <3>1, WorkflowRunnerAssumption
  <2> QED BY <1>4, <2>1, <1>g, <1>a DEF Interrupt, Fresh, TypeInv, TypeOK, Pc
<1>5. ASSUME NEW a \in DOMAIN attempts, Approve(a) PROVE TypeInv'
  <2> DEFINE x == [attempts[a] EXCEPT !.job = "approved"]
  <2>1. x \in Attempt
    BY <1>c, <1>5 DEF Attempt, OpenJob
  <2>2. /\ attempts' \in Seq(Attempt)
        /\ DOMAIN attempts' = DOMAIN attempts
        /\ Len(attempts') = Len(attempts)
    BY <1>a, <1>5, <2>1, OneReplaced DEF Approve
  <2> QED BY <1>5, <2>2, SameTable DEF Approve, TypeInv, TypeOK, References
<1>6. ASSUME NEW a \in DOMAIN attempts, Damage(a) PROVE TypeInv'
  <2> DEFINE x == [attempts[a] EXCEPT !.damaged = TRUE]
  <2>1. x \in Attempt
    BY <1>c, <1>6 DEF Attempt
  <2>2. /\ attempts' \in Seq(Attempt)
        /\ DOMAIN attempts' = DOMAIN attempts
        /\ Len(attempts') = Len(attempts)
    BY <1>a, <1>6, <2>1, OneReplaced DEF Damage
  <2>3. damage' \in 0..MaxDamage
    <3>1. damage \in 0..MaxDamage /\ damage < MaxDamage /\ damage' = damage + 1
      BY <1>6 DEF Damage, TypeInv, TypeOK
    <3> QED BY <3>1, WorkflowRunnerAssumption
  <2> QED BY <1>6, <2>2, <2>3, SameTable DEF Damage, TypeInv, TypeOK, References
<1>7. CASE Invalidate
  <2> DEFINE s == pack.order[pos]
             f == [b \in DOMAIN attempts |->
                      IF b \in Completed(s) THEN [attempts[b] EXCEPT !.status = "cancelled"]
                      ELSE attempts[b]]
  <2>1. f \in [DOMAIN attempts -> Attempt]
    BY <1>c DEF Attempt
  <2>2. attempts' = attempts \/ attempts' = f
    BY <1>7 DEF Invalidate
  <2>3. /\ attempts' \in Seq(Attempt)
        /\ DOMAIN attempts' = DOMAIN attempts
        /\ Len(attempts') = Len(attempts)
    BY <1>a, <2>1, <2>2, Replaced
  <2>4. pos' \in Nat \ {0}
    BY <1>7 DEF Invalidate, TypeInv, TypeOK
  <2> QED BY <1>7, <2>3, <2>4, SameTable DEF Invalidate, TypeInv, TypeOK, References
<1>8. CASE LoadState
  <2>1. done' \in [Step -> DOMAIN attempts \cup {0}]
    BY <1>8, <1>f DEF LoadState
  <2> DEFINE M == {m \in DOMAIN Order : Completed(Order[m]) # {}}
             k == Latest(M)
  <2>2. Len(Order) \in Nat /\ DOMAIN Order = 1..Len(Order)
    BY WorkflowRunnerAssumption, LenProperties
  <2>3. k \in M \cup {0} /\ (M # {} => k \in M)
    BY <2>2, LatestIsMember
  <2>4. last' \in DOMAIN attempts \cup {0} /\ (M # {} => last' # 0)
    <3>1. last' = IF k = 0 THEN 0 ELSE Latest(Completed(Order[k]))
      BY <1>8 DEF LoadState
    <3>2. \A m \in M : m # 0 /\ Completed(Order[m]) # {}
      BY <2>2
    <3>3. \A s : Completed(s) # {} => Latest(Completed(s)) \in DOMAIN attempts
      BY <1>e, <1>f
    <3>4. 0 \notin DOMAIN attempts
      BY <1>a
    <3> HIDE DEF k, M
    <3> QED BY <2>3, <3>1, <3>2, <3>3, <3>4
  <2>5. (\E s \in Step : done'[s] # 0) => M # {}
    BY <1>8, <1>f, WorkflowRunnerAssumption DEF LoadState
  <2> QED BY <1>8, <2>1, <2>4, <2>5 DEF LoadState, TypeInv, TypeOK, References, Pc
<1>9. CASE PickReady
  <2>1. Ready \subseteq Step /\ Ready # {}
    BY <1>9, SomeReady DEF PickReady
  <2>2. todo' \subseteq Step
    BY <1>9, <2>1, FirstIsMember DEF PickReady
  <2>3. branch' \in [DOMAIN batch' -> BranchState] /\ batch' \in Seq(DOMAIN attempts) /\ seen' = {}
    BY <1>9 DEF PickReady
  <2> QED BY <1>9, <2>2, <2>3 DEF PickReady, TypeInv, TypeOK, References, Pc
<1>10. CASE StartAttempt
  <2> DEFINE x == NewAttempt(First(todo))
  <2>1. First(todo) \in Step
    BY <1>10, FirstIsMember DEF StartAttempt, TypeInv, TypeOK
  <2>2. x \in Attempt
    BY <2>1, NewAttemptType
  <2>3. attempts' = Append(attempts, x)
    BY <1>10 DEF StartAttempt
  <2> HIDE DEF x
  <2>4. attempts' \in Seq(Attempt) /\ Len(attempts') = Len(attempts) + 1
    BY <1>a, <2>2, <2>3, AppendProperties
  <2>5. DOMAIN attempts \subseteq DOMAIN attempts'
    BY <1>a, <2>4, LenProperties
  <2>6. packEvals \in Seq(DOMAIN attempts') /\ batch \in Seq(DOMAIN attempts')
    BY <2>5, SeqMono DEF TypeInv, TypeOK
  <2>7. done \in [Step -> DOMAIN attempts' \cup {0}]
    BY <2>5 DEF TypeInv, TypeOK
  <2>8. Len(attempts') > 0
    BY <1>a, <2>4
  <2> QED BY <1>10, <2>4, <2>5, <2>6, <2>7, <2>8 DEF StartAttempt, TypeInv, TypeOK, References, Pc
<1>11. CASE RecordRuntimeState
  <2> DEFINE n == Len(attempts)
             x == [attempts[n] EXCEPT !.job = "required"]
  <2>1. n \in DOMAIN attempts
    BY <1>a, <1>11 DEF RecordRuntimeState, TypeInv, References
  <2>2. x \in Attempt
    BY <1>c, <2>1 DEF Attempt, OpenJob
  <2>3. /\ attempts' \in Seq(Attempt)
        /\ DOMAIN attempts' = DOMAIN attempts
        /\ Len(attempts') = Len(attempts)
    BY <1>a, <1>11, <2>1, <2>2, OneReplaced DEF RecordRuntimeState
  <2> QED BY <1>11, <2>3, SameTable DEF RecordRuntimeState, TypeInv, TypeOK, References, Pc
<1>12. CASE PrepareStep
  <2> DEFINE s == First(todo)
             a == Latest(Attempts(s))
             x == [attempts[a] EXCEPT !.status = "running",
                      !.from = [d \in Step |-> IF d \in DependsOn[s] THEN done[d] ELSE 0]]
  <2>1. CASE UNCHANGED <<attempts, batch, branch>>
    BY <1>12, <2>1 DEF PrepareStep, TypeInv, TypeOK, References
  <2>2. CASE attempts' = [attempts EXCEPT ![a] = x] /\ batch' = Append(batch, a) /\ branch' = Append(branch, "new")
    <3>1. a \in DOMAIN attempts
      BY <1>12, <1>e DEF PrepareStep, NeedsAttempt
    <3>2. \A d \in Step : done[d] \in Nat
      BY <1>a DEF TypeInv, TypeOK
    <3>3. x \in Attempt
      BY <1>c, <3>1, <3>2 DEF Attempt, OpenAttempt
    <3>4. /\ attempts' \in Seq(Attempt)
          /\ DOMAIN attempts' = DOMAIN attempts
          /\ Len(attempts') = Len(attempts)
      <4> HIDE DEF x, a
      <4> QED BY <1>a, <2>2, <3>1, <3>3, OneReplaced
    <3>5. batch' \in Seq(DOMAIN attempts) /\ Len(batch') = Len(batch) + 1
      BY <1>b, <2>2, <3>1, AppendProperties
    <3>6. branch \in Seq(BranchState) /\ Len(branch) = Len(batch)
      <4>1. branch \in [1..Len(batch) -> BranchState]
        BY <1>b DEF TypeInv, TypeOK
      <4>2. branch \in Seq(BranchState)
        BY <1>b, <4>1, SeqDef
      <4> QED BY <1>b, <4>1, <4>2, LenProperties
    <3>7. branch' \in Seq(BranchState) /\ Len(branch') = Len(batch')
      BY <2>2, <3>5, <3>6, AppendProperties DEF BranchState
    <3>8. branch' \in [DOMAIN batch' -> BranchState] /\ DOMAIN batch \subseteq DOMAIN batch'
      BY <1>b, <3>5, <3>7, LenProperties
    <3>9. UNCHANGED <<run, packEvals, final, faults, damage, pc, pos, done, last, seen, failed>> /\ todo' \subseteq todo
      BY <1>12 DEF PrepareStep
    <3> HIDE DEF x, a, s
    <3> QED BY <1>12, <3>4, <3>5, <3>8, <3>9, SameTable DEF PrepareStep, TypeInv, TypeOK, References
  <2> QED BY <1>12, <2>1, <2>2 DEF PrepareStep
<1>13. CASE PrepareFails
  <2>1. failed' \in DOMAIN attempts
    BY <1>13, <1>e DEF PrepareFails, NeedsAttempt, Fail
  <2>2. 0 \notin DOMAIN attempts
    BY <1>a
  <2>3. /\ UNCHANGED <<durableVars, pos, done, last, todo, batch, branch, seen, pack>>
        /\ pc = "prepare" /\ pc' = "fail"
    BY <1>13 DEF PrepareFails, Fail
  <2> QED BY <2>1, <2>2, <2>3 DEF TypeInv, TypeOK, References, Pc
<1>14. CASE WaitRun
  BY <1>14, <1>g, <1>a DEF WaitRun, Fresh, TypeInv, TypeOK, Pc
<1>15. CASE SubmitBatch
  <2>1. branch' \in [DOMAIN batch -> BranchState]
    BY <1>15 DEF SubmitBatch, BranchState
  <2> QED BY <1>15, <2>1 DEF SubmitBatch, TypeInv, TypeOK, References, Pc
<1>16. ASSUME NEW i \in DOMAIN branch, BranchStarts(i) \/ BranchEnds(i) PROVE TypeInv'
  <2>1. branch' \in [DOMAIN batch -> BranchState]
    BY <1>16 DEF BranchStarts, BranchEnds, SetBranch, BranchState, TypeInv, TypeOK
  <2> QED BY <1>16, <2>1 DEF BranchStarts, BranchEnds, SetBranch, TypeInv, TypeOK, References
<1>17. ASSUME NEW i \in DOMAIN branch, CollectError(i) \/ CollectOk(i) PROVE TypeInv'
  <2>1. branch' \in [DOMAIN batch -> BranchState]
    BY <1>17 DEF CollectError, CollectOk, BranchState, TypeInv, TypeOK
  <2>2. seen' \subseteq DOMAIN batch
    BY <1>17 DEF CollectError, CollectOk, TypeInv, TypeOK
  <2> QED BY <1>17, <2>1, <2>2 DEF CollectError, CollectOk, TypeInv, TypeOK, References
<1>18. CASE BatchEnds
  <2>1. branch' \in [DOMAIN batch -> BranchState]
    BY <1>18 DEF BatchEnds, BranchState, TypeInv, TypeOK
  <2> QED BY <1>18, <2>1 DEF BatchEnds, TypeInv, TypeOK, References, Pc
<1>19. CASE CommitEvidence
  <2>1. pos \in DOMAIN batch
    BY <1>19, <1>b DEF CommitEvidence, TypeInv, TypeOK
  <2>2. Current \in DOMAIN attempts /\ Current # 0
    BY <1>a, <1>d, <2>1 DEF Current
  <2> DEFINE x == [attempts[Current] EXCEPT !.evals =
                      IF attempts[Current].step \in Bare THEN @ ELSE @ + 1]
  <2>3. x \in Attempt /\ attempts[Current].step \in Step
    BY <1>c, <2>2 DEF Attempt
  <2>4. attempts' = attempts \/ attempts' = [attempts EXCEPT ![Current] = x]
    BY <1>19 DEF CommitEvidence
  <2>5. /\ attempts' \in Seq(Attempt)
        /\ DOMAIN attempts' = DOMAIN attempts
        /\ Len(attempts') = Len(attempts)
    <3> HIDE DEF x
    <3> QED BY <1>a, <2>2, <2>3, <2>4, OneReplaced
  <2>6. CASE pc' = "handoffs" /\ todo' = NextSteps(attempts[Current].step)
             /\ UNCHANGED <<pos, done, last, batch, branch, seen, failed, pack>>
    BY <1>19, <2>1, <2>3, <2>5, <2>6, NextStepsType, SameTable
       DEF CommitEvidence, TypeInv, TypeOK, References, Pc
  <2>7. CASE Fail(Current, "abort")
    BY <1>19, <2>2, <2>5, <2>7, SameTable DEF CommitEvidence, Fail, TypeInv, TypeOK, References, Pc
  <2> QED BY <1>19, <2>6, <2>7 DEF CommitEvidence
<1>20. CASE BatchFailed
  <2>1. pos \in DOMAIN batch
    BY <1>20, <1>b DEF BatchFailed, TypeInv, TypeOK
  <2>2. Current \in DOMAIN attempts /\ Current # 0
    BY <1>a, <1>d, <2>1 DEF Current
  <2> QED BY <1>20, <2>2 DEF BatchFailed, Fail, TypeInv, TypeOK, References, Pc
<1>21. CASE WriteHandoff
  <2>1. Current \in DOMAIN attempts
    BY <1>21, <1>d DEF WriteHandoff, Current, TypeInv, References
  <2>2. First(todo) \in Step
    BY <1>21, FirstIsMember DEF WriteHandoff, TypeInv, TypeOK
  <2> DEFINE h == [attempts[Current].handoffs EXCEPT ![First(todo)] = @ + 1]
             x == [attempts[Current] EXCEPT !.handoffs = h]
  <2>3. h \in [Step -> Nat]
    BY <1>c, <2>1, <2>2 DEF Attempt
  <2>4. x \in Attempt
    <3> HIDE DEF h
    <3> QED BY <1>c, <2>1, <2>3 DEF Attempt
  <2>5. attempts' = [attempts EXCEPT ![Current] = x]
    BY <1>21 DEF WriteHandoff
  <2>6. /\ attempts' \in Seq(Attempt)
        /\ DOMAIN attempts' = DOMAIN attempts
        /\ Len(attempts') = Len(attempts)
    <3> HIDE DEF x
    <3> QED BY <1>a, <2>1, <2>4, <2>5, OneReplaced
  <2> QED BY <1>21, <2>6, SameTable DEF WriteHandoff, TypeInv, TypeOK, References
<1>22. CASE CompleteJob
  <2>1. Current \in DOMAIN attempts
    BY <1>22, <1>d DEF CompleteJob, Current, TypeInv, References
  <2> DEFINE x == [attempts[Current] EXCEPT !.job = IF @ = "approved" THEN "completed" ELSE @]
  <2>2. x \in Attempt
    BY <1>c, <2>1 DEF Attempt
  <2>3. attempts' = [attempts EXCEPT ![Current] = x]
    BY <1>22 DEF CompleteJob
  <2>4. /\ attempts' \in Seq(Attempt)
        /\ DOMAIN attempts' = DOMAIN attempts
        /\ Len(attempts') = Len(attempts)
    <3> HIDE DEF x
    <3> QED BY <1>a, <2>1, <2>2, <2>3, OneReplaced
  <2> QED BY <1>22, <2>4, SameTable DEF CompleteJob, TypeInv, TypeOK, References, Pc
<1>23. CASE Checkpoint
  <2>1. Current \in DOMAIN attempts /\ Current # 0
    BY <1>23, <1>a, <1>d DEF Checkpoint, Current, TypeInv, References
  <2> DEFINE x == [attempts[Current] EXCEPT !.status = "completed"]
  <2>2. x \in Attempt
    BY <1>c, <2>1 DEF Attempt
  <2>3. attempts' = [attempts EXCEPT ![Current] = x]
    BY <1>23 DEF Checkpoint
  <2>4. /\ attempts' \in Seq(Attempt)
        /\ DOMAIN attempts' = DOMAIN attempts
        /\ Len(attempts') = Len(attempts)
    <3> HIDE DEF x
    <3> QED BY <1>a, <2>1, <2>2, <2>3, OneReplaced
  <2>5. done' \in [Step -> DOMAIN attempts \cup {0}] /\ last' = Current /\ pos' \in Nat \ {0}
    <3>1. done' = [done EXCEPT ![attempts[Current].step] = Current]
      BY <1>23 DEF Checkpoint
    <3>2. done \in [Step -> DOMAIN attempts \cup {0}]
      BY DEF TypeInv, TypeOK
    <3>3. done' \in [Step -> DOMAIN attempts \cup {0}]
      BY <2>1, <3>1, <3>2
    <3> QED BY <1>23, <3>3 DEF Checkpoint, TypeInv, TypeOK
  <2>6. /\ UNCHANGED <<run, packEvals, final, faults, damage, todo, batch, branch, seen, failed, pack>>
        /\ pc = "checkpoint" /\ pc' = "commit"
    BY <1>23 DEF Checkpoint
  <2> QED BY <2>1, <2>4, <2>5, <2>6, SameTable DEF TypeInv, TypeOK, References, Pc
<1>24. CASE BatchCommitted
  BY <1>24 DEF BatchCommitted, TypeInv, TypeOK, References, Pc
<1>25. CASE AbortBatch
  <2> DEFINE f == [a \in DOMAIN attempts |->
                     IF a # failed /\ \E i \in DOMAIN batch : batch[i] = a
                     THEN CloseAs(attempts[a], "cancelled") ELSE attempts[a]]
  <2>1. f \in [DOMAIN attempts -> Attempt]
    BY <1>c, CloseAsType
  <2>2. /\ attempts' \in Seq(Attempt)
        /\ DOMAIN attempts' = DOMAIN attempts
        /\ Len(attempts') = Len(attempts)
    BY <1>25, <1>a, <2>1, Replaced DEF AbortBatch
  <2> QED BY <1>25, <2>2, SameTable DEF AbortBatch, TypeInv, TypeOK, References, Pc
<1>26. CASE FailRun
  <2> DEFINE x == CloseAs(attempts[failed], "failed")
  <2>1. failed \in DOMAIN attempts /\ x \in Attempt
    BY <1>26, <1>c, CloseAsType DEF FailRun, TypeInv, TypeOK, References
  <2>2. attempts' = [attempts EXCEPT ![failed] = x]
    BY <1>26 DEF FailRun
  <2>3. /\ attempts' \in Seq(Attempt)
        /\ DOMAIN attempts' = DOMAIN attempts
        /\ Len(attempts') = Len(attempts)
    <3> HIDE DEF x
    <3> QED BY <1>a, <2>1, <2>2, OneReplaced
  <2> QED BY <1>26, <2>3, SameTable DEF FailRun, TypeInv, TypeOK, References, Pc, Finished
<1>27. CASE CloseRun
  BY <1>27, <1>g, <1>a, AllClosedType DEF CloseRun, Fresh, TypeInv, TypeOK, Pc
<1>28. CASE EvaluatePack
  <2>1. last \in DOMAIN attempts /\ last # 0
    <3>1. done[FinalStep] # 0
      BY <1>28, WorkflowRunnerAssumption DEF EvaluatePack, Incomplete
    <3> QED BY <3>1, WorkflowRunnerAssumption DEF TypeInv, TypeOK, References
  <2>2. packEvals' \in Seq(DOMAIN attempts)
    BY <1>28, <2>1, AppendProperties DEF EvaluatePack, TypeInv, TypeOK
  <2> QED BY <1>28, <2>1, <2>2 DEF EvaluatePack, Fail, TypeInv, TypeOK, References, Pc
<1>29. CASE CompleteRun
  <2>1. final' \in DOMAIN attempts \cup {0}
    BY <1>29, WorkflowRunnerAssumption DEF CompleteRun, TypeInv, TypeOK
  <2> QED BY <1>29, <2>1, <1>g, <1>a, AllClosedType DEF CompleteRun, Fresh, TypeInv, TypeOK, Pc, Finished
<1>30. CASE UNCHANGED vars
  BY <1>30 DEF vars, TypeInv, TypeOK, References
<1> QED
  BY <1>1, <1>2, <1>3, <1>4, <1>5, <1>6, <1>7, <1>8, <1>9, <1>10, <1>11, <1>12, <1>13, <1>14,
     <1>15, <1>16, <1>17, <1>18, <1>19, <1>20, <1>21, <1>22, <1>23, <1>24, <1>25, <1>26, <1>27,
     <1>28, <1>29, <1>30
  DEF Next, RunnerStep

\* The state of WorkflowRunner is always well typed.
THEOREM TypeCorrect == Spec => []TypeOK
<1>1. TypeInv => TypeOK
  BY DEF TypeInv
<1> QED BY TypeInit, TypeNext, <1>1, PTL DEF Spec

----------------------------------------------------------------------------
(* Approvals.                                                              *)

LEMMA RunningNext == TypeInv /\ RunningWhileWorking /\ [Next]_vars => RunningWhileWorking'
<1> SUFFICES ASSUME TypeInv, RunningWhileWorking, [Next]_vars PROVE RunningWhileWorking'
  OBVIOUS
<1> USE DEF RunningWhileWorking, durableVars, localVars
<1>1. CASE Begin \/ Requeue \/ Reclose \/ Interrupt \/ WaitRun \/ CloseRun \/ CompleteRun
  BY <1>1 DEF Begin, Requeue, Reclose, Interrupt, WaitRun, CloseRun, CompleteRun, Fresh, Enter
<1>2. ASSUME NEW a, Approve(a) \/ Damage(a) PROVE RunningWhileWorking'
  BY <1>2 DEF Approve, Damage
<1>3. CASE Invalidate \/ LoadState \/ PickReady \/ StartAttempt \/ RecordRuntimeState
           \/ PrepareStep \/ PrepareFails \/ SubmitBatch \/ BatchEnds
  BY <1>3 DEF Invalidate, LoadState, PickReady, StartAttempt, RecordRuntimeState, PrepareStep,
              PrepareFails, SubmitBatch, BatchEnds, Fail
<1>4. ASSUME NEW i, BranchStarts(i) \/ BranchEnds(i) \/ CollectError(i) \/ CollectOk(i)
      PROVE RunningWhileWorking'
  BY <1>4 DEF BranchStarts, BranchEnds, CollectError, CollectOk, SetBranch
<1>5. CASE CommitEvidence \/ BatchFailed \/ WriteHandoff \/ CompleteJob \/ Checkpoint
           \/ BatchCommitted \/ AbortBatch \/ FailRun \/ EvaluatePack
  BY <1>5 DEF CommitEvidence, BatchFailed, WriteHandoff, CompleteJob, Checkpoint,
              BatchCommitted, AbortBatch, FailRun, EvaluatePack, Fail
<1>6. CASE UNCHANGED vars
  BY <1>6 DEF vars
<1> QED BY <1>1, <1>2, <1>3, <1>4, <1>5, <1>6 DEF Next, RunnerStep

\* What closing does to an attempt.
LEMMA CloseAsFields ==
    ASSUME NEW x \in Attempt, NEW s \in {"failed", "cancelled"}
    PROVE  LET y == CloseAs(x, s)
           IN  /\ y.step = x.step /\ y.evals = x.evals /\ y.handoffs = x.handoffs
               /\ x.status \in OpenAttempt => y.status = s
               /\ x.status \notin OpenAttempt => y.status = x.status
               /\ x.job \notin OpenJob => y.job = x.job
BY DEF CloseAs, Attempt

\* After _terminalize_open_runtime_state nothing is open, and a checkpoint is as
\* it was.
LEMMA AllClosedFields ==
    ASSUME attempts \in Seq(Attempt), attempts' = AllClosed
    PROVE  \A a \in DOMAIN attempts :
              /\ attempts'[a].step = attempts[a].step
              /\ attempts'[a].evals = attempts[a].evals
              /\ attempts'[a].handoffs = attempts[a].handoffs
              /\ attempts'[a].status \notin OpenAttempt
              /\ attempts'[a].status = "completed" => attempts[a].status = "completed"
              /\ attempts[a].job = "completed" => attempts'[a].job = "completed"
<1> SUFFICES ASSUME NEW a \in DOMAIN attempts
             PROVE  /\ attempts'[a].step = attempts[a].step
                    /\ attempts'[a].evals = attempts[a].evals
                    /\ attempts'[a].handoffs = attempts[a].handoffs
                    /\ attempts'[a].status \notin OpenAttempt
                    /\ attempts'[a].status = "completed" => attempts[a].status = "completed"
                    /\ attempts[a].job = "completed" => attempts'[a].job = "completed"
  OBVIOUS
<1>1. attempts'[a] = CloseAs(attempts[a], "cancelled") /\ attempts[a] \in Attempt
  BY DEF AllClosed
<1> QED BY <1>1, CloseAsFields DEF OpenAttempt, OpenJob

LEMMA ApprovalInit == Init => ApprovalInv
BY TypeInit DEF Init, ApprovalInv, RunningWhileWorking, JobsInv, BatchJobs, Batching

LEMMA ApprovalNext == ApprovalInv /\ [Next]_vars => ApprovalInv'
<1> SUFFICES ASSUME ApprovalInv, [Next]_vars PROVE ApprovalInv'
  OBVIOUS
<1> USE DEF durableVars, localVars
<1>a. TypeInv /\ TypeInv' /\ RunningWhileWorking /\ RunningWhileWorking' /\ JobsInv /\ BatchJobs
  BY TypeNext, RunningNext DEF ApprovalInv
<1>b. attempts \in Seq(Attempt) /\ Len(attempts) \in Nat /\ DOMAIN attempts = 1..Len(attempts)
  BY <1>a, LenProperties DEF TypeInv, TypeOK
<1>c. \A a \in DOMAIN attempts : attempts[a] \in Attempt
  BY <1>b
<1>d. \A i \in DOMAIN batch : batch[i] \in DOMAIN attempts
  BY <1>a DEF TypeInv, TypeOK
<1>. SUFFICES JobsInv' /\ BatchJobs'
  BY <1>a DEF ApprovalInv
\* Nothing is open after the rows are closed.
<1>e. ASSUME attempts' = AllClosed, pc' \notin Batching PROVE JobsInv' /\ BatchJobs'
  <2>1. DOMAIN attempts' = DOMAIN attempts
    BY <1>b, <1>e, AllClosedType
  <2> QED BY <1>a, <1>b, <1>e, <2>1, AllClosedFields DEF JobsInv, JobOf, BatchJobs, OpenAttempt, Batching
\* A step that touches neither the attempts nor the batch.
<1>f. ASSUME UNCHANGED <<attempts, batch>>, pc' \in Batching => pc \in Batching,
             pc' \notin {"checkpoint", "record"},
             \A a : Unrecorded(a) => Unrecorded(a)'
      PROVE  JobsInv' /\ BatchJobs'
  BY <1>a, <1>f DEF JobsInv, JobOf, BatchJobs
<1>1. CASE Reclose \/ CloseRun \/ CompleteRun
  BY <1>1, <1>e DEF Reclose, CloseRun, CompleteRun, Fresh, Enter, Batching
<1>2. CASE Begin \/ Requeue \/ Interrupt \/ WaitRun
  <2>1. \A a : Unrecorded(a) => Unrecorded(a)'
    BY <1>2, <1>a DEF Begin, Requeue, Interrupt, WaitRun, Fresh, Enter, Unrecorded, RunningWhileWorking
  <2>2. attempts' = attempts /\ pc' \in {"idle", "invalidate", "requeue"}
    BY <1>2 DEF Begin, Requeue, Interrupt, WaitRun, Fresh, Enter
  <2> QED BY <1>a, <2>1, <2>2 DEF JobsInv, JobOf, BatchJobs, Batching
<1>3. ASSUME NEW a \in DOMAIN attempts, Approve(a) PROVE JobsInv' /\ BatchJobs'
  <2> DEFINE x == [attempts[a] EXCEPT !.job = "approved"]
  <2>1. x.step = attempts[a].step /\ x.status = attempts[a].status /\ x.job = "approved" /\ x.status \in OpenAttempt
    BY <1>c, <1>3 DEF Attempt, Approve
  <2>2. /\ DOMAIN attempts' = DOMAIN attempts
        /\ \A b \in DOMAIN attempts : attempts'[b] = IF b = a THEN x ELSE attempts[b]
    BY <1>b, <1>3 DEF Approve
  <2>3. pc' = "idle" /\ \A b : ~Unrecorded(b)
    BY <1>3 DEF Approve, Unrecorded
  <2> HIDE DEF x
  <2> QED BY <1>a, <2>1, <2>2, <2>3 DEF JobsInv, JobOf, BatchJobs, Batching, OpenAttempt
<1>4. ASSUME NEW a \in DOMAIN attempts, Damage(a) PROVE JobsInv' /\ BatchJobs'
  <2>1. DOMAIN attempts' = DOMAIN attempts /\ Len(attempts') = Len(attempts)
    BY <1>b, <1>a, <1>4, LenProperties DEF Damage, TypeInv, TypeOK
  <2>2. \A b \in DOMAIN attempts : /\ attempts'[b].step = attempts[b].step
                                   /\ attempts'[b].status = attempts[b].status
                                   /\ attempts'[b].job = attempts[b].job
    BY <1>b, <1>c, <1>4 DEF Damage, Attempt
  <2>3. UNCHANGED <<run, pc, pos, batch>>
    BY <1>4 DEF Damage
  <2>4. pc = "checkpoint" => Current \in DOMAIN attempts /\ Current' = Current
    BY <1>a, <1>d, <2>3 DEF Current, TypeInv, References
  <2>5. pc = "record" => Len(attempts) \in DOMAIN attempts
    BY <1>a, <1>b DEF TypeInv, References
  <2> QED BY <1>a, <1>d, <2>1, <2>2, <2>3, <2>4, <2>5 DEF JobsInv, JobOf, BatchJobs, Unrecorded
<1>5. CASE Invalidate
  <2>1. DOMAIN attempts' = DOMAIN attempts
    BY <1>b, <1>5 DEF Invalidate
  <2>2. \A b \in DOMAIN attempts : /\ attempts'[b].step = attempts[b].step
                                   /\ attempts'[b].job = attempts[b].job
                                   /\ \/ attempts'[b].status = attempts[b].status
                                      \/ attempts'[b].status = "cancelled"
    BY <1>b, <1>c, <1>5 DEF Invalidate, Attempt
  <2>3. UNCHANGED <<run, pc>> /\ pc \in {"invalidate", "requeue"}
    BY <1>5 DEF Invalidate
  <2> QED BY <1>a, <2>1, <2>2, <2>3 DEF JobsInv, JobOf, BatchJobs, Unrecorded, Batching
<1>6. CASE PickReady
  BY <1>6, <1>a DEF PickReady, JobsInv, JobOf, BatchJobs, Unrecorded
<1>7. CASE LoadState \/ PrepareFails \/ SubmitBatch \/ BatchEnds \/ BatchFailed \/ BatchCommitted \/ EvaluatePack
  BY <1>7, <1>f DEF LoadState, PrepareFails, SubmitBatch, BatchEnds, BatchFailed,
       BatchCommitted, EvaluatePack, Fail, Batching, Unrecorded
<1>8. ASSUME NEW i, BranchStarts(i) \/ BranchEnds(i) \/ CollectError(i) \/ CollectOk(i)
      PROVE  JobsInv' /\ BatchJobs'
  BY <1>8, <1>f DEF BranchStarts, BranchEnds, SetBranch, CollectError, CollectOk, Batching, Unrecorded
<1>9. CASE StartAttempt
  <2> DEFINE x == NewAttempt(First(todo))
             n == Len(attempts) + 1
  <2>1. /\ x.step = First(todo)
        /\ x.status = IF First(todo) \in Approval THEN "waiting" ELSE "running"
        /\ x.job = "none"
    BY DEF NewAttempt
  <2>2. attempts' = Append(attempts, x)
    BY <1>9 DEF StartAttempt
  <2> HIDE DEF x
  <2>3. Len(attempts') = n /\ DOMAIN attempts' = DOMAIN attempts \cup {n}
    BY <1>b, <2>2
  <2>4. attempts'[n] = x /\ \A b \in DOMAIN attempts : attempts'[b] = attempts[b]
    BY <1>b, <2>2
  <2>5. pc = "prepare" /\ pc' = IF First(todo) \in Approval THEN "record" ELSE "prepare"
    BY <1>9 DEF StartAttempt
  <2>6. JobsInv'
    BY <1>a, <2>1, <2>3, <2>4, <2>5 DEF JobsInv, JobOf, Unrecorded
  <2>7. BatchJobs'
    <3>1. batch' = batch
      BY <1>9 DEF StartAttempt
    <3> QED BY <1>a, <1>d, <2>1, <2>3, <2>4, <2>5, <3>1 DEF BatchJobs, Batching
  <2> QED BY <2>6, <2>7
<1>10. CASE RecordRuntimeState
  <2> DEFINE n == Len(attempts)
             x == [attempts[n] EXCEPT !.job = "required"]
  <2>1. n \in DOMAIN attempts
    BY <1>a, <1>b, <1>10 DEF RecordRuntimeState, TypeInv, References
  <2>2. x.step = attempts[n].step /\ x.status = "waiting" /\ x.job = "required"
    BY <1>a, <1>c, <1>10, <2>1 DEF RecordRuntimeState, BatchJobs, Attempt
  <2>3. /\ DOMAIN attempts' = DOMAIN attempts
        /\ \A b \in DOMAIN attempts : attempts'[b] = IF b = n THEN x ELSE attempts[b]
    BY <1>b, <1>10 DEF RecordRuntimeState
  <2>4. pc = "record" /\ pc' = "prepare" /\ batch' = batch
    BY <1>10 DEF RecordRuntimeState
  <2>5. \A i \in DOMAIN batch : batch[i] # n
    BY <1>a, <2>4 DEF BatchJobs, Batching
  <2> HIDE DEF x
  <2>6. JobsInv'
    BY <1>a, <2>2, <2>3, <2>4 DEF JobsInv, JobOf, Unrecorded
  <2>7. BatchJobs'
    BY <1>a, <1>d, <2>3, <2>4, <2>5 DEF BatchJobs, Batching
  <2> QED BY <2>6, <2>7
<1>11. CASE PrepareStep
  <2> DEFINE s == First(todo)
             a == Latest(Attempts(s))
             x == [attempts[a] EXCEPT !.status = "running",
                      !.from = [d \in Step |-> IF d \in DependsOn[s] THEN done[d] ELSE 0]]
  <2>1. pc = "prepare" /\ pc' = "prepare"
    BY <1>11 DEF PrepareStep
  <2>2. CASE UNCHANGED <<attempts, batch, branch>>
    BY <1>f, <2>1, <2>2 DEF Unrecorded
  <2>3. CASE /\ attempts[a].job # "required" /\ ~CannotRun(a)
             /\ attempts' = [attempts EXCEPT ![a] = x]
             /\ batch' = Append(batch, a)
    <3>1. a \in DOMAIN attempts
      BY <1>11 DEF PrepareStep, NeedsAttempt, Attempts
    <3>2. x.step = attempts[a].step /\ x.status = "running" /\ x.job = attempts[a].job
      BY <1>c, <3>1 DEF Attempt
    <3> HIDE DEF x, a
    <3>3. attempts[a].step \in Approval => attempts[a].job \in {"approved", "completed"}
      BY <1>a, <2>1, <2>3, <3>1 DEF CannotRun, JobsInv, JobOf, OpenAttempt, Unrecorded
    <3>4. /\ DOMAIN attempts' = DOMAIN attempts
          /\ \A b \in DOMAIN attempts : attempts'[b] = IF b = a THEN x ELSE attempts[b]
      BY <1>b, <2>3
    <3>5. JobsInv'
      BY <1>a, <2>1, <3>2, <3>3, <3>4 DEF JobsInv, JobOf, Unrecorded
    <3>6. \A i \in DOMAIN batch' : (i \in DOMAIN batch /\ batch'[i] = batch[i]) \/ batch'[i] = a
      <4>1. batch \in Seq(DOMAIN attempts) /\ Len(batch) \in Nat /\ DOMAIN batch = 1..Len(batch)
        BY <1>a, LenProperties DEF TypeInv, TypeOK
      <4> QED BY <2>3, <3>1, <4>1
    <3>7. BatchJobs'
      BY <1>a, <1>d, <2>1, <3>1, <3>2, <3>3, <3>4, <3>6 DEF BatchJobs, Batching
    <3> QED BY <3>5, <3>7
  <2> QED BY <1>11, <2>2, <2>3 DEF PrepareStep
\* A step of the commit that changes only the evidence of its attempt.
<1>g. ASSUME DOMAIN attempts' = DOMAIN attempts,
             \A b \in DOMAIN attempts : /\ attempts'[b].step = attempts[b].step
                                        /\ attempts'[b].status = attempts[b].status
                                        /\ attempts'[b].job = attempts[b].job,
             UNCHANGED <<batch, run>>, pc \in {"commit", "handoffs"}, pc' \in {"handoffs", "abort"}
      PROVE  JobsInv' /\ BatchJobs'
  <2>1. JobsInv'
    BY <1>a, <1>g DEF JobsInv, JobOf, Unrecorded
  <2>2. BatchJobs'
    BY <1>a, <1>d, <1>g DEF BatchJobs, Batching
  <2> QED BY <2>1, <2>2
<1>12. CASE CommitEvidence
  <2> DEFINE x == [attempts[Current] EXCEPT !.evals =
                      IF attempts[Current].step \in Bare THEN @ ELSE @ + 1]
  <2>1. Current \in DOMAIN attempts
    BY <1>12, <1>a, <1>d, LenProperties DEF CommitEvidence, Current, TypeInv, TypeOK
  <2>2. x.step = attempts[Current].step /\ x.status = attempts[Current].status /\ x.job = attempts[Current].job
    BY <1>c, <2>1 DEF Attempt
  <2>3. attempts' = attempts \/ attempts' = [attempts EXCEPT ![Current] = x]
    BY <1>12 DEF CommitEvidence
  <2>4. UNCHANGED <<batch, run>> /\ pc = "commit" /\ pc' \in {"handoffs", "abort"}
    BY <1>12 DEF CommitEvidence, Fail
  <2> HIDE DEF x
  <2> QED BY <1>b, <1>g, <2>1, <2>2, <2>3, <2>4
<1>13. CASE WriteHandoff
  <2> DEFINE x == [attempts[Current] EXCEPT !.handoffs[First(todo)] = @ + 1]
  <2>1. Current \in DOMAIN attempts
    BY <1>13, <1>a, <1>d DEF WriteHandoff, Current, TypeInv, References
  <2>2. x.step = attempts[Current].step /\ x.status = attempts[Current].status /\ x.job = attempts[Current].job
    BY <1>c, <2>1 DEF Attempt
  <2>3. attempts' = [attempts EXCEPT ![Current] = x]
    BY <1>13 DEF WriteHandoff
  <2>4. UNCHANGED <<batch, run>> /\ pc = "handoffs" /\ pc' = "handoffs"
    BY <1>13 DEF WriteHandoff
  <2> HIDE DEF x
  <2> QED BY <1>b, <1>g, <2>1, <2>2, <2>3, <2>4
<1>14. CASE CompleteJob
  <2> DEFINE x == [attempts[Current] EXCEPT !.job = IF @ = "approved" THEN "completed" ELSE @]
  <2>1. pos \in DOMAIN batch /\ Current = batch[pos] /\ Current \in DOMAIN attempts
    BY <1>14, <1>a, <1>d DEF CompleteJob, Current, TypeInv, References
  <2>2. /\ x.step = attempts[Current].step /\ x.status = attempts[Current].status
        /\ x.job = IF attempts[Current].job = "approved" THEN "completed" ELSE attempts[Current].job
    BY <1>c, <2>1 DEF Attempt
  <2>3. DOMAIN attempts' = DOMAIN attempts
        /\ \A b \in DOMAIN attempts : attempts'[b] = IF b = Current THEN x ELSE attempts[b]
    BY <1>14, <1>b DEF CompleteJob
  <2>4. UNCHANGED <<batch, run, pos>> /\ pc = "handoffs" /\ pc' = "checkpoint" /\ Current' = Current
    BY <1>14 DEF CompleteJob, Current
  <2> HIDE DEF x
  <2>5. JobsInv'
    BY <1>a, <2>2, <2>3, <2>4 DEF JobsInv, JobOf, Unrecorded
  <2>6. attempts[Current].step \in Approval => attempts[Current].job \in {"approved", "completed"}
    BY <1>a, <2>1, <2>4 DEF BatchJobs, Batching
  <2>7. BatchJobs'
    BY <1>a, <1>d, <2>1, <2>2, <2>3, <2>4, <2>6 DEF BatchJobs, Batching
  <2> QED BY <2>5, <2>7
<1>15. CASE Checkpoint
  <2> DEFINE x == [attempts[Current] EXCEPT !.status = "completed"]
  <2>1. Current \in DOMAIN attempts
    BY <1>15, <1>a, <1>d DEF Checkpoint, Current, TypeInv, References
  <2>2. x.step = attempts[Current].step /\ x.status = "completed" /\ x.job = attempts[Current].job
    BY <1>c, <2>1 DEF Attempt
  <2>3. DOMAIN attempts' = DOMAIN attempts
        /\ \A b \in DOMAIN attempts : attempts'[b] = IF b = Current THEN x ELSE attempts[b]
    BY <1>15, <1>b DEF Checkpoint
  <2>4. UNCHANGED <<batch, run>> /\ pc = "checkpoint" /\ pc' = "commit"
    BY <1>15 DEF Checkpoint
  <2> HIDE DEF x
  <2>5. JobsInv'
    BY <1>a, <2>2, <2>3, <2>4 DEF JobsInv, JobOf, Unrecorded, BatchJobs
  <2>6. BatchJobs'
    BY <1>a, <1>d, <2>1, <2>2, <2>3, <2>4 DEF BatchJobs, Batching
  <2> QED BY <2>5, <2>6
\* Closing the attempts of an aborted batch, or the one that failed.
<1>h. ASSUME DOMAIN attempts' = DOMAIN attempts,
             \A b \in DOMAIN attempts :
                \/ attempts'[b] = attempts[b]
                \/ \E s \in {"failed", "cancelled"} : attempts'[b] = CloseAs(attempts[b], s),
             pc \in {"abort", "fail"}, pc' \in {"fail", "close"}
      PROVE  JobsInv' /\ BatchJobs'
  <2>1. BatchJobs'
    BY <1>h DEF BatchJobs, Batching
  <2>2. SUFFICES ASSUME NEW b \in DOMAIN attempts PROVE JobOf(b)'
    BY <1>h, <2>1 DEF JobsInv
  <2>3. CASE attempts'[b] = attempts[b]
    BY <1>a, <1>h, <2>3 DEF JobsInv, JobOf, Unrecorded
  <2>4. ASSUME NEW s \in {"failed", "cancelled"}, attempts'[b] = CloseAs(attempts[b], s)
        PROVE  JobOf(b)'
    BY <1>a, <1>c, <2>4, CloseAsFields DEF JobsInv, JobOf, OpenAttempt, OpenJob
  <2> QED BY <1>h, <2>3, <2>4
<1>16. CASE AbortBatch
  BY <1>16, <1>b, <1>h DEF AbortBatch
<1>17. CASE FailRun
  BY <1>17, <1>b, <1>h DEF FailRun
<1>18. CASE UNCHANGED vars
  BY <1>18, <1>a DEF vars, JobsInv, JobOf, Unrecorded, BatchJobs, Current
<1> QED
  BY <1>1, <1>2, <1>3, <1>4, <1>5, <1>6, <1>7, <1>8, <1>9, <1>10, <1>11, <1>12, <1>13, <1>14,
     <1>15, <1>16, <1>17, <1>18
  DEF Next, RunnerStep

\* No step that requires an approval is executed or committed without one, given
\* for that very attempt, wherever the process is interrupted.
THEOREM ApprovalCorrect == Spec => []ApprovedBeforeExecution
<1>1. ApprovalInv => ApprovedBeforeExecution
  BY DEF ApprovalInv, JobsInv, JobOf, ApprovedBeforeExecution
<1> QED BY ApprovalInit, ApprovalNext, <1>1, PTL DEF Spec

----------------------------------------------------------------------------
(* The evidence of a checkpoint.                                           *)

LEMMA EvidenceInit == Init => EvidenceInv
BY TypeInit DEF Init, EvidenceInv, RunningWhileWorking, CheckpointComplete, OpenIsBlank,
   CommitInv, Batching

LEMMA EvidenceNext == EvidenceInv /\ [Next]_vars => EvidenceInv'
<1> SUFFICES ASSUME EvidenceInv, [Next]_vars PROVE EvidenceInv'
  OBVIOUS
<1> USE DEF durableVars, localVars
<1>a. /\ TypeInv /\ TypeInv' /\ RunningWhileWorking /\ RunningWhileWorking'
      /\ CheckpointComplete /\ OpenIsBlank /\ CommitInv
      /\ pc \in Batching => BatchInv
  BY TypeNext, RunningNext DEF EvidenceInv
<1>b. attempts \in Seq(Attempt) /\ Len(attempts) \in Nat /\ DOMAIN attempts = 1..Len(attempts)
  BY <1>a, LenProperties DEF TypeInv, TypeOK
<1>c. \A a \in DOMAIN attempts : attempts[a] \in Attempt
  BY <1>b
<1>d. /\ batch \in Seq(DOMAIN attempts) /\ Len(batch) \in Nat /\ DOMAIN batch = 1..Len(batch)
      /\ \A i \in DOMAIN batch : batch[i] \in DOMAIN attempts
  BY <1>a, LenProperties DEF TypeInv, TypeOK
<1> DEFINE Goal == /\ CheckpointComplete' /\ OpenIsBlank' /\ CommitInv'
                   /\ pc' \in Batching => BatchInv'
<1>. SUFFICES Goal
  BY <1>a DEF EvidenceInv
\* No checkpoint is new, and those that stay keep their evidence.
<1>e. ASSUME \A b \in DOMAIN attempts' : attempts'[b].status = "completed" =>
                /\ b \in DOMAIN attempts
                /\ attempts[b].status = "completed"
                /\ attempts'[b].step = attempts[b].step
                /\ attempts'[b].evals = attempts[b].evals
                /\ attempts'[b].handoffs = attempts[b].handoffs
      PROVE  CheckpointComplete'
  BY <1>a, <1>e DEF CheckpointComplete
\* Leaving a batch, with the attempts as they are.
<1>f. ASSUME UNCHANGED attempts, pc' \notin Batching,
             Clean' => Clean /\ pc \notin {"handoffs", "checkpoint"}
      PROVE  Goal
  <2>1. CheckpointComplete'
    BY <1>e, <1>f
  <2>2. OpenIsBlank'
    BY <1>a, <1>f DEF OpenIsBlank, Blank, Committing
  <2> QED BY <1>f, <2>1, <2>2 DEF CommitInv, Batching
\* Rows are closed where the batch is over.
<1>g. ASSUME DOMAIN attempts' = DOMAIN attempts,
             \A b \in DOMAIN attempts :
                \/ attempts'[b] = attempts[b]
                \/ \E s \in {"failed", "cancelled"} : attempts'[b] = CloseAs(attempts[b], s),
             pc' \notin Batching,
             Clean' => \A b \in DOMAIN attempts : attempts'[b].status \notin OpenAttempt
      PROVE  Goal
  <2>1. CheckpointComplete'
    <3> SUFFICES ASSUME NEW b \in DOMAIN attempts, attempts'[b].status = "completed"
                 PROVE  /\ attempts[b].status = "completed"
                        /\ attempts'[b].step = attempts[b].step
                        /\ attempts'[b].evals = attempts[b].evals
                        /\ attempts'[b].handoffs = attempts[b].handoffs
      BY <1>e, <1>g
    <3>1. ASSUME NEW s \in {"failed", "cancelled"}, attempts'[b] = CloseAs(attempts[b], s)
          PROVE  /\ attempts[b].status = "completed"
                 /\ attempts'[b].step = attempts[b].step
                 /\ attempts'[b].evals = attempts[b].evals
                 /\ attempts'[b].handoffs = attempts[b].handoffs
      BY <1>c, <3>1, CloseAsFields
    <3> QED BY <1>g, <3>1
  <2>2. OpenIsBlank'
    BY <1>g DEF OpenIsBlank
  <2> QED BY <1>g, <2>1, <2>2 DEF CommitInv, Batching
\* Steps inside a batch that touch no evidence, status or member.
<1>h. ASSUME DOMAIN attempts' = DOMAIN attempts,
             \A b \in DOMAIN attempts : /\ attempts'[b].step = attempts[b].step
                                        /\ attempts'[b].status = attempts[b].status
                                        /\ attempts'[b].evals = attempts[b].evals
                                        /\ attempts'[b].handoffs = attempts[b].handoffs,
             Clean' => Clean, UNCHANGED batch,
             \/ pc' = pc /\ pos' = pos /\ todo' = todo
             \/ {pc, pc'} \cap {"handoffs", "checkpoint"} = {},
             pc' \in Batching => BatchInv'
      PROVE  Goal
  <2>1. CheckpointComplete'
    BY <1>e, <1>h
  <2>2. OpenIsBlank'
    BY <1>a, <1>h DEF OpenIsBlank, Blank, Committing, Current
  <2>3. CommitInv'
    <3>1. CASE pc' \notin {"handoffs", "checkpoint"}
      BY <3>1 DEF CommitInv
    <3>2. CASE pc' \in {"handoffs", "checkpoint"}
      <4>1. UNCHANGED <<pc, pos, todo>> /\ Current' = Current
        BY <1>h, <3>2 DEF Current
      <4>2. Current \in DOMAIN attempts
        BY <1>a, <1>d, <3>2, <4>1 DEF Current, TypeInv, References
      <4> QED BY <1>a, <1>h, <4>1, <4>2 DEF CommitInv, Evaluated
    <3> QED BY <3>1, <3>2
  <2> QED BY <1>h, <2>1, <2>2, <2>3
<1>1. CASE Reclose \/ CloseRun \/ CompleteRun
  <2>1. attempts' = AllClosed /\ pc' \notin Batching
    BY <1>1 DEF Reclose, CloseRun, CompleteRun, Fresh, Enter, Batching
  <2>2. DOMAIN attempts' = DOMAIN attempts
    BY <1>b, <2>1, AllClosedType
  <2>3. \A b \in DOMAIN attempts : attempts'[b] = CloseAs(attempts[b], "cancelled")
    BY <2>1 DEF AllClosed
  <2>4. \A b \in DOMAIN attempts : attempts'[b].status \notin OpenAttempt
    BY <1>b, <1>c, <2>1, AllClosedFields
  <2> QED BY <1>g, <2>1, <2>2, <2>3, <2>4
<1>2. CASE AbortBatch \/ FailRun
  <2>1. ~Clean' /\ pc' \notin Batching
    BY <1>2, <1>a DEF AbortBatch, FailRun, Clean, Batching, RunningWhileWorking
  <2>2. DOMAIN attempts' = DOMAIN attempts
        /\ \A b \in DOMAIN attempts :
              \/ attempts'[b] = attempts[b]
              \/ \E s \in {"failed", "cancelled"} : attempts'[b] = CloseAs(attempts[b], s)
    BY <1>2, <1>b DEF AbortBatch, FailRun
  <2> QED BY <1>g, <2>1, <2>2
<1>3. CASE Begin \/ Requeue \/ Interrupt \/ WaitRun
  BY <1>3, <1>a, <1>f DEF Begin, Requeue, Interrupt, WaitRun, Fresh, Enter, Clean, Batching, RunningWhileWorking
<1>4. CASE LoadState \/ PrepareFails \/ BatchFailed \/ BatchCommitted \/ EvaluatePack
  BY <1>4, <1>a, <1>f DEF LoadState, PrepareFails, BatchFailed, BatchCommitted, EvaluatePack, Fail,
       Clean, Batching, RunningWhileWorking
<1>5. ASSUME NEW a \in DOMAIN attempts, Approve(a) PROVE Goal
  <2>1. DOMAIN attempts' = DOMAIN attempts
    BY <1>b, <1>5 DEF Approve
  <2>2. \A b \in DOMAIN attempts : /\ attempts'[b].step = attempts[b].step
                                   /\ attempts'[b].status = attempts[b].status
                                   /\ attempts'[b].evals = attempts[b].evals
                                   /\ attempts'[b].handoffs = attempts[b].handoffs
    BY <1>b, <1>c, <1>5 DEF Approve, Attempt
  <2>3. UNCHANGED <<batch, pc, pos, todo>> /\ pc = "idle" /\ Clean
    BY <1>5 DEF Approve, Clean
  <2> QED BY <1>h, <2>1, <2>2, <2>3 DEF Batching
<1>6. ASSUME NEW a \in DOMAIN attempts, Damage(a) PROVE Goal
  <2>1. DOMAIN attempts' = DOMAIN attempts
    BY <1>b, <1>6 DEF Damage
  <2>2. \A b \in DOMAIN attempts : /\ attempts'[b].step = attempts[b].step
                                   /\ attempts'[b].status = attempts[b].status
                                   /\ attempts'[b].evals = attempts[b].evals
                                   /\ attempts'[b].handoffs = attempts[b].handoffs
    BY <1>b, <1>c, <1>6 DEF Damage, Attempt
  <2>3. UNCHANGED <<batch, pc, pos, todo, run>>
    BY <1>6 DEF Damage
  <2>4. Clean' => Clean
    BY <2>3 DEF Clean
  <2>5. pc' \in Batching => BatchInv'
    BY <1>a, <1>d, <2>2, <2>3 DEF BatchInv
  <2> HIDE DEF Goal
  <2> QED BY <1>h, <2>1, <2>2, <2>3, <2>4, <2>5
<1>7. CASE Invalidate
  <2>1. DOMAIN attempts' = DOMAIN attempts
    BY <1>b, <1>7 DEF Invalidate
  <2>2. \A b \in DOMAIN attempts :
           \/ attempts'[b] = attempts[b]
           \/ attempts'[b].status = "cancelled"
    BY <1>b, <1>c, <1>7 DEF Invalidate, Attempt
  <2>3. UNCHANGED <<run, pc>> /\ pc \in {"invalidate", "requeue"}
    BY <1>7 DEF Invalidate
  <2>4. CheckpointComplete'
    BY <1>e, <2>1, <2>2
  <2>5. OpenIsBlank'
    BY <1>a, <2>1, <2>2, <2>3 DEF OpenIsBlank, Clean, Blank, Committing, OpenAttempt
  <2> QED BY <2>3, <2>4, <2>5 DEF CommitInv, Batching
<1>8. CASE PickReady
  <2>1. pc = "loop" /\ pc' = "prepare" /\ batch' = << >> /\ UNCHANGED attempts
    BY <1>8 DEF PickReady
  <2>2. CheckpointComplete'
    BY <1>e, <2>1
  <2>3. OpenIsBlank'
    BY <1>a, <2>1 DEF OpenIsBlank, Clean, Blank, Committing
  <2>4. BatchInv'
    BY <2>1 DEF BatchInv
  <2> QED BY <2>1, <2>2, <2>3, <2>4 DEF CommitInv
<1>9. CASE SubmitBatch \/ BatchEnds
  <2>1. /\ \/ pc = "prepare" /\ pc' = "execute"
           \/ pc = "execute" /\ pc' = "commit" /\ pos' = 1
        /\ UNCHANGED <<attempts, batch, run>>
    BY <1>9 DEF SubmitBatch, BatchEnds
  <2>2. BatchInv'
    BY <1>a, <2>1 DEF BatchInv, Batching
  <2> QED BY <1>h, <2>1, <2>2 DEF Clean, Batching
<1>10. ASSUME NEW i, BranchStarts(i) \/ BranchEnds(i) \/ CollectError(i) \/ CollectOk(i)
      PROVE  Goal
  <2>1. UNCHANGED <<attempts, batch, run, pc, pos, todo>> /\ pc = "execute"
    BY <1>10 DEF BranchStarts, BranchEnds, SetBranch, CollectError, CollectOk
  <2>2. BatchInv'
    BY <1>a, <2>1 DEF BatchInv, Batching
  <2> QED BY <1>h, <2>1, <2>2 DEF Clean, Batching
<1>11. CASE StartAttempt
  <2> DEFINE x == NewAttempt(First(todo))
             n == Len(attempts) + 1
  <2>1. x.status # "completed" /\ x.evals = 0 /\ x.handoffs = [t \in Step |-> 0]
    BY DEF NewAttempt
  <2>2. attempts' = Append(attempts, x)
    BY <1>11 DEF StartAttempt
  <2> HIDE DEF x
  <2>3. DOMAIN attempts' = DOMAIN attempts \cup {n}
    BY <1>b, <2>2
  <2>4. attempts'[n] = x /\ \A b \in DOMAIN attempts : attempts'[b] = attempts[b]
    BY <1>b, <2>2
  <2>5. pc = "prepare" /\ pc' \in {"record", "prepare"} /\ UNCHANGED <<batch, todo, pos>>
    BY <1>11 DEF StartAttempt
  <2>6. CheckpointComplete'
    BY <1>e, <2>1, <2>3, <2>4
  <2>7. OpenIsBlank'
    BY <1>a, <2>1, <2>3, <2>4, <2>5 DEF OpenIsBlank, Clean, Batching, Blank, Committing
  <2>8. BatchInv'
    BY <1>a, <1>d, <2>4, <2>5 DEF BatchInv, Batching
  <2> QED BY <2>5, <2>6, <2>7, <2>8 DEF CommitInv
<1>12. CASE RecordRuntimeState
  <2>1. DOMAIN attempts' = DOMAIN attempts
    BY <1>b, <1>12 DEF RecordRuntimeState
  <2>2. \A b \in DOMAIN attempts : /\ attempts'[b].step = attempts[b].step
                                   /\ attempts'[b].status = attempts[b].status
                                   /\ attempts'[b].evals = attempts[b].evals
                                   /\ attempts'[b].handoffs = attempts[b].handoffs
    BY <1>b, <1>c, <1>12 DEF RecordRuntimeState, Attempt
  <2>3. UNCHANGED <<batch, pos, todo>> /\ pc = "record" /\ pc' = "prepare"
    BY <1>12 DEF RecordRuntimeState
  <2>4. BatchInv'
    BY <1>a, <1>d, <2>2, <2>3 DEF BatchInv, Batching
  <2> QED BY <1>h, <2>1, <2>2, <2>3, <2>4 DEF Clean, Batching
<1>13. CASE PrepareStep
  <2> DEFINE s == First(todo)
             a == Latest(Attempts(s))
             x == [attempts[a] EXCEPT !.status = "running",
                      !.from = [d \in Step |-> IF d \in DependsOn[s] THEN done[d] ELSE 0]]
  <2>1. pc = "prepare" /\ pc' = "prepare" /\ UNCHANGED pos /\ todo' = todo \ {s}
    BY <1>13 DEF PrepareStep
  <2>2. CASE UNCHANGED <<attempts, batch, branch>>
    <3>1. BatchInv'
      BY <1>a, <2>1, <2>2 DEF BatchInv, Batching
    <3> QED BY <1>h, <2>1, <2>2, <3>1 DEF Clean, Batching
  <2>3. CASE /\ ~CannotRun(a)
             /\ attempts' = [attempts EXCEPT ![a] = x]
             /\ batch' = Append(batch, a)
    <3>1. a \in Attempts(s) /\ a \in DOMAIN attempts /\ attempts[a].step = s
      <4>1. Attempts(s) # {} /\ Attempts(s) \subseteq 1..Len(attempts)
        BY <1>b, <1>13 DEF PrepareStep, NeedsAttempt, Attempts
      <4>2. a \in Attempts(s)
        BY <1>b, <4>1, LatestIsMember
      <4> QED BY <4>2 DEF Attempts
    <3>2. s \in todo
      BY <1>a, <1>13, FirstIsMember DEF PrepareStep, TypeInv, TypeOK
    <3>3. /\ x.step = s /\ x.status = "running"
          /\ x.evals = attempts[a].evals /\ x.handoffs = attempts[a].handoffs
      BY <1>c, <3>1 DEF Attempt
    <3>4. attempts[a].status \in OpenAttempt
      BY <2>3 DEF CannotRun
    <3> HIDE DEF x, a, s
    <3>5. /\ DOMAIN attempts' = DOMAIN attempts
          /\ \A b \in DOMAIN attempts : attempts'[b] = IF b = a THEN x ELSE attempts[b]
      BY <1>b, <2>3
    <3>6. /\ DOMAIN batch' = DOMAIN batch \cup {Len(batch) + 1}
          /\ batch'[Len(batch) + 1] = a
          /\ \A i \in DOMAIN batch : batch'[i] = batch[i] /\ i # Len(batch) + 1
      BY <1>d, <2>3, <3>1
    <3>7. \A i \in DOMAIN batch : batch[i] # a /\ attempts[batch[i]].step \notin todo
      BY <1>a, <2>1, <3>1, <3>2 DEF BatchInv, Batching
    <3>8. CheckpointComplete'
      BY <1>e, <3>3, <3>5
    <3>9. OpenIsBlank'
      BY <1>a, <2>1, <3>1, <3>3, <3>4, <3>5 DEF OpenIsBlank, Clean, Batching, Blank, Committing
    <3>10. BatchInv'
      <4>1. \A i, k \in DOMAIN batch' : batch'[i] = batch'[k] => i = k
        BY <1>a, <2>1, <3>6, <3>7 DEF BatchInv, Batching
      <4>2. \A i \in DOMAIN batch' : attempts'[batch'[i]].step \notin todo'
        BY <1>d, <2>1, <3>1, <3>3, <3>5, <3>6, <3>7
      <4>3. \A i \in DOMAIN batch' : attempts'[batch'[i]].status = "running"
        BY <1>a, <1>d, <2>1, <3>1, <3>3, <3>5, <3>6, <3>7 DEF BatchInv, Batching
      <4> QED BY <4>1, <4>2, <4>3 DEF BatchInv
    <3> QED BY <2>1, <3>8, <3>9, <3>10 DEF CommitInv
  <2> QED BY <1>13, <2>2, <2>3 DEF PrepareStep
\* Only the row of the attempt that is committed changes, and it stays running.
<1>i. ASSUME NEW x, DOMAIN attempts' = DOMAIN attempts, Current \in DOMAIN attempts,
             \A b \in DOMAIN attempts : attempts'[b] = IF b = Current THEN x ELSE attempts[b],
             x.step = attempts[Current].step, x.status = "running",
             UNCHANGED <<batch, pos>>, pc \in {"commit", "handoffs"},
             pc' \in {"handoffs", "checkpoint"}
      PROVE  CheckpointComplete' /\ OpenIsBlank' /\ BatchInv'
  <2>1. CheckpointComplete'
    BY <1>e, <1>i
  <2>2. Current' = Current
    BY <1>i DEF Current
  <2>3. OpenIsBlank'
    BY <1>a, <1>i, <2>2 DEF OpenIsBlank, Clean, Batching, Blank, Committing
  <2>4. BatchInv'
    BY <1>a, <1>d, <1>i DEF BatchInv, Batching
  <2> QED BY <2>1, <2>3, <2>4
<1>14. CASE CommitEvidence
  <2> DEFINE s == attempts[Current].step
             x == [attempts[Current] EXCEPT !.evals = IF s \in Bare THEN @ ELSE @ + 1]
  <2>1. pos \in DOMAIN batch /\ Current \in DOMAIN attempts /\ pc = "commit"
    BY <1>14, <1>a, <1>d DEF CommitEvidence, Current, TypeInv, TypeOK
  <2>2. attempts[Current].status = "running" /\ Blank(Current)
    <3>1. attempts[Current].status = "running"
      BY <1>a, <1>d, <2>1 DEF BatchInv, Batching, Current
    <3> QED BY <1>a, <2>1, <3>1 DEF OpenIsBlank, Clean, Batching, Committing, OpenAttempt
  <2>3. /\ x.step = s /\ x.status = "running"
        /\ x.evals = IF s \in Bare THEN 0 ELSE 1
        /\ x.handoffs = [t \in Step |-> 0]
    BY <1>c, <2>1, <2>2 DEF Attempt, Blank
  <2>4. CASE /\ attempts' = [attempts EXCEPT ![Current] = x]
             /\ pc' = "handoffs" /\ todo' = NextSteps(s) /\ UNCHANGED <<batch, pos>>
    <3> HIDE DEF x
    <3>1. DOMAIN attempts' = DOMAIN attempts
          /\ \A b \in DOMAIN attempts : attempts'[b] = IF b = Current THEN x ELSE attempts[b]
      BY <1>b, <2>4
    <3>2. CheckpointComplete' /\ OpenIsBlank' /\ BatchInv'
      BY <1>i, <2>1, <2>3, <2>4, <3>1
    <3>3. Current' = Current /\ attempts'[Current] = x
      BY <2>1, <2>4, <3>1 DEF Current
    <3>4. x.handoffs = [t \in Step |-> IF t \in NextSteps(s) \ NextSteps(s) THEN 1 ELSE 0]
      BY <2>3
    <3>5. CommitInv'
      BY <2>3, <2>4, <3>3, <3>4 DEF CommitInv, Evaluated
    <3> QED BY <3>2, <3>5
  <2>5. CASE attempts' \in {attempts, [attempts EXCEPT ![Current] = x]} /\ pc' = "abort"
    <3> HIDE DEF x
    <3>1. DOMAIN attempts' = DOMAIN attempts
          /\ \A b \in DOMAIN attempts : attempts'[b] = attempts[b] \/ attempts'[b] = x
      BY <1>b, <2>5
    <3>2. CheckpointComplete'
      BY <1>e, <2>3, <3>1
    <3>3. ~Clean'
      BY <1>a, <2>5 DEF Clean, Batching, RunningWhileWorking
    <3> QED BY <2>5, <3>2, <3>3 DEF OpenIsBlank, CommitInv, Batching
  <2> QED BY <1>14, <2>4, <2>5 DEF CommitEvidence, Fail
<1>15. CASE WriteHandoff
  <2> DEFINE t0 == First(todo)
             s == attempts[Current].step
             h == attempts[Current].handoffs
             x == [attempts[Current] EXCEPT !.handoffs[t0] = @ + 1]
  <2>1. pos \in DOMAIN batch /\ Current \in DOMAIN attempts /\ pc = "handoffs" /\ pc' = "handoffs"
    BY <1>15, <1>a, <1>d DEF WriteHandoff, Current, TypeInv, References
  <2>2. attempts[Current].status = "running"
    BY <1>a, <1>d, <2>1 DEF BatchInv, Batching, Current
  <2>3. t0 \in todo /\ t0 \in Step /\ todo' = todo \ {t0}
    BY <1>a, <1>15, FirstIsMember DEF WriteHandoff, TypeInv, TypeOK
  <2>4. /\ x.step = s /\ x.status = "running" /\ x.evals = attempts[Current].evals
        /\ x.handoffs = [h EXCEPT ![t0] = @ + 1]
    BY <1>c, <2>1, <2>2 DEF Attempt
  <2>5. /\ todo \subseteq NextSteps(s)
        /\ h = [t \in Step |-> IF t \in NextSteps(s) \ todo THEN 1 ELSE 0]
        /\ Evaluated(Current)
    BY <1>a, <2>1 DEF CommitInv
  <2>6. attempts' = [attempts EXCEPT ![Current] = x] /\ UNCHANGED <<batch, pos>>
    BY <1>15 DEF WriteHandoff
  <2> HIDE DEF x
  <2>7. x.handoffs = [t \in Step |-> IF t \in NextSteps(s) \ todo' THEN 1 ELSE 0]
    <3> HIDE DEF h, s, t0
    <3>1. \A t \in Step : [h EXCEPT ![t0] = @ + 1][t] = IF t \in NextSteps(s) \ todo' THEN 1 ELSE 0
      BY <2>3, <2>5
    <3> QED BY <2>3, <2>4, <2>5, <3>1
  <2>8. DOMAIN attempts' = DOMAIN attempts
        /\ \A b \in DOMAIN attempts : attempts'[b] = IF b = Current THEN x ELSE attempts[b]
    BY <1>b, <2>6
  <2>9. CheckpointComplete' /\ OpenIsBlank' /\ BatchInv'
    BY <1>i, <2>1, <2>4, <2>6, <2>8
  <2>10. Current' = Current /\ attempts'[Current] = x
    BY <2>1, <2>6, <2>8 DEF Current
  <2>11. CommitInv'
    BY <2>1, <2>3, <2>4, <2>5, <2>7, <2>10 DEF CommitInv, Evaluated
  <2> QED BY <2>9, <2>11
<1>16. CASE CompleteJob
  <2> DEFINE x == [attempts[Current] EXCEPT !.job = IF @ = "approved" THEN "completed" ELSE @]
             s == attempts[Current].step
  <2>1. pos \in DOMAIN batch /\ Current \in DOMAIN attempts /\ pc = "handoffs" /\ pc' = "checkpoint"
    BY <1>16, <1>a, <1>d DEF CompleteJob, Current, TypeInv, References
  <2>2. attempts[Current].status = "running"
    BY <1>a, <1>d, <2>1 DEF BatchInv, Batching, Current
  <2>3. /\ x.step = s /\ x.status = "running" /\ x.evals = attempts[Current].evals
        /\ x.handoffs = attempts[Current].handoffs
    BY <1>c, <2>1, <2>2 DEF Attempt
  <2>4. Evaluated(Current) /\ attempts[Current].handoffs = Edges(s)
    BY <1>a, <1>16, <2>1 DEF CompleteJob, CommitInv, Edges
  <2>5. attempts' = [attempts EXCEPT ![Current] = x] /\ UNCHANGED <<batch, pos>>
    BY <1>16 DEF CompleteJob
  <2> HIDE DEF x
  <2>6. DOMAIN attempts' = DOMAIN attempts
        /\ \A b \in DOMAIN attempts : attempts'[b] = IF b = Current THEN x ELSE attempts[b]
    BY <1>b, <2>5
  <2>7. CheckpointComplete' /\ OpenIsBlank' /\ BatchInv'
    BY <1>i, <2>1, <2>3, <2>5, <2>6
  <2>8. Current' = Current /\ attempts'[Current] = x
    BY <2>1, <2>5, <2>6 DEF Current
  <2>9. CommitInv'
    BY <2>1, <2>3, <2>4, <2>8 DEF CommitInv, Evaluated
  <2> QED BY <2>7, <2>9
<1>17. CASE Checkpoint
  <2> DEFINE x == [attempts[Current] EXCEPT !.status = "completed"]
  <2>1. pos \in DOMAIN batch /\ Current = batch[pos] /\ Current \in DOMAIN attempts /\ pc = "checkpoint"
    BY <1>17, <1>a, <1>d DEF Checkpoint, Current, TypeInv, References
  <2>2. /\ x.step = attempts[Current].step /\ x.status = "completed"
        /\ x.evals = attempts[Current].evals /\ x.handoffs = attempts[Current].handoffs
    BY <1>c, <2>1 DEF Attempt
  <2>3. DOMAIN attempts' = DOMAIN attempts
        /\ \A b \in DOMAIN attempts : attempts'[b] = IF b = Current THEN x ELSE attempts[b]
    BY <1>17, <1>b DEF Checkpoint
  <2>4. UNCHANGED batch /\ pc' = "commit" /\ pos' = pos + 1
    BY <1>17 DEF Checkpoint
  <2> HIDE DEF x
  <2>5. CheckpointComplete'
    BY <1>a, <2>1, <2>2, <2>3 DEF CheckpointComplete, CommitInv, Evaluated
  <2>6. OpenIsBlank'
    BY <1>a, <2>1, <2>2, <2>3, <2>4 DEF OpenIsBlank, Clean, Batching, Blank, Committing, OpenAttempt
  <2>7. BatchInv'
    <3>1. \A i \in DOMAIN batch : i >= pos + 1 => batch[i] # Current /\ attempts[batch[i]].status = "running"
      BY <1>a, <1>d, <2>1 DEF BatchInv, Batching
    <3>2. \A i \in DOMAIN batch : i >= pos + 1 => attempts'[batch[i]].status = "running"
      BY <1>d, <2>3, <3>1
    <3> QED BY <1>a, <2>1, <2>4, <3>2 DEF BatchInv, Batching
  <2> QED BY <2>4, <2>5, <2>6, <2>7 DEF CommitInv
<1>18. CASE UNCHANGED vars
  <2>1. UNCHANGED <<attempts, batch, run, pc, pos, todo>>
    BY <1>18 DEF vars
  <2>2. pc' \in Batching => BatchInv'
    BY <1>a, <2>1 DEF BatchInv
  <2>3. Clean' => Clean
    BY <2>1 DEF Clean
  <2>4. /\ DOMAIN attempts' = DOMAIN attempts
        /\ \A b \in DOMAIN attempts : /\ attempts'[b].step = attempts[b].step
                                      /\ attempts'[b].status = attempts[b].status
                                      /\ attempts'[b].evals = attempts[b].evals
                                      /\ attempts'[b].handoffs = attempts[b].handoffs
    BY <2>1
  <2> HIDE DEF Goal
  <2> QED BY <1>h, <2>1, <2>2, <2>3, <2>4
<1> HIDE DEF Goal
<1> QED
  BY <1>1, <1>2, <1>3, <1>4, <1>5, <1>6, <1>7, <1>8, <1>9, <1>10, <1>11, <1>12, <1>13, <1>14,
     <1>15, <1>16, <1>17, <1>18
  DEF Next, RunnerStep

\* Every checkpoint has its evaluation and exactly one handoff for every outgoing
\* edge, however often its commit was interrupted and its step repeated.
THEOREM CheckpointCorrect == Spec => []CheckpointComplete
<1>1. EvidenceInv => CheckpointComplete
  BY DEF EvidenceInv
<1> QED BY EvidenceInit, EvidenceNext, <1>1, PTL DEF Spec
=============================================================================
