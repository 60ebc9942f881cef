---- MODULE Writeback ----
(* WritebackService: an approved patch is written to the operator's source   *)
(* tree as a journalled transaction, beside the history purge of the same    *)
(* service.                                                                  *)
(*                                                                           *)
(* approve() and the startup recovery share a process-wide lock, so one      *)
(* call, wb, is under way at a time; purges, outside edits of the source     *)
(* tree and crashes interleave with each of its file operations.  File       *)
(* contents are the three the hashes tell apart: the base the patch was made *)
(* for, the patched contents, and anything else.                             *)
EXTENDS HistoryPurge

CONSTANTS
    W,           \* the run whose patch is written back
    NFiles,      \* number of files in the patch
    MaxEdits     \* bound on the edits made outside the service

ASSUME WritebackAssumption ==
    /\ W \in Runs
    /\ NFiles \in Nat \ {0} /\ MaxEdits \in Nat

Files == 1 .. NFiles
Contents == {"base", "new", "other"}

VARIABLES
    src,         \* src[f]: contents of the source file
    temp,        \* the files whose transaction-owned temporary exists
    txn,         \* the transaction directory: the state of its journal;
                 \* "headless" is a published directory without a journal
    backup,      \* the files whose base copy is in the directory
    trace,       \* the writeback_applied trace event of this patch
    wb,          \* the call that holds _WRITEBACK_APPROVAL_LOCK
    edits, edited,
    refused      \* why the last startup was refused, if it was

wbVars == <<src, temp, txn, backup, trace, wb, edits, edited, refused>>
vars == <<purgeVars, wbVars>>

Published == {"prepared", "committed", "rolled_back"}
Idle == [pc |-> "idle", mode |-> "none", i |-> 0, failed |-> FALSE]

TypeOK ==
    /\ PurgeTypeOK
    /\ src \in [Files -> Contents]
    /\ temp \subseteq Files /\ backup \subseteq Files
    /\ txn \in Published \cup {"none", "preparing", "headless"}
    /\ trace \in {"absent", "recorded", "purged"}
    /\ wb \in [pc : {"idle", "recover", "plan", "tests", "prepare", "validate",
                     "apply", "apply_swap", "audit", "commit",
                     "restore", "restore_swap", "sweep", "discard"},
               mode : {"none", "startup", "approve", "finish"},
               i : 0 .. NFiles + 1, failed : BOOLEAN]
    /\ edits \in 0 .. MaxEdits /\ edited \subseteq Files
    /\ refused \in {"no", "unknown", "identity", "journal", "backup", "error"}

Init ==
    /\ PurgeInit /\ row[W] = "settled"
    /\ src = [f \in Files |-> "base"]
    /\ temp = {} /\ txn = "none" /\ backup = {}
    /\ trace = "absent"
    /\ wb = Idle
    /\ edits = 0 /\ edited = {}
    /\ refused = "no"

All(c) == \A f \in Files : src[f] = c

\* The patch artifact belongs to the run's latest prepare_patch attempt and its
\* file has the recorded hash.
PatchIdentified == row[W] # "gone" /\ place[W] = Stored

\* The journal names a run, task and patch artifact that exist and agree with it.
TransactionIdentified == row[W] # "gone" /\ place[W] = Stored

\* The trace of the completed writeback answers a repeated approval.
CompletedApproval == trace # "absent"

\* Every hunk matches and every file is at the hash the operator confirmed.
PatchApplies == All("base")

JournalReadable == txn \in Published
UnknownFiles == {f \in Files : src[f] = "other"}
BackupsValid == backup = Files

\* The transaction-owned temporary beside a target: at most one per file.
WithTemp(i) == temp \cup {i}
WithoutTemp(i) == temp \ {i}

\* os.replace of a target by its temporary.
Replace(i, c) == src' = [src EXCEPT ![i] = c]

Goto(pc) == wb' = [wb EXCEPT !.pc = pc]
GotoFile(pc, i) == wb' = [wb EXCEPT !.pc = pc, !.i = i]

\* An exception leaves the call; during startup it keeps the service down.
Raise(why) ==
    /\ wb' = Idle
    /\ up' = IF wb.mode = "startup" THEN "down" ELSE up
    /\ refused' = IF wb.mode = "startup" THEN why ELSE refused

\* A failed write turns to the rollback, after which the call only returns.
Rollback == wb' = [wb EXCEPT !.pc = "restore", !.i = NFiles, !.mode = "finish"]

\* What follows once no transaction is pending: the service starts, the
\* approval goes on, or the call that finished its own transaction returns.
Resume ==
    CASE wb.mode = "startup" -> wb' = Idle /\ up' = "serving" /\ refused' = "no"
      [] wb.mode = "approve" -> Goto("plan") /\ UNCHANGED <<up, refused>>
      [] OTHER -> wb' = Idle /\ UNCHANGED <<up, refused>>

Fault == faults < MaxFaults /\ faults' = faults + 1

purgeRest == <<row, listed, place, purge, crashes, stranded>>
disk == <<src, temp, txn, backup, trace>>
outside == <<edits, edited>>

----------------------------------------------------------------------------
(* Recovery, before the service starts and before every approval.            *)

StartRecovery ==
    /\ up = "writeback" /\ wb.pc = "idle"
    /\ wb' = [Idle EXCEPT !.pc = "recover", !.mode = "startup"]
    /\ UNCHANGED <<purgeVars, disk, outside, refused>>

Approve ==
    /\ up = "serving" /\ wb.pc = "idle" /\ row[W] # "gone"
    /\ wb' = [Idle EXCEPT !.pc = "recover", !.mode = "approve"]
    /\ UNCHANGED <<purgeVars, disk, outside, refused>>

\* Mutant of RecoverNothing: an unpublished preparation is not discarded.
RecoverOnlyNothing ==
    /\ wb.pc = "recover" /\ txn = "none"
    /\ Resume
    /\ UNCHANGED <<purgeRest, faults, disk, outside>>

\* Nothing pending, or only a preparation that was never published.
RecoverNothing ==
    /\ wb.pc = "recover" /\ txn \in {"none", "preparing"}
    /\ txn' = "none" /\ backup' = {}
    /\ Resume
    /\ UNCHANGED <<purgeRest, faults, src, temp, trace, outside>>

\* The reasons recovery stops on without touching the transaction.
RecoveryBlocker ==
    IF ~ JournalReadable THEN "journal"
    ELSE IF ~ TransactionIdentified THEN "identity"
    ELSE IF UnknownFiles # {} THEN "unknown"
    ELSE "none"

Undone == txn = "rolled_back" /\ All("base")
Applied == trace = "recorded" /\ All("new")

RecoveryStops ==
    /\ wb.pc = "recover" /\ txn \notin {"none", "preparing"}
    /\ RecoveryBlocker # "none"
    /\ Raise(RecoveryBlocker)
    /\ UNCHANGED <<purgeRest, faults, disk, outside>>

RecoverDecided ==
    /\ wb.pc = "recover" /\ txn \in Published /\ RecoveryBlocker = "none"
    /\ Undone \/ Applied
    /\ txn' = IF Undone THEN txn ELSE "committed"
    /\ Goto("sweep")
    /\ UNCHANGED <<purgeVars, src, temp, backup, trace, outside, refused>>

RecoverByRestoring ==
    /\ wb.pc = "recover" /\ txn \in Published /\ RecoveryBlocker = "none"
    /\ ~ Undone /\ ~ Applied
    /\ IF BackupsValid
       THEN GotoFile("restore", NFiles) /\ UNCHANGED <<up, refused>>
       ELSE Raise("backup")
    /\ UNCHANGED <<purgeRest, faults, disk, outside>>

SweepTemps ==
    /\ wb.pc = "sweep"
    /\ temp' = {}
    /\ Goto("discard")
    /\ UNCHANGED <<purgeVars, src, txn, backup, trace, outside, refused>>

----------------------------------------------------------------------------
(* _restore_transaction, in reverse order, and the removal of the directory. *)

\* Mutant of RestoreFile: a target at its base contents keeps its temporary.
RestoreFileKeepsTemp ==
    /\ wb.pc = "restore" /\ wb.i > 0
    /\ LET i == wb.i
       IN  CASE src[i] = "base" -> GotoFile("restore", i - 1) /\ temp' = temp
             [] src[i] = "new" /\ i \in backup ->
                    Goto("restore_swap") /\ temp' = WithTemp(i)
             [] OTHER -> /\ wb' = [wb EXCEPT !.i = i - 1, !.failed = TRUE]
                         /\ temp' = WithoutTemp(i)
    /\ UNCHANGED <<purgeVars, src, txn, backup, trace, outside, refused>>

\* A target at its base contents is skipped; somebody else's bytes are a
\* failure; patched contents are compared once more and then replaced.
RestoreFile ==
    /\ wb.pc = "restore" /\ wb.i > 0
    /\ LET i == wb.i
       IN  CASE src[i] = "base" -> GotoFile("restore", i - 1) /\ temp' = WithoutTemp(i)
             [] src[i] = "new" /\ i \in backup ->
                    Goto("restore_swap") /\ temp' = WithTemp(i)
             [] OTHER -> /\ wb' = [wb EXCEPT !.i = i - 1, !.failed = TRUE]
                         /\ temp' = WithoutTemp(i)
    /\ UNCHANGED <<purgeVars, src, txn, backup, trace, outside, refused>>

RestoreSwap ==
    /\ wb.pc = "restore_swap"
    /\ Replace(wb.i, "base")
    /\ temp' = WithoutTemp(wb.i)
    /\ GotoFile("restore", wb.i - 1)
    /\ UNCHANGED <<purgeVars, txn, backup, trace, outside, refused>>

\* Failures leave the journal for the next recovery.
RestoreEnds ==
    /\ wb.pc = "restore" /\ wb.i = 0
    /\ \/ /\ wb.failed
          /\ Raise("error")
          /\ txn' = txn
       \/ /\ ~ wb.failed
          /\ txn' = "rolled_back"
          /\ Goto("discard")
          /\ UNCHANGED <<up, refused>>
    /\ UNCHANGED <<purgeRest, faults, src, temp, backup, trace, outside>>

\* rmtree unlinks the journal and the backups one by one, in any order.
DiscardEntry ==
    /\ wb.pc = "discard"
    /\ \/ /\ txn # "headless" /\ txn' = "headless"
          /\ backup' = backup
       \/ \E f \in backup : backup' = backup \ {f} /\ txn' = txn
    /\ UNCHANGED <<purgeVars, src, temp, trace, wb, outside, refused>>

DiscardEnds ==
    /\ wb.pc = "discard" /\ txn = "headless" /\ backup = {}
    /\ txn' = "none"
    /\ Resume
    /\ UNCHANGED <<purgeRest, faults, src, temp, backup, trace, outside>>

----------------------------------------------------------------------------
(* approve(), after its recovery.                                            *)

\* Mutant of BuildPlan: the record of an applied writeback is not consulted.
BuildPlanAgain ==
    /\ wb.pc = "plan"
    /\ IF PatchIdentified /\ PatchApplies THEN Goto("tests") ELSE wb' = Idle
    /\ UNCHANGED <<purgeVars, disk, outside, refused>>

\* A writeback on record as applied is answered from the record (or is a
\* conflict when a file has changed since); otherwise the patch must apply to
\* the exact base contents the operator confirmed.
BuildPlan ==
    /\ wb.pc = "plan"
    /\ IF PatchIdentified /\ ~ CompletedApproval /\ PatchApplies
       THEN Goto("tests")
       ELSE wb' = Idle
    /\ UNCHANGED <<purgeVars, disk, outside, refused>>

\* The patched copy is tested; the patch must still be readable afterwards.
RunTests ==
    /\ wb.pc = "tests"
    /\ \/ PatchIdentified /\ GotoFile("prepare", 1)
       \/ wb' = Idle
    /\ UNCHANGED <<purgeVars, disk, outside, refused>>

\* Backups of the planned base contents, then the journal, then one rename.
PrepareBackup ==
    /\ wb.pc = "prepare" /\ wb.i <= NFiles
    /\ txn' = "preparing"
    /\ backup' = backup \cup {wb.i}
    /\ GotoFile("prepare", wb.i + 1)
    /\ UNCHANGED <<purgeVars, src, temp, trace, outside, refused>>

Publish ==
    /\ wb.pc = "prepare" /\ wb.i > NFiles
    /\ txn' = "prepared"
    /\ Goto("validate")
    /\ UNCHANGED <<purgeVars, src, temp, backup, trace, outside, refused>>

\* The published transaction must belong to rows and files that exist.
ValidateTransaction ==
    /\ wb.pc = "validate"
    /\ wb' = IF TransactionIdentified /\ BackupsValid THEN [wb EXCEPT !.pc = "apply", !.i = 1] ELSE Idle
    /\ UNCHANGED <<purgeVars, disk, outside, refused>>

\* Each target is compared with its base, the temporary is written beside it
\* and the target is compared again: one step.  The replacement is the next.
ApplyFile ==
    /\ wb.pc = "apply" /\ wb.i <= NFiles
    /\ IF src[wb.i] = "base"
       THEN Goto("apply_swap") /\ temp' = WithTemp(wb.i)
       ELSE Rollback /\ temp' = temp
    /\ UNCHANGED <<purgeVars, src, txn, backup, trace, outside, refused>>

ApplySwap ==
    /\ wb.pc = "apply_swap"
    /\ Replace(wb.i, "new")
    /\ temp' = WithoutTemp(wb.i)
    /\ IF wb.i < NFiles THEN GotoFile("apply", wb.i + 1) ELSE Goto("audit")
    /\ UNCHANGED <<purgeVars, txn, backup, trace, outside, refused>>

\* The trace is part of the success: if its run is gone, it cannot be stored.
RecordTrace ==
    /\ wb.pc = "audit"
    /\ IF row[W] # "gone"
       THEN trace' = "recorded" /\ Goto("commit")
       ELSE trace' = trace /\ Rollback
    /\ UNCHANGED <<purgeVars, src, temp, txn, backup, outside, refused>>

MarkCommitted ==
    /\ wb.pc = "commit"
    /\ txn' = "committed"
    /\ wb' = [wb EXCEPT !.pc = "discard", !.mode = "finish"]
    /\ UNCHANGED <<purgeVars, src, temp, backup, trace, outside, refused>>

----------------------------------------------------------------------------
(* Failures, outside edits, purge and crash.                                 *)

\* An error while the source is being written or the trace stored turns the
\* call to the rollback, and one on a file of a rollback is counted; either may
\* strike after the replacement, and may leave the temporary.  Any other error
\* ends the call where it stands.
WriteStepFails ==
    /\ \/ wb.pc \in {"apply", "apply_swap", "audit"} /\ Rollback
       \/ /\ wb.pc \in {"restore", "restore_swap"} /\ wb.i > 0
          /\ wb' = [wb EXCEPT !.pc = "restore", !.i = @ - 1, !.failed = TRUE]
    /\ temp' \in {temp, WithoutTemp(wb.i)}
    /\ \/ src' = src
       \/ wb.pc = "apply_swap" /\ Replace(wb.i, "new")
       \/ wb.pc = "restore_swap" /\ Replace(wb.i, "base")
    /\ UNCHANGED <<up, refused>>

OtherStepFails ==
    /\ \/ wb.pc \in {"recover", "plan", "prepare", "validate", "commit", "sweep", "discard"}
       \/ wb.pc = "restore" /\ wb.i = 0
    /\ Raise("error")
    /\ UNCHANGED <<temp, src>>

StepFails ==
    /\ Fault
    /\ WriteStepFails \/ OtherStepFails
    /\ UNCHANGED <<purgeRest, txn, backup, trace, outside>>

\* Somebody edits, or reverts, a file of the source tree.
Edit(f) ==
    /\ edits < MaxEdits /\ edits' = edits + 1
    /\ \E c \in Contents \ {src[f]} : src' = [src EXCEPT ![f] = c]
    /\ edited' = edited \cup {f}
    /\ UNCHANGED <<purgeVars, temp, txn, backup, trace, wb, refused>>

\* _delete_run_records takes the trace events of the run with it.
PurgeDelete ==
    /\ DeleteRows
    /\ trace' = IF W \in purge.ids /\ trace = "recorded" THEN "purged" ELSE trace
    /\ UNCHANGED <<src, temp, txn, backup, wb, outside, refused>>

Crash ==
    /\ PurgeCrash
    /\ wb' = Idle
    /\ UNCHANGED <<disk, outside, refused>>

PurgeStep ==
    \/ \E r \in Runs :
        \/ WriteFile(r) \/ WriteRow(r) \/ WriteFails(r) \/ Settle(r) \/ Lock(r)
        \/ QuarantineMove(r) \/ RestoreMove(r) \/ DiscardMove(r)
    \/ PurgePreview \/ PurgeBacksOut \/ RestoreFails \/ PurgeEnds
    \/ Start \/ RecoverDone
    \/ \E k \in Roots : RecoverRefuses(k) \/ \E r \in Runs : RecoverMove(k, r)

Recovery == RecoverNothing \/ RecoveryStops \/ RecoverDecided \/ RecoverByRestoring
Approval == BuildPlan \/ RunTests \/ PrepareBackup \/ Publish \/ ValidateTransaction
Writing == ApplyFile \/ ApplySwap \/ RecordTrace \/ MarkCommitted
Undoing == SweepTemps \/ RestoreFile \/ RestoreSwap \/ RestoreEnds

Call == Recovery \/ Approval \/ Writing \/ Undoing \/ DiscardEntry \/ DiscardEnds

Next ==
    \/ PurgeStep /\ UNCHANGED wbVars
    \/ PurgeDelete
    \/ StartRecovery \/ Approve \/ Call
    \/ StepFails \/ Crash
    \/ \E f \in Files : Edit(f)

\* The process is restarted when it is down, and its startup and the call in
\* progress go on: straight-line code in one thread.
Fairness ==
    /\ WF_vars(Start /\ UNCHANGED wbVars)
    /\ WF_vars((RecoverDone \/ \E k \in Roots, r \in Runs : RecoverMove(k, r)) /\ UNCHANGED wbVars)
    /\ WF_vars(StartRecovery)
    /\ WF_vars(Call)

Spec == Init /\ [][Next]_vars /\ Fairness

----------------------------------------------------------------------------
(* Properties                                                                *)

\* What a source writeback promises (AtomicWriteback): the window it opens is
\* the time a journal is on disk.
Atomic == INSTANCE AtomicWriteback WITH
    repo <- src, open <- txn \in Published,
    audited <- trace # "absent", foreign <- edited

\* approve, its rollback and the recovery after a crash write the patch as one
\* set, with the audit trace as part of the success.
WritesAtomically == Atomic!Spec

\* Outside a transaction no temporary file of the service is left in the source
\* tree, and files nobody else touched are all at their base contents, or all
\* patched with the trace to show for it.
NothingHalfWritten ==
    txn \notin Published =>
        /\ temp = {}
        /\ edited = {} =>
               (All("base") /\ trace = "absent") \/ (All("new") /\ trace # "absent")

\* A service that is down serves again, whatever crash or I/O error stopped it,
\* unless somebody edited the files of a pending transaction, its run was
\* purged, its directory lost the journal, or a quarantine is mixed.
StartupSucceeds ==
    up = "down" ~> \/ up = "serving"
                   \/ edited # {} \/ txn = "headless"
                   \/ txn \in Published /\ row[W] = "gone"
                   \/ \E k \in Roots : Cardinality(Present(k)) > 1

\* backend/README.md on startup recovery: "base/new mixed state is rolled back
\* as a whole, and any unknown target bytes stop startup".  A startup that finds
\* a mixture of base and new contents, and no I/O error, is not refused.
MixedStateRolledBack ==
    faults = 0 /\ (\E f, g \in Files : src[f] = "base" /\ src[g] = "new")
        => refused \in {"no", "unknown"}
====
