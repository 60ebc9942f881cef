---- MODULE WritebackProofs ----
(* Proofs about the history purge and the source writeback: no artifact on   *)
(* record is lost, nothing stays half written, and the journalled            *)
(* transaction implements the atomic writeback.                              *)
EXTENDS Writeback, FiniteSetTheorems, TLAPS

----------------------------------------------------------------------------
(* The history purge                                                         *)

PurgeRecord ==
    [pc : {"idle", "move", "restore", "discard"},
     ids : SUBSET Runs, todo : SUBSET Runs, moved : SUBSET Runs, root : 0 .. MaxPurges]

Places == {Unwritten, Stored, Unlinked} \cup {Held(k) : k \in Roots}

PurgeTypes ==
    /\ row \in [Runs -> {"busy", "settled", "gone"}]
    /\ listed \subseteq Runs
    /\ place \in [Runs -> Places]
    /\ purge \in PurgeRecord
    /\ up \in {"down", "quarantines", "writeback", "serving"}
    /\ faults \in 0 .. MaxFaults /\ crashes \in 0 .. MaxCrashes
    /\ stranded \in BOOLEAN

\* A listed artifact has a run and a file.
ListedKept == \A r \in listed : row[r] # "gone" /\ place[r] \notin {Unwritten, Unlinked}

\* A purge touches the files of its preview, and unlinks them when their runs
\* are gone.
PurgeScope ==
    /\ purge.todo \subseteq purge.ids /\ purge.moved \subseteq purge.ids
    /\ purge.pc = "discard" => \A r \in purge.ids : row[r] = "gone"
    /\ purge.pc # "idle" => purge.root \in Roots

\* The artifacts that cannot be read are the ones the purge in progress holds.
HeldByPurge ==
    up \in {"writeback", "serving"} /\ ~ stranded =>
        \A r \in listed : \/ place[r] = Stored
                          \/ purge.pc \in {"move", "restore"} /\ r \in purge.moved

PurgeInv == PurgeTypes /\ ListedKept /\ PurgeScope /\ HeldByPurge

LEMMA PlacesDiffer ==
    /\ Stored \notin {Unwritten, Unlinked} /\ Unwritten # Unlinked
    /\ \A k : Held(k) \notin {Unwritten, Stored, Unlinked}
BY DEF Stored, Unwritten, Unlinked, Held

LEMMA PlaceTypes == {Unwritten, Stored, Unlinked} \subseteq Places /\ \A k \in Roots : Held(k) \in Places
BY DEF Places

LEMMA PurgeInitHolds == Init => PurgeInv
<1> SUFFICES ASSUME Init PROVE PurgeInv
  OBVIOUS
<1>1. PurgeTypes
  <2>1. place \in [Runs -> Places]
    BY PlaceTypes DEF Init, PurgeInit
  <2>2. purge \in PurgeRecord
    BY PurgeAssumption DEF Init, PurgeInit, PurgeRecord
  <2>3. faults \in 0 .. MaxFaults /\ crashes \in 0 .. MaxCrashes
    BY PurgeAssumption DEF Init, PurgeInit
  <2> QED BY <2>1, <2>2, <2>3 DEF Init, PurgeInit, PurgeTypes
<1>2. ListedKept /\ PurgeScope /\ HeldByPurge
  BY PlacesDiffer DEF Init, PurgeInit, ListedKept, PurgeScope, HeldByPurge
<1> QED BY <1>1, <1>2 DEF PurgeInv

\* What the purge's fields are after a step that rewrites some of them.
LEMMA PurgeIdleFields ==
    ASSUME purge \in PurgeRecord
    PROVE  /\ PurgeIdle \in PurgeRecord
           /\ PurgeIdle.pc = "idle" /\ PurgeIdle.ids = {} /\ PurgeIdle.todo = {}
           /\ PurgeIdle.moved = {}
BY DEF PurgeIdle, PurgeRecord

\* A quarantine directory whose runs are alike and which holds the file of a
\* run on record holds only such files.
LEMMA AlikeRuns ==
    ASSUME NEW k, NEW r \in Quarantined(k), Cardinality(Present(k)) = 1
    PROVE  Present(k) = {TRUE} <=> row[r] # "gone"
<1>1. Present(k) \subseteq {TRUE, FALSE} /\ (row[r] # "gone") \in Present(k)
  BY DEF Present, Quarantined
<1>2. IsFiniteSet({TRUE, FALSE})
  <2>1. IsFiniteSet({FALSE})
    BY FS_Singleton
  <2>2. {FALSE} \cup {TRUE} = {TRUE, FALSE}
    OBVIOUS
  <2> QED BY <2>1, <2>2, FS_AddElement
<1>3. IsFiniteSet(Present(k))
  BY <1>1, <1>2, FS_Subset
<1>4. PICK x : Present(k) = {x}
  BY <1>3, FS_Singleton
<1> QED BY <1>1, <1>4

\* The bound on injected errors is kept by every step that counts one.
LEMMA FaultBound ==
    ASSUME PurgeTypes, faults' = faults \/ (faults < MaxFaults /\ faults' = faults + 1)
    PROVE  faults' \in 0 .. MaxFaults
BY PurgeAssumption DEF PurgeTypes

LEMMA PurgeStepHolds ==
    ASSUME PurgeInv, PurgeStep \/ DeleteRows \/ PurgeCrash
    PROVE  PurgeInv'
<1> USE PlacesDiffer, PlaceTypes
<1>0. PurgeTypes /\ ListedKept /\ PurgeScope /\ HeldByPurge
  BY DEF PurgeInv
<1>1. ASSUME NEW r \in Runs, WriteFile(r)
      PROVE  PurgeInv'
  BY <1>0, <1>1 DEF WriteFile, PurgeInv, PurgeTypes, ListedKept, PurgeScope, HeldByPurge
<1>2. ASSUME NEW r \in Runs, WriteRow(r)
      PROVE  PurgeInv'
  <2>1. PurgeTypes' /\ PurgeScope'
    BY <1>0, <1>2 DEF WriteRow, PurgeTypes, PurgeScope
  <2>2. ListedKept' /\ HeldByPurge'
    BY <1>0, <1>2 DEF WriteRow, ListedKept, HeldByPurge
  <2> QED BY <2>1, <2>2 DEF PurgeInv
<1>3. ASSUME NEW r \in Runs, WriteFails(r)
      PROVE  PurgeInv'
  <2>1. PurgeTypes' /\ PurgeScope'
    BY <1>0, <1>3, FaultBound DEF WriteFails, PurgeTypes, PurgeScope
  <2>2. ListedKept' /\ HeldByPurge'
    BY <1>0, <1>3 DEF WriteFails, ListedKept, HeldByPurge, PurgeTypes
  <2> QED BY <2>1, <2>2 DEF PurgeInv
<1>4. ASSUME NEW r \in Runs, Settle(r) \/ Lock(r)
      PROVE  PurgeInv'
  <2>1. PICK s \in {"busy", "settled"} : row' = [row EXCEPT ![r] = s]
    BY <1>4 DEF Settle, Lock
  <2>2. row[r] # "gone" /\ UNCHANGED <<listed, place, purge, up, faults, crashes, stranded>>
    BY <1>4 DEF Settle, Lock
  <2>3. PurgeTypes' /\ HeldByPurge'
    BY <1>0, <2>1, <2>2 DEF PurgeTypes, HeldByPurge
  <2>4. ListedKept' /\ PurgeScope'
    BY <1>0, <2>1, <2>2 DEF PurgeTypes, PurgeRecord, ListedKept, PurgeScope
  <2> QED BY <2>3, <2>4 DEF PurgeInv
<1>5. CASE PurgePreview
  <2>1. purge' \in PurgeRecord
    <3>1. purge.root + 1 \in 0 .. MaxPurges
      BY <1>0, <1>5, PurgeAssumption DEF PurgePreview, PurgeTypes, PurgeRecord
    <3> QED BY <1>0, <1>5, <3>1 DEF PurgePreview, PurgeTypes, PurgeRecord, Eligible
  <2>2. PurgeTypes'
    BY <1>0, <1>5, <2>1 DEF PurgePreview, PurgeTypes
  <2>3. ListedKept' /\ PurgeScope' /\ HeldByPurge'
    <3>1. purge.root + 1 \in Roots
      BY <1>0, <1>5, PurgeAssumption DEF PurgePreview, PurgeTypes, PurgeRecord, Roots
    <3> QED BY <1>0, <1>5, <3>1 DEF PurgePreview, ListedKept, PurgeScope, HeldByPurge
  <2> QED BY <2>2, <2>3 DEF PurgeInv
<1>6. ASSUME NEW r \in Runs, QuarantineMove(r)
      PROVE  PurgeInv'
  <2>1. /\ purge' \in PurgeRecord /\ purge'.pc = "move" /\ purge'.ids = purge.ids
        /\ purge'.root = purge.root /\ purge'.todo = purge.todo \ {r}
        /\ purge'.moved = IF place[r] = Stored THEN purge.moved \cup {r} ELSE purge.moved
    BY <1>0, <1>6 DEF QuarantineMove, PurgeTypes, PurgeRecord
  <2>2. purge.root \in Roots
    BY <1>0, <1>6 DEF QuarantineMove, PurgeScope
  <2>3. PurgeTypes'
    BY <1>0, <1>6, <2>1, <2>2 DEF QuarantineMove, PurgeTypes
  <2>4. ListedKept' /\ PurgeScope' /\ HeldByPurge'
    BY <1>0, <1>6, <2>1 DEF QuarantineMove, ListedKept, PurgeScope, HeldByPurge, PurgeTypes
  <2> QED BY <2>3, <2>4 DEF PurgeInv
<1>7. CASE DeleteRows
  <2>1. /\ purge' \in PurgeRecord /\ purge'.pc = "discard" /\ purge'.ids = purge.ids
        /\ purge'.root = purge.root /\ purge'.todo = purge.todo /\ purge'.moved = purge.moved
    BY <1>0, <1>7 DEF DeleteRows, PurgeTypes, PurgeRecord
  <2>2. PurgeTypes'
    BY <1>0, <1>7, <2>1 DEF DeleteRows, PurgeTypes
  <2>3. ListedKept' /\ PurgeScope' /\ HeldByPurge'
    BY <1>0, <1>7, <2>1 DEF DeleteRows, ListedKept, PurgeScope, HeldByPurge, PurgeTypes, PurgeRecord
  <2> QED BY <2>2, <2>3 DEF PurgeInv
<1>8. CASE PurgeBacksOut
  <2>1. /\ purge' \in PurgeRecord /\ purge'.pc = "restore" /\ purge'.ids = purge.ids
        /\ purge'.root = purge.root /\ purge'.todo = purge.todo /\ purge'.moved = purge.moved
    BY <1>0, <1>8 DEF PurgeBacksOut, PurgeTypes, PurgeRecord
  <2>2. PurgeTypes'
    BY <1>0, <1>8, <2>1, FaultBound DEF PurgeBacksOut, PurgeTypes
  <2>3. ListedKept' /\ PurgeScope' /\ HeldByPurge'
    BY <1>0, <1>8, <2>1 DEF PurgeBacksOut, ListedKept, PurgeScope, HeldByPurge
  <2> QED BY <2>2, <2>3 DEF PurgeInv
<1>9. ASSUME NEW r \in Runs, RestoreMove(r)
      PROVE  PurgeInv'
  <2>1. /\ purge' \in PurgeRecord /\ purge'.pc = "restore" /\ purge'.ids = purge.ids
        /\ purge'.root = purge.root /\ purge'.todo = purge.todo /\ purge'.moved = purge.moved \ {r}
    BY <1>0, <1>9 DEF RestoreMove, PurgeTypes, PurgeRecord
  <2>2. PurgeTypes'
    BY <1>0, <1>9, <2>1 DEF RestoreMove, PurgeTypes
  <2>3. ListedKept' /\ PurgeScope' /\ HeldByPurge'
    BY <1>0, <1>9, <2>1 DEF RestoreMove, ListedKept, PurgeScope, HeldByPurge, PurgeTypes
  <2> QED BY <2>2, <2>3 DEF PurgeInv
<1>10. CASE RestoreFails
  <2>1. PurgeTypes'
    BY <1>0, <1>10, FaultBound, PurgeIdleFields DEF RestoreFails, PurgeTypes
  <2>2. ListedKept' /\ PurgeScope' /\ HeldByPurge'
    BY <1>0, <1>10, PurgeIdleFields DEF RestoreFails, ListedKept, PurgeScope, HeldByPurge, PurgeTypes
  <2> QED BY <2>1, <2>2 DEF PurgeInv
<1>11. ASSUME NEW r \in Runs, DiscardMove(r)
      PROVE  PurgeInv'
  <2>1. /\ purge' \in PurgeRecord /\ purge'.pc = "discard" /\ purge'.ids = purge.ids
        /\ purge'.root = purge.root /\ purge'.todo = purge.todo /\ purge'.moved = purge.moved \ {r}
    BY <1>0, <1>11 DEF DiscardMove, PurgeTypes, PurgeRecord
  <2>2. PurgeTypes'
    BY <1>0, <1>11, <2>1, FaultBound DEF DiscardMove, PurgeTypes
  <2>3. r \notin listed
    BY <1>0, <1>11 DEF DiscardMove, PurgeScope, ListedKept
  <2>4. ListedKept' /\ PurgeScope' /\ HeldByPurge'
    BY <1>0, <1>11, <2>1, <2>3 DEF DiscardMove, ListedKept, PurgeScope, HeldByPurge, PurgeTypes
  <2> QED BY <2>2, <2>4 DEF PurgeInv
<1>12. CASE PurgeEnds
  <2>1. PurgeTypes'
    BY <1>0, <1>12, PurgeIdleFields DEF PurgeEnds, PurgeTypes
  <2>2. ListedKept' /\ PurgeScope' /\ HeldByPurge'
    BY <1>0, <1>12, PurgeIdleFields DEF PurgeEnds, ListedKept, PurgeScope, HeldByPurge, PurgeTypes
  <2> QED BY <2>1, <2>2 DEF PurgeInv
<1>13. CASE Start
  BY <1>0, <1>13 DEF Start, PurgeInv, PurgeTypes, ListedKept, PurgeScope, HeldByPurge
<1>14. ASSUME NEW k \in Roots, NEW r \in Runs, RecoverMove(k, r)
       PROVE  PurgeInv'
  <2>1. Present(k) = {TRUE} <=> row[r] # "gone"
    BY <1>14, AlikeRuns DEF RecoverMove
  <2>2. place' = [place EXCEPT ![r] = IF row[r] # "gone" THEN Stored ELSE Unlinked]
    BY <1>14, <2>1 DEF RecoverMove
  <2>3. PurgeTypes'
    BY <1>0, <1>14, <2>2 DEF RecoverMove, PurgeTypes
  <2>4. ListedKept' /\ PurgeScope' /\ HeldByPurge'
    BY <1>0, <1>14, <2>2 DEF RecoverMove, ListedKept, PurgeScope, HeldByPurge, PurgeTypes
  <2> QED BY <2>3, <2>4 DEF PurgeInv
<1>15. ASSUME NEW k \in Roots, RecoverRefuses(k)
       PROVE  PurgeInv'
  BY <1>0, <1>15, FaultBound DEF RecoverRefuses, PurgeInv, PurgeTypes, ListedKept, PurgeScope, HeldByPurge
<1>16. CASE RecoverDone
  <2>1. \A r \in listed : place[r] = Stored
    BY <1>0, <1>16 DEF RecoverDone, Quarantined, PurgeTypes, ListedKept, Places
  <2> QED BY <1>0, <1>16, <2>1 DEF RecoverDone, PurgeInv, PurgeTypes, ListedKept, PurgeScope, HeldByPurge
<1>17. CASE PurgeCrash
  <2>1. crashes' \in 0 .. MaxCrashes
    BY <1>0, <1>17, PurgeAssumption DEF PurgeCrash, PurgeTypes
  <2>2. PurgeTypes'
    BY <1>0, <1>17, <2>1, PurgeIdleFields DEF PurgeCrash, PurgeTypes
  <2>3. ListedKept' /\ PurgeScope' /\ HeldByPurge'
    BY <1>0, <1>17, PurgeIdleFields DEF PurgeCrash, ListedKept, PurgeScope, HeldByPurge, PurgeTypes
  <2> QED BY <2>2, <2>3 DEF PurgeInv
<1> QED
  BY <1>1, <1>2, <1>3, <1>4, <1>5, <1>6, <1>7, <1>8, <1>9, <1>10, <1>11, <1>12, <1>13, <1>14,
     <1>15, <1>16, <1>17 DEF PurgeStep

\* Steps of the writeback touch the process and the count of errors only.
LEMMA PurgeUntouched ==
    ASSUME PurgeInv, UNCHANGED purgeRest,
           faults' = faults \/ (faults < MaxFaults /\ faults' = faults + 1),
           up' \in {up, "down"} \/ (up = "writeback" /\ up' = "serving")
    PROVE  PurgeInv'
<1>1. PurgeTypes'
  BY FaultBound DEF PurgeInv, PurgeTypes, purgeRest
<1>2. ListedKept' /\ PurgeScope' /\ HeldByPurge'
  BY DEF PurgeInv, purgeRest, ListedKept, PurgeScope, HeldByPurge
<1> QED BY <1>1, <1>2 DEF PurgeInv

----------------------------------------------------------------------------
(* The writeback                                                             *)

CallRecord ==
    [pc : {"idle", "recover", "plan", "tests", "prepare", "validate", "apply", "apply_swap",
           "audit", "commit", "restore", "restore_swap", "sweep", "discard"},
     mode : {"none", "startup", "approve", "finish"},
     i : 0 .. NFiles + 1, failed : BOOLEAN]

DiskTypes ==
    /\ src \in [Files -> Contents]
    /\ temp \subseteq Files /\ backup \subseteq Files /\ edited \subseteq Files
    /\ txn \in Published \cup {"none", "preparing", "headless"}
    /\ trace \in {"absent", "recorded", "purged"}
    /\ edits \in 0 .. MaxEdits

CallTypes ==
    /\ wb \in CallRecord
    /\ refused \in {"no", "unknown", "identity", "journal", "backup", "error"}

\* The files nobody else has written are all at c.
Clean(c) == \A f \in Files \ edited : src[f] = c

\* The patch is in, and the trace says so; or it is not, and a trace that says
\* otherwise has been overtaken by somebody's edit.
Settled ==
    \/ Clean("new") /\ trace # "absent"
    \/ Clean("base") /\ (trace # "absent" => edited # {})

\* Only somebody else leaves bytes that are neither base nor patched.
KnownContents == \A f \in Files \ edited : src[f] # "other"

\* The trace is as true as the files nobody edited can be, and goes with the run.
TraceTrue ==
    /\ trace # "absent" /\ edited = {} => All("new")
    /\ trace = "purged" => row[W] = "gone"

\* Without a published journal nothing is pending.
QuietOutside == txn \notin Published => Settled /\ temp = {}

\* The startup call runs in the writeback phase of the startup.
StartupCall == wb.pc # "idle" /\ wb.mode = "startup" => up = "writeback"

\* The approval up to the publication of its journal.
Planning ==
    /\ wb.pc \in {"plan", "tests", "prepare"} => txn \notin Published
    /\ wb.pc = "prepare" => wb.i >= 1
    /\ wb.pc \in {"tests", "prepare", "validate"} => trace = "absent" /\ Clean("base")

\* The files below wb.i are written, the others are not.
Progress ==
    /\ wb.pc \in {"validate", "apply", "apply_swap", "audit", "commit"} => txn = "prepared"
    /\ wb.pc \in {"validate", "apply", "audit", "commit"} => temp = {}
    /\ wb.pc \in {"apply", "apply_swap"} =>
           /\ wb.i \in Files /\ trace = "absent"
           /\ \A f \in Files \ edited : src[f] = IF f < wb.i THEN "new" ELSE "base"
    /\ wb.pc = "apply_swap" => temp = {wb.i}
    /\ wb.pc = "audit" => trace = "absent" /\ Clean("new")
    /\ wb.pc = "commit" => trace # "absent" /\ Clean("new")

\* The files above wb.i are restored, unless one failed.
Regress ==
    /\ wb.pc \in {"restore", "restore_swap"} =>
           /\ txn \in Published
           /\ trace # "absent" => edited # {}
           /\ wb.i \in 0 .. NFiles
           /\ ~ wb.failed => \A f \in Files : f > wb.i =>
                  f \notin temp /\ (f \notin edited => src[f] = "base")
    /\ wb.pc = "restore_swap" => wb.i \in Files

\* A transaction is only discarded once it is decided.
Decided ==
    /\ wb.pc \in {"sweep", "discard"} => Settled
    /\ wb.pc = "sweep" => txn \in {"committed", "rolled_back"}
    /\ wb.pc = "discard" => temp = {} /\ txn \in {"committed", "rolled_back", "headless"}

\* What holds of the files, and what holds of the call in progress.
DiskInv == DiskTypes /\ KnownContents /\ TraceTrue /\ QuietOutside
CallInv == CallTypes /\ StartupCall /\ Planning /\ Progress /\ Regress /\ Decided

IInv == PurgeInv /\ DiskInv /\ CallInv

LEMMA InitHolds == Init => IInv
<1> SUFFICES ASSUME Init PROVE IInv
  OBVIOUS
<1>1. PurgeInv
  BY PurgeInitHolds
<1>2. DiskInv
  <2>1. DiskTypes
    BY WritebackAssumption DEF Init, DiskTypes, Contents
  <2>2. KnownContents /\ TraceTrue /\ QuietOutside
    BY DEF Init, KnownContents, TraceTrue, QuietOutside, Settled, Clean, Published
  <2> QED BY <2>1, <2>2 DEF DiskInv
<1>3. CallInv
  <2>1. wb \in CallRecord /\ wb.pc = "idle"
    BY WritebackAssumption DEF Init, Idle, CallRecord
  <2> QED BY <2>1 DEF Init, CallInv, CallTypes, StartupCall, Planning, Progress, Regress, Decided
<1> QED BY <1>1, <1>2, <1>3 DEF IInv

\* The fields of the call after each of the moves it is made of.
LEMMA IdleFields == Idle \in CallRecord /\ Idle.pc = "idle" /\ Idle.mode = "none"
BY WritebackAssumption DEF Idle, CallRecord

LEMMA GotoFields ==
    ASSUME wb \in CallRecord, NEW pc, Goto(pc),
           pc \in {"plan", "tests", "validate", "apply_swap", "audit", "commit", "restore_swap",
                   "sweep", "discard"}
    PROVE  /\ wb' \in CallRecord
           /\ wb'.pc = pc /\ wb'.mode = wb.mode /\ wb'.i = wb.i /\ wb'.failed = wb.failed
BY DEF Goto, CallRecord

LEMMA GotoFileFields ==
    ASSUME wb \in CallRecord, NEW pc \in {"prepare", "apply", "restore"},
           NEW i \in 0 .. NFiles + 1, GotoFile(pc, i)
    PROVE  /\ wb' \in CallRecord
           /\ wb'.pc = pc /\ wb'.mode = wb.mode /\ wb'.i = i /\ wb'.failed = wb.failed
BY DEF GotoFile, CallRecord

LEMMA RollbackFields ==
    ASSUME wb \in CallRecord, Rollback
    PROVE  /\ wb' \in CallRecord
           /\ wb'.pc = "restore" /\ wb'.mode = "finish" /\ wb'.i = NFiles /\ wb'.failed = wb.failed
<1>1. NFiles \in 0 .. NFiles + 1
  BY WritebackAssumption
<1> QED BY <1>1 DEF Rollback, CallRecord

LEMMA FailedFields ==
    ASSUME wb \in CallRecord, wb.i > 0,
           \/ wb' = [wb EXCEPT !.i = wb.i - 1, !.failed = TRUE] /\ wb.pc = "restore"
           \/ wb' = [wb EXCEPT !.pc = "restore", !.i = wb.i - 1, !.failed = TRUE]
    PROVE  /\ wb' \in CallRecord
           /\ wb'.pc = "restore" /\ wb'.mode = wb.mode /\ wb'.i = wb.i - 1 /\ wb'.failed = TRUE
<1>1. wb.i - 1 \in 0 .. NFiles + 1
  BY WritebackAssumption DEF CallRecord
<1> QED BY <1>1 DEF CallRecord

\* A call that has returned holds nothing.
LEMMA IdleCall ==
    ASSUME wb' = Idle, refused' \in {"no", "unknown", "identity", "journal", "backup", "error"}
    PROVE  CallInv'
BY IdleFields DEF CallInv, CallTypes, StartupCall, Planning, Progress, Regress, Decided

LEMMA RaiseHolds ==
    ASSUME IInv, NEW why \in {"unknown", "identity", "journal", "backup", "error"}, Raise(why)
    PROVE  CallInv' /\ up' \in {up, "down"}
<1>1. refused' \in {"no", "unknown", "identity", "journal", "backup", "error"}
  BY DEF IInv, CallInv, CallTypes, Raise
<1> QED BY <1>1, IdleCall DEF Raise

\* Resume goes on with an approval when nothing is pending.
LEMMA ResumeHolds ==
    ASSUME IInv, Resume, wb.pc # "idle", txn' \notin Published
    PROVE  CallInv' /\ (up' = up \/ (up = "writeback" /\ up' = "serving"))
<1>0. wb \in CallRecord /\ refused \in {"no", "unknown", "identity", "journal", "backup", "error"}
  BY DEF IInv, CallInv, CallTypes
<1>1. CASE wb.mode = "startup"
  BY <1>0, <1>1, IdleCall DEF Resume, IInv, CallInv, StartupCall
<1>2. CASE wb.mode = "approve"
  <2>1. Goto("plan") /\ UNCHANGED <<up, refused>>
    BY <1>2 DEF Resume
  <2>2. wb' \in CallRecord /\ wb'.pc = "plan" /\ wb'.mode = "approve"
    BY <1>0, <1>2, <2>1, GotoFields
  <2> QED BY <1>0, <2>1, <2>2 DEF CallInv, CallTypes, StartupCall, Planning, Progress, Regress, Decided
<1>3. CASE wb.mode \notin {"startup", "approve"}
  BY <1>0, <1>3, IdleCall DEF Resume
<1> QED BY <1>1, <1>2, <1>3

\* Steps that leave the files alone.
LEMMA DiskUntouched ==
    ASSUME IInv, UNCHANGED <<disk, outside, row>>
    PROVE  DiskInv'
BY DEF IInv, DiskInv, disk, outside, DiskTypes, KnownContents, TraceTrue, QuietOutside, Settled,
       Clean, All

LEMMA RecoveryHolds ==
    ASSUME IInv, StartRecovery \/ Approve \/ Recovery
    PROVE  IInv'
<1>0. /\ PurgeInv /\ DiskInv /\ CallInv /\ wb \in CallRecord
      /\ refused \in {"no", "unknown", "identity", "journal", "backup", "error"}
  BY DEF IInv, CallInv, CallTypes
<1>1. CASE StartRecovery \/ Approve
  <2>1. PICK m \in {"startup", "approve"} : wb' = [Idle EXCEPT !.pc = "recover", !.mode = m]
                                            /\ (m = "startup" => up = "writeback")
    BY <1>1 DEF StartRecovery, Approve
  <2>2. wb' \in CallRecord /\ wb'.pc = "recover" /\ wb'.mode = m
    <3>1. 0 \in 0 .. NFiles + 1
      BY WritebackAssumption
    <3> QED BY <2>1, <3>1 DEF Idle, CallRecord
  <2>3. UNCHANGED <<purgeVars, disk, outside, refused>>
    BY <1>1 DEF StartRecovery, Approve
  <2>4. CallInv'
    BY <1>0, <2>1, <2>2, <2>3
       DEF purgeVars, CallInv, CallTypes, StartupCall, Planning, Progress, Regress, Decided
  <2> QED BY <1>0, <2>3, <2>4, PurgeUntouched, DiskUntouched DEF IInv, purgeVars, purgeRest
<1>2. CASE RecoverNothing
  <2>1. /\ wb.pc = "recover" /\ txn \notin Published /\ txn' = "none" /\ backup' = {} /\ Resume
        /\ UNCHANGED <<row, listed, place, purge, crashes, stranded, faults, src, temp, trace,
                       edits, edited>>
    BY <1>2 DEF RecoverNothing, Published, purgeRest, outside
  <2>2. DiskInv'
    BY <1>0, <2>1 DEF DiskInv, DiskTypes, KnownContents, TraceTrue, QuietOutside, Settled, Clean, All
  <2>3. CallInv' /\ (up' = up \/ (up = "writeback" /\ up' = "serving"))
    BY <2>1, ResumeHolds DEF Published
  <2> QED BY <1>0, <2>1, <2>2, <2>3, PurgeUntouched DEF IInv, purgeRest
<1>3. CASE RecoveryStops
  <2>1. RecoveryBlocker \in {"journal", "identity", "unknown"}
    BY <1>3 DEF RecoveryStops, RecoveryBlocker
  <2>2. Raise(RecoveryBlocker) /\ UNCHANGED <<purgeRest, faults, disk, outside>>
    BY <1>3 DEF RecoveryStops
  <2>3. CallInv' /\ up' \in {up, "down"}
    BY <2>1, <2>2, RaiseHolds
  <2> QED BY <1>0, <2>2, <2>3, PurgeUntouched, DiskUntouched DEF IInv, purgeRest
<1>4. CASE RecoverDecided
  <2>1. /\ wb.pc = "recover" /\ txn \in Published /\ RecoveryBlocker = "none" /\ Goto("sweep")
        /\ txn' \in {"committed", "rolled_back"} /\ (Undone \/ Applied)
        /\ UNCHANGED <<purgeVars, src, temp, backup, trace, outside, refused>>
    BY <1>4 DEF RecoverDecided, Undone
  <2>2. wb' \in CallRecord /\ wb'.pc = "sweep" /\ wb'.mode = wb.mode
    BY <1>0, <2>1, GotoFields
  <2>3. DiskInv'
    BY <1>0, <2>1 DEF DiskInv, DiskTypes, KnownContents, TraceTrue, QuietOutside, All, Published,
                      outside, purgeVars
  <2>4. Settled'
    <3>1. 1 \in Files
      BY WritebackAssumption DEF Files
    <3> QED BY <1>0, <2>1, <3>1 DEF DiskInv, TraceTrue, Undone, Applied, Settled, Clean, All, outside
  <2>5. CallInv'
    BY <1>0, <2>1, <2>2, <2>4
       DEF purgeVars, CallInv, CallTypes, StartupCall, Planning, Progress, Regress, Decided
  <2> QED BY <1>0, <2>1, <2>3, <2>5, PurgeUntouched DEF IInv, purgeVars, purgeRest
<1>5. CASE RecoverByRestoring
  <2>1. /\ wb.pc = "recover" /\ txn \in Published /\ RecoveryBlocker = "none"
        /\ ~ Undone /\ ~ Applied
        /\ UNCHANGED <<row, listed, place, purge, crashes, stranded, faults, disk, outside>>
    BY <1>5 DEF RecoverByRestoring, purgeRest
  <2>2. CASE Raise("backup")
    BY <1>0, <2>1, <2>2, RaiseHolds, PurgeUntouched, DiskUntouched DEF IInv, purgeRest
  <2>3. CASE GotoFile("restore", NFiles) /\ UNCHANGED <<up, refused>>
    <3>1. NFiles \in 0 .. NFiles /\ NFiles \in 0 .. NFiles + 1 /\ \A f \in Files : ~ (f > NFiles)
      BY WritebackAssumption DEF Files
    <3>2. wb' \in CallRecord /\ wb'.pc = "restore" /\ wb'.mode = wb.mode /\ wb'.i = NFiles
      BY <1>0, <2>3, <3>1, GotoFileFields
    <3>3. row[W] # "gone"
      BY <2>1 DEF RecoveryBlocker, TransactionIdentified
    <3>4. trace # "absent" => edited # {}
      BY <1>0, <2>1, <3>3 DEF DiskInv, DiskTypes, TraceTrue, Applied
    <3>5. CallInv'
      BY <1>0, <2>1, <2>3, <3>1, <3>2, <3>4
         DEF disk, outside, CallInv, CallTypes, StartupCall, Planning, Progress, Regress, Decided
    <3> QED BY <1>0, <2>1, <2>3, <3>5, PurgeUntouched, DiskUntouched DEF IInv, purgeRest
  <2> QED BY <1>5, <2>2, <2>3 DEF RecoverByRestoring
<1> QED BY <1>1, <1>2, <1>3, <1>4, <1>5 DEF Recovery

\* A step of an approval that has written nothing yet: only the call changes.
LEMMA ApprovalHolds ==
    ASSUME IInv, Approval
    PROVE  IInv'
<1> USE DEF CallTypes, StartupCall, Planning, Progress, Regress, Decided
<1>0. /\ PurgeInv /\ DiskInv /\ CallInv /\ wb \in CallRecord
      /\ refused \in {"no", "unknown", "identity", "journal", "backup", "error"}
  BY DEF IInv, CallInv, CallTypes
<1>a. 1 \in 0 .. NFiles + 1 /\ 1 \in Files
  BY WritebackAssumption DEF Files
<1>1. CASE BuildPlan
  <2>1. wb.pc = "plan" /\ UNCHANGED <<purgeVars, disk, outside, refused>>
    BY <1>1 DEF BuildPlan
  <2>2. CASE wb' = Idle
    BY <1>0, <2>1, <2>2, IdleCall, PurgeUntouched, DiskUntouched DEF IInv, purgeVars, purgeRest
  <2>3. CASE ~ CompletedApproval /\ PatchApplies /\ Goto("tests")
    <3>1. wb' \in CallRecord /\ wb'.pc = "tests" /\ wb'.mode = wb.mode
      BY <1>0, <2>3, GotoFields
    <3>2. trace = "absent" /\ Clean("base") /\ txn \notin Published
      BY <1>0, <2>1, <2>3 DEF CallInv, CompletedApproval, PatchApplies, All, Clean
    <3>3. CallInv'
      BY <1>0, <2>1, <3>1, <3>2 DEF CallInv, disk, outside, purgeVars, Clean
    <3> QED BY <1>0, <2>1, <3>3, PurgeUntouched, DiskUntouched DEF IInv, purgeVars, purgeRest
  <2> QED BY <1>1, <2>2, <2>3 DEF BuildPlan
<1>2. CASE RunTests
  <2>1. wb.pc = "tests" /\ UNCHANGED <<purgeVars, disk, outside, refused>>
    BY <1>2 DEF RunTests
  <2>2. CASE wb' = Idle
    BY <1>0, <2>1, <2>2, IdleCall, PurgeUntouched, DiskUntouched DEF IInv, purgeVars, purgeRest
  <2>3. CASE GotoFile("prepare", 1)
    <3>1. wb' \in CallRecord /\ wb'.pc = "prepare" /\ wb'.mode = wb.mode /\ wb'.i = 1
      BY <1>0, <1>a, <2>3, GotoFileFields
    <3>2. CallInv'
      BY <1>0, <2>1, <3>1 DEF CallInv, disk, outside, purgeVars, Clean
    <3> QED BY <1>0, <2>1, <3>2, PurgeUntouched, DiskUntouched DEF IInv, purgeVars, purgeRest
  <2> QED BY <1>2, <2>2, <2>3 DEF RunTests
<1>3. CASE PrepareBackup
  <2>1. /\ wb.pc = "prepare" /\ wb.i <= NFiles /\ txn' = "preparing" /\ backup' = backup \cup {wb.i}
        /\ GotoFile("prepare", wb.i + 1)
        /\ UNCHANGED <<purgeVars, src, temp, trace, edits, edited, refused>>
    BY <1>3 DEF PrepareBackup, outside
  <2>2. wb.i \in Files /\ wb.i + 1 \in 0 .. NFiles + 1 /\ wb.i + 1 >= 1
    BY <1>0, <2>1, WritebackAssumption DEF CallInv, CallRecord, Files
  <2>3. wb' \in CallRecord /\ wb'.pc = "prepare" /\ wb'.mode = wb.mode /\ wb'.i = wb.i + 1
    BY <1>0, <2>1, <2>2, GotoFileFields
  <2>4. DiskInv'
    BY <1>0, <2>1, <2>2
       DEF CallInv, DiskInv, DiskTypes, KnownContents, TraceTrue, QuietOutside, Settled, Clean, All,
           purgeVars
  <2>5. CallInv'
    BY <1>0, <2>1, <2>2, <2>3 DEF CallInv, purgeVars, Clean, Published
  <2> QED BY <1>0, <2>1, <2>4, <2>5, PurgeUntouched DEF IInv, purgeVars, purgeRest
<1>4. CASE Publish
  <2>1. /\ wb.pc = "prepare" /\ txn' = "prepared" /\ Goto("validate")
        /\ UNCHANGED <<purgeVars, src, temp, backup, trace, edits, edited, refused>>
    BY <1>4 DEF Publish, outside
  <2>2. wb' \in CallRecord /\ wb'.pc = "validate" /\ wb'.mode = wb.mode
    BY <1>0, <2>1, GotoFields
  <2>3. DiskInv'
    BY <1>0, <2>1 DEF DiskInv, DiskTypes, KnownContents, TraceTrue, QuietOutside, All, Published, purgeVars
  <2>4. temp = {}
    BY <1>0, <2>1 DEF CallInv, DiskInv, QuietOutside
  <2>5. CallInv'
    BY <1>0, <2>1, <2>2, <2>4 DEF CallInv, purgeVars, Clean
  <2> QED BY <1>0, <2>1, <2>3, <2>5, PurgeUntouched DEF IInv, purgeVars, purgeRest
<1>5. CASE ValidateTransaction
  <2>1. wb.pc = "validate" /\ UNCHANGED <<purgeVars, disk, outside, refused>>
    BY <1>5 DEF ValidateTransaction
  <2>2. CASE wb' = Idle
    BY <1>0, <2>1, <2>2, IdleCall, PurgeUntouched, DiskUntouched DEF IInv, purgeVars, purgeRest
  <2>3. CASE GotoFile("apply", 1)
    <3>1. wb' \in CallRecord /\ wb'.pc = "apply" /\ wb'.mode = wb.mode /\ wb'.i = 1
      BY <1>0, <1>a, <2>3, GotoFileFields
    <3>2. \A f \in Files \ edited : src[f] = IF f < 1 THEN "new" ELSE "base"
      BY <1>0, <2>1 DEF CallInv, Clean, Files
    <3>3. CallInv'
      BY <1>0, <1>a, <2>1, <3>1, <3>2 DEF CallInv, disk, outside, purgeVars, Clean
    <3> QED BY <1>0, <2>1, <3>3, PurgeUntouched, DiskUntouched DEF IInv, purgeVars, purgeRest
  <2> QED BY <1>5, <2>2, <2>3 DEF ValidateTransaction, GotoFile
<1> QED BY <1>1, <1>2, <1>3, <1>4, <1>5 DEF Approval

\* The call turns to the rollback while nothing has been audited.
LEMMA RollbackHolds ==
    ASSUME CallInv, Rollback, txn' \in Published, trace' = "absent", UNCHANGED <<up, refused>>
    PROVE  CallInv'
<1>1. /\ wb' \in CallRecord /\ wb'.pc = "restore" /\ wb'.mode = "finish" /\ wb'.i = NFiles
  BY RollbackFields DEF CallInv, CallTypes
<1>2. NFiles \in 0 .. NFiles /\ \A f \in Files : ~ (f > NFiles)
  BY WritebackAssumption DEF Files
<1> QED BY <1>1, <1>2
        DEF CallInv, CallTypes, StartupCall, Planning, Progress, Regress, Decided

LEMMA WritingHolds ==
    ASSUME IInv, Writing
    PROVE  IInv'
<1> USE DEF CallTypes, StartupCall, Planning, Progress, Regress, Decided
<1>0. /\ PurgeInv /\ DiskInv /\ CallInv /\ wb \in CallRecord
      /\ refused \in {"no", "unknown", "identity", "journal", "backup", "error"}
  BY DEF IInv, CallInv, CallTypes
<1>1. CASE ApplyFile
  <2>1. /\ wb.pc = "apply" /\ wb.i \in Files /\ txn = "prepared" /\ trace = "absent" /\ temp = {}
        /\ UNCHANGED <<purgeVars, src, txn, backup, trace, edits, edited, refused>>
    BY <1>0, <1>1 DEF ApplyFile, outside, CallInv
  <2>2. CASE Goto("apply_swap") /\ temp' = WithTemp(wb.i)
    <3>1. wb' \in CallRecord /\ wb'.pc = "apply_swap" /\ wb'.mode = wb.mode /\ wb'.i = wb.i
      BY <1>0, <2>2, GotoFields
    <3>2. temp' = {wb.i}
      BY <2>1, <2>2 DEF WithTemp
    <3>3. DiskInv'
      BY <1>0, <2>1, <3>2
         DEF DiskInv, DiskTypes, KnownContents, TraceTrue, QuietOutside, All, Published, purgeVars
    <3>4. CallInv'
      BY <1>0, <2>1, <3>1, <3>2 DEF CallInv, purgeVars
    <3> QED BY <1>0, <2>1, <3>3, <3>4, PurgeUntouched DEF IInv, purgeVars, purgeRest
  <2>3. CASE Rollback /\ temp' = temp
    <3>1. UNCHANGED <<disk, outside, row, up>>
      BY <2>1, <2>3 DEF disk, outside, purgeVars
    <3>2. CallInv'
      BY <1>0, <2>1, <2>3, <3>1, RollbackHolds DEF Published
    <3> QED BY <1>0, <2>1, <3>1, <3>2, PurgeUntouched, DiskUntouched DEF IInv, purgeVars, purgeRest
  <2> QED BY <1>1, <2>2, <2>3 DEF ApplyFile
<1>2. CASE ApplySwap
  <2>1. /\ wb.pc = "apply_swap" /\ wb.i \in Files /\ txn = "prepared" /\ trace = "absent"
        /\ temp = {wb.i} /\ src' = [src EXCEPT ![wb.i] = "new"] /\ temp' = {}
        /\ UNCHANGED <<purgeVars, txn, backup, trace, edits, edited, refused>>
    BY <1>0, <1>2 DEF ApplySwap, Replace, WithoutTemp, outside, CallInv
  <2>2. /\ src \in [Files -> Contents] /\ src' \in [Files -> Contents]
        /\ \A f \in Files : src'[f] = IF f = wb.i THEN "new" ELSE src[f]
    BY <1>0, <2>1 DEF DiskInv, DiskTypes, Contents
  <2>3. DiskInv'
    BY <1>0, <2>1, <2>2
       DEF DiskInv, DiskTypes, KnownContents, TraceTrue, QuietOutside, Published, purgeVars
  <2>4. wb.i \in Nat /\ NFiles \in Nat /\ Files \subseteq Nat /\ \A f \in Files : f <= NFiles
    BY <2>1, WritebackAssumption DEF Files
  <2>5. CASE wb.i < NFiles /\ GotoFile("apply", wb.i + 1)
    <3>1. wb.i + 1 \in Files /\ wb.i + 1 \in 0 .. NFiles + 1
      BY <2>4, <2>5 DEF Files
    <3>2. wb' \in CallRecord /\ wb'.pc = "apply" /\ wb'.mode = wb.mode /\ wb'.i = wb.i + 1
      BY <1>0, <2>5, <3>1, GotoFileFields
    <3>3. \A f \in Files \ edited : src'[f] = IF f < wb.i + 1 THEN "new" ELSE "base"
      BY <1>0, <2>1, <2>2, <2>4 DEF CallInv
    <3>4. CallInv'
      BY <1>0, <2>1, <3>1, <3>2, <3>3 DEF CallInv, purgeVars
    <3> QED BY <1>0, <2>1, <2>3, <3>4, PurgeUntouched DEF IInv, purgeVars, purgeRest
  <2>6. CASE ~ (wb.i < NFiles) /\ Goto("audit")
    <3>1. wb' \in CallRecord /\ wb'.pc = "audit" /\ wb'.mode = wb.mode
      BY <1>0, <2>6, GotoFields
    <3>2. \A f \in Files \ edited : src'[f] = "new"
      BY <1>0, <2>1, <2>2, <2>4, <2>6 DEF CallInv
    <3>3. CallInv'
      BY <1>0, <2>1, <3>1, <3>2 DEF CallInv, purgeVars, Clean
    <3> QED BY <1>0, <2>1, <2>3, <3>3, PurgeUntouched DEF IInv, purgeVars, purgeRest
  <2> QED BY <1>2, <2>5, <2>6 DEF ApplySwap
<1>3. CASE RecordTrace
  <2>1. /\ wb.pc = "audit" /\ txn = "prepared" /\ trace = "absent" /\ temp = {} /\ Clean("new")
        /\ UNCHANGED <<purgeVars, src, temp, txn, backup, edits, edited, refused>>
    BY <1>0, <1>3 DEF RecordTrace, outside, CallInv
  <2>2. CASE trace' = "recorded" /\ Goto("commit")
    <3>1. wb' \in CallRecord /\ wb'.pc = "commit" /\ wb'.mode = wb.mode
      BY <1>0, <2>2, GotoFields
    <3>2. DiskInv'
      BY <1>0, <2>1, <2>2
         DEF DiskInv, DiskTypes, KnownContents, TraceTrue, QuietOutside, Clean, All, Published, purgeVars
    <3>3. CallInv'
      BY <1>0, <2>1, <2>2, <3>1 DEF CallInv, purgeVars, Clean
    <3> QED BY <1>0, <2>1, <3>2, <3>3, PurgeUntouched DEF IInv, purgeVars, purgeRest
  <2>3. CASE trace' = trace /\ Rollback
    <3>1. UNCHANGED <<disk, outside, row, up>>
      BY <2>1, <2>3 DEF disk, outside, purgeVars
    <3>2. CallInv'
      BY <1>0, <2>1, <2>3, <3>1, RollbackHolds DEF Published
    <3> QED BY <1>0, <2>1, <3>1, <3>2, PurgeUntouched, DiskUntouched DEF IInv, purgeVars, purgeRest
  <2> QED BY <1>3, <2>2, <2>3 DEF RecordTrace
<1>4. CASE MarkCommitted
  <2>1. /\ wb.pc = "commit" /\ txn = "prepared" /\ trace # "absent" /\ temp = {} /\ Clean("new")
        /\ txn' = "committed" /\ wb' = [wb EXCEPT !.pc = "discard", !.mode = "finish"]
        /\ UNCHANGED <<purgeVars, src, temp, backup, trace, edits, edited, refused>>
    BY <1>0, <1>4 DEF MarkCommitted, outside, CallInv
  <2>2. wb' \in CallRecord /\ wb'.pc = "discard" /\ wb'.mode = "finish"
    BY <1>0, <2>1 DEF CallRecord
  <2>3. DiskInv'
    BY <1>0, <2>1
       DEF DiskInv, DiskTypes, KnownContents, TraceTrue, QuietOutside, All, Published, purgeVars
  <2>4. CallInv'
    BY <1>0, <2>1, <2>2 DEF CallInv, Settled, Clean
  <2> QED BY <1>0, <2>1, <2>3, <2>4, PurgeUntouched DEF IInv, purgeVars, purgeRest
<1> QED BY <1>1, <1>2, <1>3, <1>4 DEF Writing

LEMMA UndoingHolds ==
    ASSUME IInv, Undoing \/ DiscardEntry \/ DiscardEnds
    PROVE  IInv'
<1> USE DEF CallTypes, StartupCall, Planning, Progress, Regress, Decided
<1>0. /\ PurgeInv /\ DiskInv /\ CallInv /\ wb \in CallRecord
      /\ refused \in {"no", "unknown", "identity", "journal", "backup", "error"}
  BY DEF IInv, CallInv, CallTypes
<1>a. /\ NFiles \in Nat /\ Files \subseteq Nat /\ wb.i \in 0 .. NFiles + 1
      /\ \A f \in Files : 1 <= f /\ f <= NFiles
  BY <1>0, WritebackAssumption DEF Files, CallRecord
<1>1. CASE SweepTemps
  <2>1. /\ wb.pc = "sweep" /\ temp' = {} /\ Goto("discard") /\ Settled
        /\ txn \in {"committed", "rolled_back"}
        /\ UNCHANGED <<purgeVars, src, txn, backup, trace, edits, edited, refused>>
    BY <1>0, <1>1 DEF SweepTemps, outside, CallInv
  <2>2. wb' \in CallRecord /\ wb'.pc = "discard" /\ wb'.mode = wb.mode
    BY <1>0, <2>1, GotoFields
  <2>3. DiskInv'
    BY <1>0, <2>1
       DEF DiskInv, DiskTypes, KnownContents, TraceTrue, QuietOutside, All, Published, purgeVars
  <2>4. CallInv'
    BY <1>0, <2>1, <2>2 DEF CallInv, Settled, Clean, purgeVars
  <2> QED BY <1>0, <2>1, <2>3, <2>4, PurgeUntouched DEF IInv, purgeVars, purgeRest
<1>2. CASE RestoreFile
  <2>1. /\ wb.pc = "restore" /\ wb.i > 0 /\ wb.i \in Files /\ txn \in Published
        /\ wb.i - 1 \in 0 .. NFiles /\ wb.i - 1 \in 0 .. NFiles + 1
        /\ UNCHANGED <<purgeVars, src, txn, backup, trace, edits, edited, refused>>
    BY <1>0, <1>2, <1>a DEF RestoreFile, outside, CallInv, Files
  <2>2. ASSUME temp' \subseteq Files PROVE DiskInv'
    BY <1>0, <2>1, <2>2
       DEF DiskInv, DiskTypes, KnownContents, TraceTrue, QuietOutside, All, purgeVars
  <2>3. CASE src[wb.i] = "base" /\ GotoFile("restore", wb.i - 1) /\ temp' = WithoutTemp(wb.i)
    <3>1. wb' \in CallRecord /\ wb'.pc = "restore" /\ wb'.mode = wb.mode /\ wb'.i = wb.i - 1
          /\ wb'.failed = wb.failed
      BY <1>0, <2>1, <2>3, GotoFileFields
    <3>2. ~ wb.failed => \A f \in Files : f > wb.i - 1 =>
              f \notin temp' /\ (f \notin edited => src[f] = "base")
      BY <1>0, <1>a, <2>1, <2>3 DEF CallInv, WithoutTemp
    <3>3. CallInv'
      BY <1>0, <2>1, <3>1, <3>2 DEF CallInv, purgeVars
    <3>4. temp' \subseteq Files
      BY <1>0, <2>3 DEF DiskInv, DiskTypes, WithoutTemp
    <3> QED BY <1>0, <2>1, <2>2, <3>3, <3>4, PurgeUntouched DEF IInv, purgeVars, purgeRest
  <2>4. CASE Goto("restore_swap") /\ temp' = WithTemp(wb.i)
    <3>1. wb' \in CallRecord /\ wb'.pc = "restore_swap" /\ wb'.mode = wb.mode /\ wb'.i = wb.i
          /\ wb'.failed = wb.failed
      BY <1>0, <2>4, GotoFields
    <3>2. ~ wb.failed => \A f \in Files : f > wb.i =>
              f \notin temp' /\ (f \notin edited => src[f] = "base")
      BY <1>0, <1>a, <2>1, <2>4 DEF CallInv, WithTemp
    <3>3. CallInv'
      BY <1>0, <2>1, <3>1, <3>2 DEF CallInv, purgeVars
    <3>4. temp' \subseteq Files
      BY <1>0, <2>1, <2>4 DEF DiskInv, DiskTypes, WithTemp
    <3> QED BY <1>0, <2>1, <2>2, <3>3, <3>4, PurgeUntouched DEF IInv, purgeVars, purgeRest
  <2>5. CASE wb' = [wb EXCEPT !.i = wb.i - 1, !.failed = TRUE] /\ temp' = WithoutTemp(wb.i)
    <3>1. wb' \in CallRecord /\ wb'.pc = "restore" /\ wb'.mode = wb.mode /\ wb'.i = wb.i - 1
          /\ wb'.failed = TRUE
      BY <1>0, <2>1, <2>5, FailedFields
    <3>2. CallInv'
      BY <1>0, <2>1, <3>1 DEF CallInv, purgeVars
    <3>3. temp' \subseteq Files
      BY <1>0, <2>5 DEF DiskInv, DiskTypes, WithoutTemp
    <3> QED BY <1>0, <2>1, <2>2, <3>2, <3>3, PurgeUntouched DEF IInv, purgeVars, purgeRest
  <2> QED BY <1>2, <2>3, <2>4, <2>5 DEF RestoreFile
<1>3. CASE RestoreSwap
  <2>1. /\ wb.pc = "restore_swap" /\ wb.i \in Files /\ txn \in Published
        /\ (trace # "absent" => edited # {})
        /\ wb.i - 1 \in 0 .. NFiles /\ wb.i - 1 \in 0 .. NFiles + 1
        /\ src' = [src EXCEPT ![wb.i] = "base"] /\ temp' = temp \ {wb.i}
        /\ GotoFile("restore", wb.i - 1)
        /\ UNCHANGED <<purgeVars, txn, backup, trace, edits, edited, refused>>
    BY <1>0, <1>3, <1>a DEF RestoreSwap, Replace, WithoutTemp, outside, CallInv
  <2>2. wb' \in CallRecord /\ wb'.pc = "restore" /\ wb'.mode = wb.mode /\ wb'.i = wb.i - 1
        /\ wb'.failed = wb.failed
    BY <1>0, <2>1, GotoFileFields
  <2>3. /\ src' \in [Files -> Contents]
        /\ \A f \in Files : src'[f] = IF f = wb.i THEN "base" ELSE src[f]
    BY <1>0, <2>1 DEF DiskInv, DiskTypes, Contents
  <2>4. DiskInv'
    BY <1>0, <2>1, <2>3 DEF DiskInv, DiskTypes, KnownContents, TraceTrue, QuietOutside, purgeVars
  <2>5. ~ wb.failed => \A f \in Files : f > wb.i - 1 =>
            f \notin temp' /\ (f \notin edited => src'[f] = "base")
    BY <1>0, <1>a, <2>1, <2>3 DEF CallInv
  <2>6. CallInv'
    BY <1>0, <2>1, <2>2, <2>5 DEF CallInv, purgeVars
  <2> QED BY <1>0, <2>1, <2>4, <2>6, PurgeUntouched DEF IInv, purgeVars, purgeRest
<1>4. CASE RestoreEnds
  <2>1. /\ wb.pc = "restore" /\ wb.i = 0 /\ txn \in Published
        /\ (trace # "absent" => edited # {})
        /\ UNCHANGED <<row, listed, place, purge, crashes, stranded, faults, src, temp, backup, trace,
                       edits, edited>>
    BY <1>0, <1>4 DEF RestoreEnds, purgeRest, outside, CallInv
  <2>2. CASE Raise("error") /\ txn' = txn
    <3>1. UNCHANGED <<disk, outside, row>>
      BY <2>1, <2>2 DEF disk, outside
    <3> QED BY <1>0, <2>1, <2>2, <3>1, RaiseHolds, PurgeUntouched, DiskUntouched DEF IInv, purgeRest
  <2>3. CASE ~ wb.failed /\ txn' = "rolled_back" /\ Goto("discard") /\ UNCHANGED <<up, refused>>
    <3>1. wb' \in CallRecord /\ wb'.pc = "discard" /\ wb'.mode = wb.mode
      BY <1>0, <2>3, GotoFields
    <3>2. temp = {} /\ Clean("base")
      BY <1>0, <1>a, <2>1, <2>3 DEF CallInv, DiskInv, DiskTypes, Clean
    <3>3. DiskInv'
      BY <1>0, <2>1, <2>3 DEF DiskInv, DiskTypes, KnownContents, TraceTrue, QuietOutside, All, Published
    <3>4. CallInv'
      BY <1>0, <2>1, <2>3, <3>1, <3>2 DEF CallInv, Settled, Clean
    <3> QED BY <1>0, <2>1, <2>3, <3>3, <3>4, PurgeUntouched DEF IInv, purgeRest
  <2> QED BY <1>4, <2>2, <2>3 DEF RestoreEnds
<1>5. CASE DiscardEntry
  <2>1. /\ wb.pc = "discard" /\ temp = {} /\ Settled /\ backup' \subseteq backup
        /\ txn \in {"committed", "rolled_back", "headless"} /\ txn' \in {txn, "headless"}
        /\ UNCHANGED <<purgeVars, src, temp, trace, wb, edits, edited, refused>>
    BY <1>0, <1>5 DEF DiscardEntry, outside, CallInv
  <2>2. Settled'
    BY <2>1 DEF Settled, Clean
  <2>3. DiskInv'
    BY <1>0, <2>1, <2>2
       DEF DiskInv, DiskTypes, KnownContents, TraceTrue, QuietOutside, All, Published, purgeVars
  <2>4. CallInv'
    BY <1>0, <2>1, <2>2 DEF CallInv, purgeVars
  <2> QED BY <1>0, <2>1, <2>3, <2>4, PurgeUntouched DEF IInv, purgeVars, purgeRest
<1>6. CASE DiscardEnds
  <2>1. /\ wb.pc = "discard" /\ txn \notin Published /\ txn' = "none" /\ Resume
        /\ UNCHANGED <<row, listed, place, purge, crashes, stranded, faults, src, temp, backup, trace,
                       edits, edited>>
    BY <1>6 DEF DiscardEnds, Published, purgeRest, outside
  <2>2. DiskInv'
    BY <1>0, <2>1 DEF DiskInv, DiskTypes, KnownContents, TraceTrue, QuietOutside, Settled, Clean, All
  <2>3. CallInv' /\ (up' = up \/ (up = "writeback" /\ up' = "serving"))
    BY <2>1, ResumeHolds DEF Published
  <2> QED BY <1>0, <2>1, <2>2, <2>3, PurgeUntouched DEF IInv, purgeRest
<1> QED BY <1>1, <1>2, <1>3, <1>4, <1>5, <1>6 DEF Undoing

\* An error on a file: what a replacement that happened all the same may write
\* is what the call was about to write.
LEMMA StepFailsHolds ==
    ASSUME IInv, StepFails
    PROVE  IInv'
<1> USE DEF CallTypes, StartupCall, Planning, Progress, Regress, Decided
<1>0. /\ PurgeInv /\ DiskInv /\ CallInv /\ wb \in CallRecord
      /\ refused \in {"no", "unknown", "identity", "journal", "backup", "error"}
  BY DEF IInv, CallInv, CallTypes
<1>1. /\ faults < MaxFaults /\ faults' = faults + 1
      /\ UNCHANGED <<row, listed, place, purge, crashes, stranded, txn, backup, trace, edits, edited>>
  BY DEF StepFails, Fault, purgeRest, outside
<1>2. CASE OtherStepFails
  <2>1. Raise("error") /\ UNCHANGED <<temp, src>>
    BY <1>2 DEF OtherStepFails
  <2>2. UNCHANGED <<disk, outside, row>>
    BY <1>1, <2>1 DEF disk, outside
  <2> QED BY <1>0, <1>1, <2>1, <2>2, RaiseHolds, PurgeUntouched, DiskUntouched DEF IInv, purgeRest
<1>3. CASE WriteStepFails
  <2>1. temp' \subseteq temp /\ UNCHANGED <<up, refused>>
    BY <1>3 DEF WriteStepFails, WithoutTemp
  <2>2. CASE wb.pc \in {"apply", "apply_swap", "audit"} /\ Rollback
    <3>1. txn = "prepared" /\ trace = "absent"
      BY <1>0, <2>2 DEF CallInv
    <3>2. src' = src \/ (wb.i \in Files /\ src' = [src EXCEPT ![wb.i] = "new"])
      BY <1>0, <1>3, <2>2 DEF WriteStepFails, Replace, CallInv
    <3>3. src' \in [Files -> Contents] /\ \A f \in Files : src'[f] = "other" => src[f] = "other"
      BY <1>0, <3>2 DEF DiskInv, DiskTypes, Contents
    <3>4. DiskInv'
      BY <1>0, <1>1, <2>1, <3>1, <3>3
         DEF DiskInv, DiskTypes, KnownContents, TraceTrue, QuietOutside, Published
    <3>5. CallInv'
      BY <1>0, <1>1, <2>1, <2>2, <3>1, RollbackHolds DEF Published
    <3> QED BY <1>0, <1>1, <2>1, <3>4, <3>5, PurgeUntouched DEF IInv, purgeRest
  <2>3. CASE /\ wb.pc \in {"restore", "restore_swap"} /\ wb.i > 0
             /\ wb' = [wb EXCEPT !.pc = "restore", !.i = wb.i - 1, !.failed = TRUE]
    <3>1. /\ txn \in Published /\ (trace # "absent" => edited # {})
          /\ wb.i - 1 \in 0 .. NFiles
      BY <1>0, <2>3, WritebackAssumption DEF CallInv
    <3>2. src' = src \/ (wb.i \in Files /\ src' = [src EXCEPT ![wb.i] = "base"])
      BY <1>0, <1>3, <2>3 DEF WriteStepFails, Replace, CallInv
    <3>3. src' \in [Files -> Contents] /\ \A f \in Files : src'[f] = "other" => src[f] = "other"
      BY <1>0, <3>2 DEF DiskInv, DiskTypes, Contents
    <3>4. trace # "absent" => ~ (edited = {})
      BY <3>1
    <3>5. DiskInv'
      BY <1>0, <1>1, <2>1, <3>1, <3>3, <3>4
         DEF DiskInv, DiskTypes, KnownContents, TraceTrue, QuietOutside
    <3>6. wb' \in CallRecord /\ wb'.pc = "restore" /\ wb'.mode = wb.mode /\ wb'.i = wb.i - 1
          /\ wb'.failed = TRUE
      BY <1>0, <2>3, FailedFields
    <3>7. CallInv'
      BY <1>0, <1>1, <2>1, <2>3, <3>1, <3>6 DEF CallInv
    <3> QED BY <1>0, <1>1, <2>1, <3>5, <3>7, PurgeUntouched DEF IInv, purgeRest
  <2> QED BY <1>3, <2>2, <2>3 DEF WriteStepFails
<1> QED BY <1>2, <1>3 DEF StepFails

\* Somebody else's write takes its file out of every promise.
LEMMA EditHolds ==
    ASSUME IInv, NEW f \in Files, Edit(f)
    PROVE  IInv'
<1>0. PurgeInv /\ DiskInv /\ CallInv
  BY DEF IInv
<1>1. /\ edited' = edited \cup {f} /\ edits < MaxEdits /\ edits' = edits + 1
      /\ UNCHANGED <<purgeVars, temp, txn, backup, trace, wb, refused>>
  BY DEF Edit
<1>2. /\ src' \in [Files -> Contents] /\ edits' \in 0 .. MaxEdits
      /\ \A g \in Files \ edited' : g \notin edited /\ src'[g] = src[g]
  BY <1>0, <1>1, WritebackAssumption DEF Edit, DiskInv, DiskTypes
<1>3. edited' # {} /\ edited' \subseteq Files
  BY <1>0, <1>1 DEF DiskInv, DiskTypes
<1>4. /\ Clean("base") => Clean("base")'
      /\ Clean("new") => Clean("new")'
      /\ Settled => Settled'
  BY <1>1, <1>2, <1>3 DEF Clean, Settled
<1>5. DiskInv'
  BY <1>0, <1>1, <1>2, <1>3, <1>4
     DEF DiskInv, DiskTypes, KnownContents, TraceTrue, QuietOutside, purgeVars
<1>6. CallTypes' /\ StartupCall' /\ Planning' /\ Decided'
  BY <1>0, <1>1, <1>4 DEF CallInv, CallTypes, StartupCall, Planning, Decided, purgeVars
<1>7. Progress' /\ Regress'
  BY <1>0, <1>1, <1>2, <1>3, <1>4 DEF CallInv, Progress, Regress
<1> QED BY <1>0, <1>1, <1>5, <1>6, <1>7, PurgeUntouched DEF IInv, CallInv, purgeVars, purgeRest

\* A purge of the run takes its trace along; it does not undo the audit.
LEMMA PurgeDeleteHolds ==
    ASSUME IInv, PurgeDelete
    PROVE  IInv'
<1>0. PurgeInv /\ DiskInv /\ CallInv /\ PurgeTypes
  BY DEF IInv, PurgeInv
<1>1. /\ DeleteRows /\ up' = up
      /\ trace' = IF W \in purge.ids /\ trace = "recorded" THEN "purged" ELSE trace
      /\ row' = [r \in Runs |-> IF r \in purge.ids THEN "gone" ELSE row[r]]
      /\ UNCHANGED <<src, temp, txn, backup, wb, edits, edited, refused>>
  BY DEF PurgeDelete, DeleteRows, outside
<1>2. PurgeInv'
  BY <1>0, <1>1, PurgeStepHolds
<1>3. /\ trace' \in {"absent", "recorded", "purged"} /\ (trace' = "absent" <=> trace = "absent")
      /\ trace' = "purged" => row'[W] = "gone"
  BY <1>0, <1>1, WritebackAssumption DEF DiskInv, DiskTypes, TraceTrue
<1>4. DiskInv'
  BY <1>0, <1>1, <1>3
     DEF DiskInv, DiskTypes, KnownContents, TraceTrue, QuietOutside, Settled, Clean, All
<1>5. CallInv'
  BY <1>0, <1>1, <1>3
     DEF CallInv, CallTypes, StartupCall, Planning, Progress, Regress, Decided, Settled, Clean
<1> QED BY <1>2, <1>4, <1>5 DEF IInv

\* The purge's other steps, beside a call or without one.
LEMMA PurgeBesideHolds ==
    ASSUME IInv, PurgeStep, UNCHANGED wbVars
    PROVE  IInv'
<1>0. PurgeInv /\ DiskInv /\ CallInv /\ PurgeTypes
  BY DEF IInv, PurgeInv
<1>1. PurgeInv'
  BY <1>0, PurgeStepHolds
<1>2. /\ up = "writeback" => up' = "writeback"
      /\ row[W] = "gone" => row'[W] = "gone"
  BY <1>0, WritebackAssumption
     DEF PurgeStep, PurgeTypes, WriteFile, WriteRow, WriteFails, Settle, Lock, QuarantineMove,
         RestoreMove, DiscardMove, PurgePreview, PurgeBacksOut, RestoreFails, PurgeEnds, Start,
         RecoverDone, RecoverRefuses, RecoverMove
<1>3. DiskInv'
  BY <1>0, <1>2
     DEF wbVars, DiskInv, DiskTypes, KnownContents, TraceTrue, QuietOutside, Settled, Clean, All
<1>4. CallInv'
  BY <1>0, <1>2
     DEF wbVars, CallInv, CallTypes, StartupCall, Planning, Progress, Regress, Decided, Settled, Clean
<1> QED BY <1>1, <1>3, <1>4 DEF IInv

LEMMA NextHolds == IInv /\ [Next]_vars => IInv'
<1> SUFFICES ASSUME IInv, [Next]_vars PROVE IInv'
  OBVIOUS
<1>1. CASE Crash
  <2>1. PurgeInv'
    BY <1>1, PurgeStepHolds DEF Crash, IInv
  <2>2. DiskInv' /\ CallInv'
    BY <1>1, DiskUntouched, IdleCall DEF Crash, PurgeCrash, IInv, CallInv, CallTypes
  <2> QED BY <2>1, <2>2 DEF IInv
<1>2. CASE UNCHANGED vars
  <2>1. UNCHANGED <<purgeVars, wbVars>>
    BY <1>2 DEF vars
  <2>2. CallInv'
    BY <2>1 DEF IInv, wbVars, purgeVars, CallInv, CallTypes, StartupCall, Planning, Progress,
                Regress, Decided, Settled, Clean
  <2> QED BY <2>1, <2>2, PurgeUntouched, DiskUntouched
          DEF IInv, wbVars, purgeVars, purgeRest, disk, outside
<1> QED
  BY <1>1, <1>2, RecoveryHolds, ApprovalHolds, WritingHolds, UndoingHolds, StepFailsHolds, EditHolds,
     PurgeDeleteHolds, PurgeBesideHolds DEF Next, Call

\* The inductive invariant holds of every reachable state.
LEMMA Invariance == Spec => []IInv
BY InitHolds, NextHolds, PTL DEF Spec

----------------------------------------------------------------------------
(* Results                                                                   *)

\* No order of moves, deletions, failed rollbacks, crashes and restarts unlinks
\* the file of an artifact whose run is on record (quarantine_relative_files,
\* purge_terminal_run_records, recover_purge_quarantines).
THEOREM PurgeKeepsArtifacts == Spec => []NoArtifactLost
<1>1. IInv => NoArtifactLost
  BY DEF IInv, PurgeInv, ListedKept, NoArtifactLost
<1> QED BY <1>1, Invariance, PTL

\* After the quarantine recovery of the startup every listed artifact is back in
\* the store, and a purge that ends leaves it so.
THEOREM RecoveryRestoresArtifacts == Spec => []ListedReadable
<1>1. IInv => ListedReadable
  BY DEF IInv, PurgeInv, HeldByPurge, ListedReadable
<1> QED BY <1>1, Invariance, PTL

\* Wherever errors, crashes and edits strike approve() and its recovery, no
\* temporary and no mixture of contents outlives the journal.
THEOREM NothingStaysHalfWritten == Spec => []NothingHalfWritten
<1>1. IInv => NothingHalfWritten
  <2>1. edited = {} => Files \ edited = Files
    OBVIOUS
  <2> QED BY <2>1 DEF IInv, DiskInv, QuietOutside, Settled, Clean, TraceTrue, All, NothingHalfWritten
<1> QED BY <1>1, Invariance, PTL

----------------------------------------------------------------------------
(* The journalled transaction implements the atomic writeback                *)

\* Steps the abstract writeback does not see.
LEMMA Unseen ==
    ASSUME UNCHANGED <<src, edited>>, txn \in Published <=> txn' \in Published,
           trace = "absent" <=> trace' = "absent"
    PROVE  UNCHANGED Atomic!vars
BY DEF Atomic!vars

\* A replacement of a target is a write of the open window.
LEMMA SeenWrite ==
    ASSUME IInv, txn \in Published, NEW i \in Files, UNCHANGED <<txn, trace, edited>>,
           \/ src' = [src EXCEPT ![i] = "new"] /\ trace = "absent"
           \/ src' = [src EXCEPT ![i] = "base"] /\ (trace # "absent" => edited # {})
    PROVE  Atomic!Next
<1>1. src[i] = "other" => i \in edited
  BY DEF IInv, DiskInv, KnownContents
<1>2. Atomic!Write(i)
  BY <1>1 DEF Atomic!Write
<1> QED BY <1>2 DEF Atomic!Next

LEMMA CallRefines ==
    ASSUME IInv, Call
    PROVE  Atomic!Next \/ UNCHANGED Atomic!vars
<1> USE DEF IInv
<1>1. CASE Recovery
  BY <1>1, Unseen
     DEF Recovery, RecoverNothing, RecoveryStops, RecoverDecided, RecoverByRestoring, disk, outside,
         Published
<1>2. CASE BuildPlan \/ RunTests \/ PrepareBackup \/ ValidateTransaction
  <2>1. PrepareBackup => txn \notin Published
    BY DEF PrepareBackup, CallInv, Planning
  <2> QED BY <1>2, <2>1, Unseen
          DEF BuildPlan, RunTests, PrepareBackup, ValidateTransaction, disk, outside, Published
<1>3. CASE Publish
  <2>1. txn \notin Published /\ trace = "absent" /\ Clean("base") /\ txn' \in Published
    BY <1>3 DEF Publish, CallInv, Planning, Published
  <2>2. Atomic!Begin
    BY <1>3, <2>1 DEF Publish, outside, Clean, Atomic!Begin
  <2> QED BY <2>2 DEF Atomic!Next
<1>4. CASE ApplyFile \/ MarkCommitted \/ SweepTemps \/ RestoreFile \/ RestoreEnds
  <2>1. txn \in Published /\ txn' \in Published
    BY <1>4 DEF ApplyFile, MarkCommitted, SweepTemps, RestoreFile, RestoreEnds, CallInv, Progress,
                Regress, Decided, Published
  <2> QED BY <1>4, <2>1, Unseen
          DEF ApplyFile, MarkCommitted, SweepTemps, RestoreFile, RestoreEnds, outside
<1>5. CASE ApplySwap
  BY <1>5, SeenWrite DEF ApplySwap, Replace, CallInv, Progress, Published, outside
<1>6. CASE RestoreSwap
  BY <1>6, SeenWrite DEF RestoreSwap, Replace, CallInv, Regress, outside
<1>7. CASE RecordTrace
  <2>1. txn \in Published /\ trace = "absent" /\ Clean("new")
    BY <1>7 DEF RecordTrace, CallInv, Progress, Published
  <2>2. CASE trace' = trace
    BY <1>7, <2>2, Unseen DEF RecordTrace, outside
  <2>3. CASE trace' = "recorded"
    <3>1. Atomic!Audit
      BY <1>7, <2>1, <2>3 DEF RecordTrace, outside, Clean, Atomic!Audit
    <3> QED BY <3>1 DEF Atomic!Next
  <2> QED BY <1>7, <2>2, <2>3 DEF RecordTrace
<1>8. CASE DiscardEntry
  <2>1. Settled /\ txn \in {"committed", "rolled_back", "headless"} /\ txn' \in {txn, "headless"}
    BY <1>8 DEF DiscardEntry, CallInv, Decided
  <2>2. CASE txn' = txn
    BY <1>8, <2>2, Unseen DEF DiscardEntry, outside
  <2>3. CASE txn # "headless" /\ txn' = "headless"
    <3>1. txn \in Published /\ txn' \notin Published
      BY <2>1, <2>3 DEF Published
    <3>2. Atomic!Close
      BY <1>8, <2>1, <3>1 DEF DiscardEntry, outside, Settled, Clean, Atomic!Close
    <3> QED BY <3>2 DEF Atomic!Next
  <2> QED BY <2>1, <2>2, <2>3
<1>9. CASE DiscardEnds
  BY <1>9, Unseen DEF DiscardEnds, outside, Published
<1> QED
  BY <1>1, <1>2, <1>3, <1>4, <1>5, <1>6, <1>7, <1>8, <1>9 DEF Call, Approval, Writing, Undoing

LEMMA NextRefines == IInv /\ [Next]_vars => [Atomic!Next]_Atomic!vars
<1> SUFFICES ASSUME IInv, [Next]_vars PROVE Atomic!Next \/ UNCHANGED Atomic!vars
  OBVIOUS
<1>1. CASE (PurgeStep /\ UNCHANGED wbVars) \/ StartRecovery \/ Approve \/ Crash \/ UNCHANGED vars
  BY <1>1, Unseen DEF wbVars, vars, StartRecovery, Approve, Crash, disk, outside
<1>2. CASE PurgeDelete
  BY <1>2, Unseen DEF PurgeDelete, outside
<1>3. CASE StepFails
  <2>1. UNCHANGED <<txn, trace, edited>>
    BY <1>3 DEF StepFails, outside
  <2>2. CASE src' = src
    BY <2>1, <2>2, Unseen
  <2>3. CASE wb.pc = "apply_swap" /\ Replace(wb.i, "new")
    BY <2>1, <2>3, SeenWrite DEF Replace, IInv, CallInv, Progress, Published
  <2>4. CASE wb.pc = "restore_swap" /\ Replace(wb.i, "base")
    BY <2>1, <2>4, SeenWrite DEF Replace, IInv, CallInv, Regress
  <2> QED BY <1>3, <2>2, <2>3, <2>4 DEF StepFails, WriteStepFails, OtherStepFails
<1>4. ASSUME NEW f \in Files, Edit(f) PROVE Atomic!Next
  <2>1. Atomic!Edit(f)
    BY <1>4 DEF Edit, Contents, Atomic!Edit
  <2> QED BY <2>1 DEF Atomic!Next
<1> QED BY <1>1, <1>2, <1>3, <1>4, CallRefines DEF Next

\* approve(), its rollback and the recovery after a crash write the patch as one
\* set with the audit trace as part of the success: every step of the journalled
\* transaction is a step of the atomic writeback or invisible to it.
THEOREM WritebackIsAtomic == Spec => WritesAtomically
<1>1. Init => Atomic!Init
  BY DEF Init, Atomic!Init, Published
<1> QED BY <1>1, Invariance, NextRefines, PTL DEF Spec, WritesAtomically, Atomic!Spec
====
