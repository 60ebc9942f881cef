---- MODULE HistoryPurge ----
(* The artifact store and the history purge that empties it.                 *)
(*                                                                           *)
(* ArtifactStore keeps one file per artifact below <root>/<run_id>/ and one  *)
(* row per artifact in SQLite; the file is written first.  DELETE            *)
(* /records/history previews the terminal runs, moves their files to a fresh *)
(* quarantine directory, deletes the rows in one transaction that checks the *)
(* preview again, and only then unlinks the files.  HarnessAppState.start    *)
(* resolves every quarantine directory a crash left behind.                  *)
(*                                                                           *)
(* One artifact per run: the purge treats the files of a run alike, and a    *)
(* quarantine directory becomes interesting when it holds two runs.          *)
EXTENDS Naturals, FiniteSets

CONSTANTS
    Runs,        \* the runs on record
    MaxPurges,   \* bound on the purge requests
    MaxFaults,   \* bound on the I/O and storage errors
    MaxCrashes   \* bound on the process crashes

ASSUME PurgeAssumption ==
    /\ IsFiniteSet(Runs) /\ Runs # {}
    /\ MaxPurges \in Nat /\ MaxFaults \in Nat /\ MaxCrashes \in Nat

VARIABLES
    row,         \* row[r]: the run's row; "busy" while it is not terminal or
                 \* has a queue item, lock, job or session that is still open
    listed,      \* the runs that have an artifact row
    place,       \* place[r]: where the artifact file is
    purge,       \* the purge request being served, under history_purge_lock
    up,          \* the process: its startup phases and "serving"
    faults, crashes,
    stranded     \* history: a rollback since the last startup was incomplete

purgeVars == <<row, listed, place, purge, up, faults, crashes, stranded>>

Roots == 1 .. MaxPurges

\* Where a file is: not written yet, in the store, in the quarantine directory
\* of the k-th purge, or deleted.
Unwritten == <<"none", 0>>
Stored == <<"store", 0>>
Unlinked == <<"gone", 0>>
Held(k) == <<"quarantine", k>>
Quarantined(k) == {r \in Runs : place[r] = Held(k)}

PurgeTypeOK ==
    /\ row \in [Runs -> {"busy", "settled", "gone"}]
    /\ listed \subseteq Runs
    /\ place \in [Runs -> {Unwritten, Stored, Unlinked} \cup {Held(k) : k \in Roots}]
    /\ purge.pc \in {"idle", "move", "restore", "discard"}
    /\ {purge.ids, purge.todo, purge.moved} \subseteq SUBSET Runs
    /\ purge.root \in 0 .. MaxPurges
    /\ up \in {"down", "quarantines", "writeback", "serving"}
    /\ faults \in 0 .. MaxFaults /\ crashes \in 0 .. MaxCrashes
    /\ stranded \in BOOLEAN

\* A settled run and a busy one that has not written its artifact yet.
PurgeInit ==
    /\ row \in [Runs -> {"busy", "settled"}]
    /\ listed = {r \in Runs : row[r] = "settled"}
    /\ place = [r \in Runs |-> IF r \in listed THEN Stored ELSE Unwritten]
    /\ purge = [pc |-> "idle", ids |-> {}, todo |-> {}, moved |-> {}, root |-> 0]
    /\ up = "serving"
    /\ faults = 0 /\ crashes = 0
    /\ stranded = FALSE

----------------------------------------------------------------------------
(* Artifacts are written by the attempts of a run that is still open.        *)

\* The file is created exclusively; a retry that finds it keeps it.
WriteFile(r) ==
    /\ up = "serving" /\ row[r] = "busy"
    /\ place[r] = Unwritten
    /\ place' = [place EXCEPT ![r] = Stored]
    /\ UNCHANGED <<row, listed, purge, up, faults, crashes, stranded>>

\* The row follows; after a crash in between, the retry adopts the orphan file.
WriteRow(r) ==
    /\ up = "serving" /\ row[r] = "busy"
    /\ place[r] = Stored /\ r \notin listed
    /\ listed' = listed \cup {r}
    /\ UNCHANGED <<row, place, purge, up, faults, crashes, stranded>>

\* The row or its trace cannot be stored: the record and the file go again.
WriteFails(r) ==
    /\ up = "serving" /\ row[r] = "busy"
    /\ place[r] = Stored /\ r \notin listed
    /\ faults < MaxFaults /\ faults' = faults + 1
    /\ place' = [place EXCEPT ![r] = Unwritten]
    /\ UNCHANGED <<row, listed, purge, up, crashes, stranded>>

\* A run settles, or an operator request on a settled run takes its lock: the
\* set of eligible runs moves while a purge is under way.
Settle(r) ==
    /\ up = "serving" /\ row[r] = "busy"
    /\ row' = [row EXCEPT ![r] = "settled"]
    /\ UNCHANGED <<listed, place, purge, up, faults, crashes, stranded>>

Lock(r) ==
    /\ up = "serving" /\ row[r] = "settled"
    /\ row' = [row EXCEPT ![r] = "busy"]
    /\ UNCHANGED <<listed, place, purge, up, faults, crashes, stranded>>

----------------------------------------------------------------------------
(* DELETE /records/history, one request at a time.                           *)

PurgeIdle == [purge EXCEPT !.pc = "idle", !.ids = {}, !.todo = {}, !.moved = {}]

\* preview_terminal_run_records
Eligible == {r \in Runs : row[r] = "settled"}

PurgePreview ==
    /\ up = "serving" /\ purge.pc = "idle"
    /\ purge.root < MaxPurges
    /\ purge' = [pc |-> "move", ids |-> Eligible, todo |-> Eligible \cap listed,
                 moved |-> {}, root |-> purge.root + 1]
    /\ UNCHANGED <<row, listed, place, up, faults, crashes, stranded>>

\* quarantine_relative_files: a file that is not in the store counts as missing.
QuarantineMove(r) ==
    /\ up = "serving" /\ purge.pc = "move" /\ r \in purge.todo
    /\ LET found == place[r] = Stored
       IN  /\ place' = IF found THEN [place EXCEPT ![r] = Held(purge.root)] ELSE place
           /\ purge' = [purge EXCEPT !.todo = @ \ {r},
                                     !.moved = IF found THEN @ \cup {r} ELSE @]
    /\ UNCHANGED <<row, listed, up, faults, crashes, stranded>>

\* purge_terminal_run_records checks the preview again inside its transaction.
DeleteRows ==
    /\ up = "serving" /\ purge.pc = "move" /\ purge.todo = {}
    /\ purge.ids \subseteq Eligible
    /\ row' = [r \in Runs |-> IF r \in purge.ids THEN "gone" ELSE row[r]]
    /\ listed' = listed \ purge.ids
    /\ purge' = [purge EXCEPT !.pc = "discard"]
    /\ UNCHANGED <<place, up, faults, crashes, stranded>>

\* Mutant of PurgeBacksOut: a failed purge leaves its files in quarantine.
PurgeGivesUp ==
    /\ up = "serving" /\ purge.pc = "move"
    /\ \/ /\ purge.todo = {} /\ ~ purge.ids \subseteq Eligible
          /\ faults' = faults
       \/ /\ faults < MaxFaults /\ faults' = faults + 1
    /\ purge' = PurgeIdle
    /\ UNCHANGED <<row, listed, place, up, crashes, stranded>>

\* A move, or the transaction, fails: the files go back.
PurgeBacksOut ==
    /\ up = "serving" /\ purge.pc = "move"
    /\ \/ /\ purge.todo = {} /\ ~ purge.ids \subseteq Eligible
          /\ faults' = faults
       \/ /\ faults < MaxFaults /\ faults' = faults + 1
    /\ purge' = [purge EXCEPT !.pc = "restore"]
    /\ UNCHANGED <<row, listed, place, up, crashes, stranded>>

\* restore_quarantined_files; the first error leaves the rest in quarantine.
RestoreMove(r) ==
    /\ up = "serving" /\ purge.pc = "restore" /\ r \in purge.moved
    /\ place' = [place EXCEPT ![r] = Stored]
    /\ purge' = [purge EXCEPT !.moved = @ \ {r}]
    /\ UNCHANGED <<row, listed, up, faults, crashes, stranded>>

RestoreFails ==
    /\ up = "serving" /\ purge.pc = "restore" /\ purge.moved # {}
    /\ faults < MaxFaults /\ faults' = faults + 1
    /\ purge' = PurgeIdle
    /\ stranded' = TRUE
    /\ UNCHANGED <<row, listed, place, up, crashes>>

\* discard_quarantined_files; a file that cannot be unlinked is left.
DiscardMove(r) ==
    /\ up = "serving" /\ purge.pc = "discard" /\ r \in purge.moved
    /\ \/ place' = [place EXCEPT ![r] = Unlinked] /\ faults' = faults
       \/ /\ faults < MaxFaults /\ faults' = faults + 1
          /\ place' = place
    /\ purge' = [purge EXCEPT !.moved = @ \ {r}]
    /\ UNCHANGED <<row, listed, up, crashes, stranded>>

PurgeEnds ==
    /\ up = "serving" /\ purge.pc \in {"restore", "discard"}
    /\ purge.moved = {}
    /\ purge' = PurgeIdle
    /\ UNCHANGED <<row, listed, place, up, faults, crashes, stranded>>

----------------------------------------------------------------------------
(* Startup: recover_purge_quarantines decides per quarantine directory.      *)

Start ==
    /\ up = "down" /\ up' = "quarantines"
    /\ UNCHANGED <<row, listed, place, purge, faults, crashes, stranded>>

Present(k) == {row[r] # "gone" : r \in Quarantined(k)}

\* Mutant of RecoverMove: whatever a crash left in quarantine is unlinked.
RecoverUnlinks(k, r) ==
    /\ up = "quarantines" /\ r \in Quarantined(k)
    /\ Cardinality(Present(k)) = 1
    /\ place' = [place EXCEPT ![r] = Unlinked]
    /\ UNCHANGED <<row, listed, purge, up, faults, crashes, stranded>>

\* Every run is on record: the files go back.  None is: they are unlinked.
RecoverMove(k, r) ==
    /\ up = "quarantines" /\ r \in Quarantined(k)
    /\ Cardinality(Present(k)) = 1
    /\ place' = [place EXCEPT ![r] = IF Present(k) = {TRUE} THEN Stored ELSE Unlinked]
    /\ UNCHANGED <<row, listed, purge, up, faults, crashes, stranded>>

\* A mixed directory, or an error, keeps the service down.
RecoverRefuses(k) ==
    /\ up = "quarantines" /\ Quarantined(k) # {}
    /\ \/ Cardinality(Present(k)) > 1 /\ faults' = faults
       \/ faults < MaxFaults /\ faults' = faults + 1
    /\ up' = "down"
    /\ UNCHANGED <<row, listed, place, purge, crashes, stranded>>

RecoverDone ==
    /\ up = "quarantines"
    /\ \A k \in Roots : Quarantined(k) = {}
    /\ up' = "writeback"
    /\ stranded' = FALSE
    /\ UNCHANGED <<row, listed, place, purge, faults, crashes>>

\* The request in progress dies with the process; rows and files stay.
PurgeCrash ==
    /\ crashes < MaxCrashes /\ crashes' = crashes + 1
    /\ up # "down" /\ up' = "down"
    /\ purge' = PurgeIdle
    /\ UNCHANGED <<row, listed, place, faults, stranded>>

----------------------------------------------------------------------------
(* Properties                                                                *)

\* No order of moves, deletions, failed rollbacks, crashes and restarts unlinks
\* the file of an artifact whose run is still on record.
NoArtifactLost ==
    \A r \in listed : place[r] \notin {Unwritten, Unlinked}

\* A service that has finished its quarantine recovery, and is not in the
\* middle of a purge, can read every artifact it lists, unless a rollback of a
\* purge failed since the last startup.
ListedReadable ==
    up \in {"writeback", "serving"} /\ purge.pc = "idle" /\ ~ stranded
        => \A r \in listed : place[r] = Stored
====
