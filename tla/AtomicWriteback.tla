---- MODULE AtomicWriteback ----
(* What a source writeback promises its operator: the patched files change   *)
(* as one set.  A window opens around the write; while it is open the files  *)
(* may be in any mixture of base and new contents.  When it closes, the      *)
(* files nobody else has touched are all new and the success is on record,   *)
(* or they are all back at their base contents.                              *)
CONSTANTS Files

VARIABLES
    repo,      \* repo[f]: "base", "new" or "other" (somebody else's) contents
    open,      \* a transaction is on disk
    audited,   \* the success trace has been recorded
    foreign    \* the files somebody else has written

vars == <<repo, open, audited, foreign>>

Init ==
    /\ repo = [f \in Files |-> "base"]
    /\ open = FALSE /\ audited = FALSE /\ foreign = {}

\* A transaction opens only over the exact base contents, and never for a
\* writeback that is on record as applied.
Begin ==
    /\ ~ open /\ open' = TRUE
    /\ ~ audited
    /\ \A f \in Files \ foreign : repo[f] = "base"
    /\ UNCHANGED <<repo, audited, foreign>>

\* The writer replaces base by new contents before the audit, and new by base
\* contents to undo.  Somebody else's bytes may be lost in the instant between
\* the last comparison and the replacement.
Write(f) ==
    /\ open
    /\ \/ ~ audited /\ repo' = [repo EXCEPT ![f] = "new"]
       \/ repo' = [repo EXCEPT ![f] = "base"] /\ (audited => foreign # {})
    /\ repo[f] = "other" => f \in foreign
    /\ UNCHANGED <<open, audited, foreign>>

\* The audit record is written after the last file.
Audit ==
    /\ open
    /\ ~ audited /\ audited' = TRUE
    /\ \A f \in Files \ foreign : repo[f] = "new"
    /\ UNCHANGED <<repo, open, foreign>>

Close ==
    /\ open /\ open' = FALSE
    /\ \/ audited /\ \A f \in Files \ foreign : repo[f] = "new"
       \/ ~ audited /\ \A f \in Files \ foreign : repo[f] = "base"
       \/ audited /\ foreign # {} /\ \A f \in Files \ foreign : repo[f] = "base"
    /\ UNCHANGED <<repo, audited, foreign>>

\* Somebody else writes a file, at any time.
Edit(f) ==
    /\ \E c \in {"base", "new", "other"} : repo' = [repo EXCEPT ![f] = c]
    /\ foreign' = foreign \cup {f}
    /\ UNCHANGED <<open, audited>>

Next ==
    \/ Begin \/ Audit \/ Close
    \/ \E f \in Files : Write(f) \/ Edit(f)

Spec == Init /\ [][Next]_vars
====
