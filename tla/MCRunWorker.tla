---------------------------- MODULE MCRunWorker -----------------------------
(* Small instances of RunWorker for TLC.                                   *)
EXTENDS RunWorker, TLC

CONSTANTS r1, r2, j1, j2, c1, c2

AllRequests == {"submit", "start", "approve", "reject", "cancel", "bgapprove"}

ClientSymmetry == Permutations(Client)
=============================================================================
