----------------------------- MODULE MC_PkiLog -----------------------------
(* Two threads logging and reconfiguring the log subsystem. *)
EXTENDS PkiLog, TLC

CONSTANTS t1, t2, p1

(* PKI_log_init as documented: a token exactly when signing is enabled. *)
MCConsistentArgs == {a \in InitArgs : a.tk = a.sign}

Symmetry == Permutations({t1, t2})
=============================================================================
