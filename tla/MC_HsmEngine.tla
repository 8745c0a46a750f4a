---------------------------- MODULE MC_HsmEngine ----------------------------
(* HsmEngine with the default HSM (no ENGINE) and an ENGINE HSM h1 that has *)
(* a keypair table and no default credential.                              *)
EXTENDS HsmEngine, TLC

CONSTANTS kp, crt, hd, h1, x1, x2, v1, v2, r1, l1

Full == [free |-> TRUE, dup |-> TRUE]

MCRegistry == [p \in Types \X HSMs |-> Full]

MCHsmHasCallbacks == [h \in HSMs |-> TRUE]
MCHsmDriver == [h \in HSMs |-> h = h1]
MCHsmCred == [h \in HSMs |-> FALSE]

Symmetry == Permutations({x1, x2}) \cup Permutations({v1, v2})
=============================================================================
