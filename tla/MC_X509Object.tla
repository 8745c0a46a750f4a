--------------------------- MODULE MC_X509Object ---------------------------
(* Small instance of X509Object: two data types, the default HSM and one  *)
(* more whose certificate table has neither 'free' nor 'dup' and which     *)
(* has no keypair table.                                                   *)
EXTENDS X509Object, TLC

CONSTANTS kp, crt, hd, h1, x1, x2, v1, v2, v3, r1, r2, l1, l2

Full == [free |-> TRUE, dup |-> TRUE]
Bare == [free |-> FALSE, dup |-> FALSE]

MCRegistry ==
    [p \in Types \X HSMs |->
        IF p[2] = hd THEN Full
        ELSE IF p[1] = crt THEN Bare ELSE NoCb]

MCHsmHasCallbacks == [h \in HSMs |-> TRUE]

Symmetry == Permutations({x1, x2}) \cup Permutations({v1, v2, v3})
                \cup Permutations({r1, r2})
=============================================================================
