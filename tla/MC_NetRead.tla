------------------------------ MODULE MC_NetRead ------------------------------
(* NetRead on a stream of up to four bytes over two values, a two-byte    *)
(* tmp_buff, max_size 0 (none) or 3, timeout 0 (none) or 1, and one        *)
(* signal or spurious wake-up.                                             *)
EXTENDS NetRead

CONSTANTS d1, d2

MCData == {d1, d2}
====
