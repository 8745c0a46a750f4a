------------------------------- MODULE MC_NetFd -------------------------------
(* NetFd with two threads, descriptors 3 and 4, two getaddrinfo() entries  *)
(* and four sockets.  The threads are interchangeable.                     *)
EXTENDS NetFd, TLC

CONSTANTS t1, t2

MCThreads == {t1, t2}
MCFds == {3, 4}
MCSymmetry == Permutations(MCThreads)
====
