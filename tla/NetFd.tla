-------------------------------- MODULE NetFd --------------------------------
(***************************************************************************)
(* The descriptors net/sock.c allocates and closes, in a process whose     *)
(* threads call PKI_NET_listen, PKI_NET_open, PKI_NET_accept,              *)
(* PKI_NET_close and PKI_NET_sendto at the same time.                      *)
(*                                                                         *)
(* The kernel's descriptor table fdt maps each descriptor number to the    *)
(* socket open on it (0: none); socket() and accept() take the lowest free *)
(* number, as POSIX requires, and close() frees whatever the number names  *)
(* at that moment.  Sockets are numbered in creation order.  Each thread   *)
(* runs one call at a time, with a step per system call that allocates or  *)
(* frees a descriptor, so other threads' calls interleave between them.    *)
(* held[t] is what the calls returned to thread t: descriptor and socket.  *)
(***************************************************************************)
EXTENDS Integers, FiniteSetsExt

CONSTANTS
    Threads,    \* threads calling the socket API
    Fds,        \* descriptor numbers the process may use (naturals)
    NCand,      \* addresses getaddrinfo() returns for a host (>= 1)
    MaxSocks    \* sockets created over a run

Socks == 1..MaxSocks

VARIABLES
    fdt,        \* fdt[f]: the socket open on descriptor f, or 0
    nsock,      \* sockets created so far
    listening,  \* sockets listen() succeeded on
    pc,         \* pc[t]: where thread t is in its current call
    fd,         \* fd[t]: the call's local descriptor (-1 after a failure)
    rp,         \* rp[t]: the getaddrinfo() entry the loop is at
    stype,      \* stype[t]: the PKI_NET_SOCK_TYPE passed to listen
    held        \* held[t]: <<descriptor, socket>> pairs returned to t

vars == <<fdt, nsock, listening, pc, fd, rp, stype, held>>

TypeOK ==
    /\ fdt \in [Fds -> 0..MaxSocks] /\ nsock \in 0..MaxSocks
    /\ listening \subseteq Socks
    /\ pc \in [Threads -> {"idle", "L_socket", "L_opt", "L_bind",
                           "O_socket", "O_connect", "A_select", "A_accept"}]
    /\ fd \in [Threads -> Fds \cup {-1, 0}]
    /\ rp \in [Threads -> 1..NCand + 1]
    /\ stype \in [Threads -> {"STREAM", "DGRAM"}]
    /\ held \in [Threads -> SUBSET (Fds \X Socks)]

Init ==
    /\ fdt = [f \in Fds |-> 0] /\ nsock = 0 /\ listening = {}
    /\ pc = [t \in Threads |-> "idle"] /\ fd = [t \in Threads |-> 0]
    /\ rp = [t \in Threads |-> 1] /\ stype = [t \in Threads |-> "STREAM"]
    /\ held = [t \in Threads |-> {}]

-----------------------------------------------------------------------------
(* The kernel. *)

FreeFds == {f \in Fds : fdt[f] = 0}

(* socket() or accept() succeeds: a new socket on the lowest free number. *)
Allocate(f) ==
    /\ FreeFds # {} /\ nsock < MaxSocks
    /\ f = Min(FreeFds)
    /\ fdt' = [fdt EXCEPT ![f] = nsock + 1]
    /\ nsock' = nsock + 1

(* close(f): frees whatever is open on f now; EBADF for -1 or a free f. *)
Close(f) == fdt' = [g \in Fds |-> IF g = f THEN 0 ELSE fdt[g]]

(* Return from the call, handing back f and the socket open on it after  *)
(* the step, or failing.                                                   *)
ReturnFd(t, f) ==
    /\ pc' = [pc EXCEPT ![t] = "idle"]
    /\ held' = [held EXCEPT ![t] = @ \cup {<<f, fdt'[f]>>}]
Fail(t) == pc' = [pc EXCEPT ![t] = "idle"] /\ UNCHANGED held

-----------------------------------------------------------------------------
(* PKI_NET_listen -> _Listen(host, port, type): getaddrinfo() succeeded    *)
(* (on failure _Listen returns -1 having touched nothing); fd starts at 0. *)
PKI_NET_listen(t, ty) ==
    /\ pc[t] = "idle"
    /\ pc' = [pc EXCEPT ![t] = "L_socket"] /\ stype' = [stype EXCEPT ![t] = ty]
    /\ fd' = [fd EXCEPT ![t] = 0] /\ rp' = [rp EXCEPT ![t] = 1]
    /\ UNCHANGED <<fdt, nsock, listening, held>>

(* The candidate loop: _Socket() on entry rp.  Past the last entry         *)
(* (rp == NULL) _Listen calls close(fd) and returns -1; fd is -1 if the    *)
(* last socket() failed, and otherwise the descriptor it already closed    *)
(* after setsockopt() failed, which another thread may have been given     *)
(* since.                                                                  *)
ListenSocket(t) ==
    /\ pc[t] = "L_socket"
    /\ \/ /\ rp[t] <= NCand
          /\ \E f \in Fds : Allocate(f) /\ fd' = [fd EXCEPT ![t] = f]
          /\ pc' = [pc EXCEPT ![t] = "L_opt"]
          /\ UNCHANGED rp
       \/ /\ rp[t] <= NCand
          /\ fd' = [fd EXCEPT ![t] = -1] /\ rp' = [rp EXCEPT ![t] = @ + 1]
          /\ UNCHANGED <<fdt, nsock, pc>>
       \/ /\ rp[t] > NCand
          /\ Close(fd[t]) /\ Fail(t)
          /\ UNCHANGED <<nsock, fd, rp>>
    /\ UNCHANGED <<listening, stype, held>>

(* setsockopt(SO_REUSEADDR): on failure close(fd) and try the next entry. *)
ListenSetsockopt(t) ==
    /\ pc[t] = "L_opt"
    /\ \/ /\ pc' = [pc EXCEPT ![t] = "L_bind"]
          /\ UNCHANGED <<fdt, rp>>
       \/ /\ Close(fd[t])
          /\ rp' = [rp EXCEPT ![t] = @ + 1] /\ pc' = [pc EXCEPT ![t] = "L_socket"]
    /\ UNCHANGED <<nsock, listening, fd, stype, held>>

(* bind(), then listen() for a stream socket: a failure closes fd and     *)
(* returns -1; a datagram socket is returned once bound.                   *)
ListenBind(t) ==
    /\ pc[t] = "L_bind"
    /\ \/ /\ Close(fd[t]) /\ Fail(t)
          /\ UNCHANGED listening
       \/ /\ stype[t] = "DGRAM"
          /\ UNCHANGED <<fdt, listening>>
          /\ ReturnFd(t, fd[t])
       \/ /\ stype[t] = "STREAM"
          /\ listening' = listening \cup {fdt[fd[t]]}
          /\ UNCHANGED fdt
          /\ ReturnFd(t, fd[t])
    /\ UNCHANGED <<nsock, fd, rp, stype>>

-----------------------------------------------------------------------------
(* PKI_NET_open -> inet_connect(url), getaddrinfo() having succeeded. *)
PKI_NET_open(t) ==
    /\ pc[t] = "idle"
    /\ pc' = [pc EXCEPT ![t] = "O_socket"] /\ rp' = [rp EXCEPT ![t] = 1]
    /\ UNCHANGED <<fdt, nsock, listening, fd, stype, held>>

(* The first entry socket() succeeds on is used; none: return -1. *)
OpenSocket(t) ==
    /\ pc[t] = "O_socket"
    /\ \/ /\ rp[t] <= NCand
          /\ \E f \in Fds : Allocate(f) /\ fd' = [fd EXCEPT ![t] = f]
          /\ pc' = [pc EXCEPT ![t] = "O_connect"]
          /\ UNCHANGED rp
       \/ /\ rp[t] <= NCand
          /\ rp' = [rp EXCEPT ![t] = @ + 1]
          /\ UNCHANGED <<fdt, nsock, pc, fd>>
       \/ /\ rp[t] > NCand
          /\ Fail(t)
          /\ UNCHANGED <<fdt, nsock, fd, rp>>
    /\ UNCHANGED <<listening, stype, held>>

(* _Connect(): on failure _Close(sockfd) and return -1. *)
OpenConnect(t) ==
    /\ pc[t] = "O_connect"
    /\ \/ /\ Close(fd[t]) /\ Fail(t)
       \/ /\ UNCHANGED fdt /\ ReturnFd(t, fd[t])
    /\ UNCHANGED <<nsock, listening, fd, rp, stype>>

-----------------------------------------------------------------------------
(* PKI_NET_accept(sock, timeout) on a descriptor t holds: fcntl() fails on *)
(* a closed descriptor.                                                    *)
PKI_NET_accept(t, f) ==
    /\ pc[t] = "idle" /\ \E s \in Socks : <<f, s>> \in held[t]
    /\ \/ /\ fdt[f] = 0 /\ UNCHANGED pc
       \/ /\ fdt[f] # 0 /\ pc' = [pc EXCEPT ![t] = "A_select"]
    /\ fd' = [fd EXCEPT ![t] = f]
    /\ UNCHANGED <<fdt, nsock, listening, rp, stype, held>>

(* select(): an error or the timeout returns -1; EINTR loops without a    *)
(* change; a readable socket goes on to accept().                          *)
AcceptSelect(t) ==
    /\ pc[t] = "A_select"
    /\ \/ Fail(t)
       \/ pc' = [pc EXCEPT ![t] = "A_accept"] /\ UNCHANGED held
    /\ UNCHANGED <<fdt, nsock, listening, fd, rp, stype>>

(* accept(): a connection on whatever listening socket fd names now, or   *)
(* -1 (not a listening socket, EMFILE, ...); EINTR selects again.          *)
AcceptAccept(t) ==
    /\ pc[t] = "A_accept"
    /\ \/ /\ fdt[fd[t]] \in listening
          /\ \E n \in Fds : Allocate(n) /\ ReturnFd(t, n)
       \/ /\ Fail(t) /\ UNCHANGED <<fdt, nsock>>
       \/ /\ pc' = [pc EXCEPT ![t] = "A_select"]
          /\ UNCHANGED <<fdt, nsock, held>>
    /\ UNCHANGED <<listening, fd, rp, stype>>

-----------------------------------------------------------------------------
(* PKI_NET_close(sock) -> inet_close -> _Close: close() on a descriptor t *)
(* holds.                                                                  *)
PKI_NET_close(t, f) ==
    /\ pc[t] = "idle"
    /\ \E s \in Socks :
         /\ <<f, s>> \in held[t]
         /\ held' = [held EXCEPT ![t] = @ \ {<<f, s>>}]
    /\ Close(f)
    /\ UNCHANGED <<nsock, listening, pc, fd, rp, stype>>

(* PKI_NET_sendto(sock < 0, ...): a datagram socket is made for the send  *)
(* and neither closed nor returned; a result of 0 counts as a failure.    *)
(* With sock >= 0 or a bad host or port nothing is allocated.             *)
PKI_NET_sendto(t) ==
    /\ pc[t] = "idle"
    /\ \E f \in Fds : Allocate(f)
    /\ UNCHANGED <<listening, pc, fd, rp, stype, held>>

-----------------------------------------------------------------------------
Next ==
    \E t \in Threads :
        \/ \E ty \in {"STREAM", "DGRAM"} : PKI_NET_listen(t, ty)
        \/ ListenSocket(t) \/ ListenSetsockopt(t) \/ ListenBind(t)
        \/ PKI_NET_open(t) \/ OpenSocket(t) \/ OpenConnect(t)
        \/ \E f \in Fds : PKI_NET_accept(t, f) \/ PKI_NET_close(t, f)
        \/ AcceptSelect(t) \/ AcceptAccept(t)
        \/ PKI_NET_sendto(t)

Spec == Init /\ [][Next]_vars

-----------------------------------------------------------------------------
(* A descriptor PKI_NET_listen, PKI_NET_open or PKI_NET_accept returned to *)
(* a thread stays open on the socket it was returned with until that       *)
(* thread passes it to PKI_NET_close: no other thread's call closes it or  *)
(* makes it name another socket.  The calls close only descriptors they    *)
(* allocated themselves, so this fails only if a call closes a number it   *)
(* no longer owns.                                                         *)
DescriptorsIntact ==
    \A t \in Threads : \A p \in held[t] : fdt[p[1]] = p[2]

====
