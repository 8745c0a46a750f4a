----------------------------- MODULE PkiLogProofs -----------------------------
(***************************************************************************)
(* Proofs, for every set of threads, levels, paths and PKI_log_init        *)
(* arguments, of the locking properties of pki_log.c that the log_locking  *)
(* run checks on two threads: no two threads wait for each other          *)
(* (NoWaitCycle), and no add callback overlaps another or a                *)
(* reconfiguration (SinkExclusive); and the action property that every    *)
(* write to the configuration, the system log or a file is made under the  *)
(* mutexes (ProtectedWrites).  The arguments may be inconsistent           *)
(* (a token without the signature flag), so the error path of              *)
(* PKI_log_init, which blocks on its own log_res_mutex, is included.       *)
(***************************************************************************)
EXTENDS PkiLog, WellFoundedInduction, TLAPS

USE LogAssumption

(* The places where a thread owns log_res_mutex, and log_mutex, by the     *)
(* code: between its lock and its unlock.  ret[t] = "i_unlock" marks a     *)
(* PKI_log_init that went to its PKI_log_err with both mutexes held.       *)
ResHeld == {"i_log", "i_body", "i_unlock", "n_log", "n_body", "w_add"}
LogHeld == {"i_body", "i_unlock", "n_body"}

HoldsRes(t) == pc[t] \in ResHeld \/ ret[t] = "i_unlock"
HoldsLog(t) == pc[t] \in LogHeld \/ ret[t] = "i_unlock"

(* The inductive invariant: each mutex is owned by exactly the thread that *)
(* is between its lock and unlock, and a PKI_log_err entered from          *)
(* PKI_log_init never gets past its lock.                                  *)
IInv ==
    /\ TypeOK
    /\ \A t \in Threads : ret[t] = "i_unlock" => pc[t] = "e_res"
    /\ \A t \in Threads : HoldsRes(t) <=> resMx = t
    /\ \A t \in Threads : HoldsLog(t) <=> logMx = t

(* PKI_LOG_ERR is a level: a nonempty set of naturals has a least element. *)
LEMMA ErrLevelType == ErrLevel \in Levels /\ \A k \in Levels : ErrLevel <= k
<1>1. \E x \in Levels : \A y \in Levels : ~(<<y, x>> \in OpToRel(<, Nat))
  BY NatLessThanWellFounded, WFMin
<1>2. \E x \in Levels : \A y \in Levels : x <= y
  <2>1. PICK x \in Levels : \A y \in Levels : ~(<<y, x>> \in OpToRel(<, Nat))
    BY <1>1
  <2>2. ASSUME NEW y \in Levels PROVE x <= y
    <3>1. y \in Nat /\ x \in Nat
      OBVIOUS
    <3>2. ~(<<y, x>> \in Nat \X Nat /\ y < x)
      BY <2>1 DEF OpToRel
    <3>. QED
      BY <3>1, <3>2
  <2>. QED
    BY <2>2
<1>. QED
  BY <1>2 DEF ErrLevel

LEMMA InitIInv == Init => IInv
<1>. SUFFICES ASSUME Init PROVE IInv
  OBVIOUS
<1>1. ErrLevel \in Levels
  BY ErrLevelType
<1>2. TypeOK
  BY <1>1 DEF Init, TypeOK, Config, LogTypes, Sinks, PCs
<1>. QED
  BY <1>2 DEF Init, IInv, HoldsRes, HoldsLog, ResHeld, LogHeld

(* A thread's step from idle into a call: it owns nothing before or after. *)
LEMMA EnterIInv ==
  ASSUME IInv, NEW t \in Threads,
         CallInit(t) \/ CallEnd(t) \/ CallDebug(t) \/ CallErr(t)
           \/ \E lv \in Levels \cup {Always} : CallLog(t, lv)
  PROVE  IInv'
<1>1. /\ pc[t] = "idle" /\ pc' = [pc EXCEPT ![t] = pc'[t]]
      /\ pc'[t] \in {"i_res", "n_res", "w_res", "e_res"}
      /\ ret'[t] = "idle" \/ ret' = ret
      /\ ret' = [ret EXCEPT ![t] = ret'[t]]
      /\ UNCHANGED <<resMx, logMx, log, syslogOpen, files>>
  BY DEF IInv, TypeOK, CallInit, CallEnd, CallDebug, CallErr, CallLog
<1>2. ret[t] # "i_unlock" /\ resMx # t /\ logMx # t
  BY <1>1 DEF IInv, HoldsRes, HoldsLog, ResHeld, LogHeld
<1>3. TypeOK'
  BY <1>1 DEF IInv, TypeOK, PCs
<1>4. /\ \A u \in Threads \ {t} : pc'[u] = pc[u] /\ ret'[u] = ret[u]
      /\ ret'[t] # "i_unlock" /\ pc'[t] \notin ResHeld \cup LogHeld
  BY <1>1, <1>2 DEF IInv, TypeOK, ResHeld, LogHeld
<1>5. \A u \in Threads : ret'[u] = "i_unlock" => pc'[u] = "e_res"
  BY <1>4 DEF IInv
<1>6. \A u \in Threads : HoldsRes(u)' <=> resMx' = u
  BY <1>1, <1>2, <1>4 DEF IInv, HoldsRes
<1>7. \A u \in Threads : HoldsLog(u)' <=> logMx' = u
  BY <1>1, <1>2, <1>4 DEF IInv, HoldsLog
<1>. QED
  BY <1>3, <1>5, <1>6, <1>7 DEF IInv

(* pthread_mutex_lock(&log_res_mutex) returns: t becomes its owner.  No  *)
(* thread owned it, so none is between its lock and unlock.                *)
LEMMA LockResIInv ==
  ASSUME IInv, NEW t \in Threads,
         InitLockRes(t) \/ EndLockRes(t) \/ WriterLock(t)
  PROVE  IInv'
<1>1. /\ resMx = Null /\ resMx' = t
      /\ pc[t] \in {"i_res", "n_res", "w_res", "e_res"}
      /\ pc' = [pc EXCEPT ![t] = pc'[t]] /\ pc'[t] \in {"i_log", "n_log", "w_add"}
      /\ UNCHANGED <<logMx, log, syslogOpen, files, ret>>
  BY DEF InitLockRes, EndLockRes, WriterLock, Free, IInv, TypeOK
<1>2. /\ \A u \in Threads : ~HoldsRes(u)
      /\ ret[t] # "i_unlock" /\ logMx # t
  BY <1>1 DEF IInv, HoldsRes, HoldsLog, LogHeld
<1>3. \A u \in Threads \ {t} : pc'[u] = pc[u]
  BY <1>1 DEF IInv, TypeOK
<1>4. TypeOK'
  BY <1>1 DEF IInv, TypeOK, PCs
<1>5. \A u \in Threads : ret'[u] = "i_unlock" => pc'[u] = "e_res"
  BY <1>1, <1>2, <1>3 DEF IInv
<1>6. \A u \in Threads : HoldsRes(u)' <=> resMx' = u
  BY <1>1, <1>2, <1>3 DEF HoldsRes, ResHeld
<1>7. \A u \in Threads : HoldsLog(u)' <=> logMx' = u
  BY <1>1, <1>2, <1>3 DEF IInv, HoldsLog, LogHeld
<1>. QED
  BY <1>4, <1>5, <1>6, <1>7 DEF IInv

(* pthread_mutex_lock(&log_mutex) returns in PKI_log_init or PKI_log_end: *)
(* t, already the owner of log_res_mutex, becomes the owner of log_mutex.  *)
LEMMA LockLogIInv ==
  ASSUME IInv, NEW t \in Threads, InitLockLog(t) \/ EndLockLog(t)
  PROVE  IInv'
<1>1. /\ logMx = Null /\ logMx' = t
      /\ pc[t] \in {"i_log", "n_log"}
      /\ pc' = [pc EXCEPT ![t] = pc'[t]] /\ pc'[t] \in {"i_body", "n_body"}
      /\ UNCHANGED <<resMx, log, syslogOpen, files, ret>>
  BY DEF InitLockLog, EndLockLog, Free, IInv, TypeOK
<1>2. /\ \A u \in Threads : ~HoldsLog(u)
      /\ ret[t] # "i_unlock" /\ resMx = t
  BY <1>1 DEF IInv, HoldsRes, HoldsLog, ResHeld
<1>3. \A u \in Threads \ {t} : pc'[u] = pc[u]
  BY <1>1 DEF IInv, TypeOK
<1>4. TypeOK'
  BY <1>1 DEF IInv, TypeOK, PCs
<1>5. \A u \in Threads : ret'[u] = "i_unlock" => pc'[u] = "e_res"
  BY <1>1, <1>2, <1>3 DEF IInv
<1>6. \A u \in Threads : HoldsRes(u)' <=> resMx' = u
  BY <1>1, <1>2, <1>3 DEF IInv, HoldsRes, ResHeld
<1>7. \A u \in Threads : HoldsLog(u)' <=> logMx' = u
  BY <1>1, <1>2, <1>3 DEF HoldsLog, LogHeld
<1>. QED
  BY <1>4, <1>5, <1>6, <1>7 DEF IInv

(* PKI_log_init's err label and the end of PKI_log_end unlock both        *)
(* mutexes, which t owns.                                                  *)
LEMMA UnlockIInv ==
  ASSUME IInv, NEW t \in Threads, InitUnlock(t) \/ EndBody(t)
  PROVE  IInv'
<1>1. /\ pc[t] \in {"i_unlock", "n_body"}
      /\ resMx' = Null /\ logMx' = Null
      /\ pc' = [pc EXCEPT ![t] = "idle"]
      /\ UNCHANGED <<log, files, ret>>
      /\ syslogOpen' \in BOOLEAN
  BY DEF InitUnlock, EndBody, SinkFinalizeOpen, IInv, TypeOK
<1>2. /\ resMx = t /\ logMx = t /\ ret[t] # "i_unlock"
  BY <1>1 DEF IInv, HoldsRes, HoldsLog, ResHeld, LogHeld
<1>3. \A u \in Threads \ {t} : pc'[u] = pc[u] /\ ~HoldsRes(u) /\ ~HoldsLog(u)
  BY <1>1, <1>2 DEF IInv, TypeOK
<1>4. TypeOK'
  BY <1>1 DEF IInv, TypeOK, PCs
<1>5. \A u \in Threads : ret'[u] = "i_unlock" => pc'[u] = "e_res"
  BY <1>1, <1>2, <1>3 DEF IInv
<1>6. \A u \in Threads : HoldsRes(u)' <=> resMx' = u
  BY <1>1, <1>2, <1>3 DEF IInv, TypeOK, HoldsRes, ResHeld
<1>7. \A u \in Threads : HoldsLog(u)' <=> logMx' = u
  BY <1>1, <1>2, <1>3 DEF IInv, TypeOK, HoldsLog, LogHeld
<1>. QED
  BY <1>4, <1>5, <1>6, <1>7 DEF IInv

(* The add callback returns and log_res_mutex is unlocked; the writer was  *)
(* not PKI_log_init's PKI_log_err (that one never gets the mutex), so it   *)
(* returns to its caller.                                                  *)
LEMMA WriterAddIInv ==
  ASSUME IInv, NEW t \in Threads, WriterAdd(t)
  PROVE  IInv'
<1>1. /\ pc[t] = "w_add" /\ resMx' = Null
      /\ pc' = [pc EXCEPT ![t] = ret[t]]
      /\ UNCHANGED <<logMx, log, syslogOpen, ret>>
      /\ files' \subseteq Paths
  BY DEF WriterAdd, SinkAddCreates, IInv, TypeOK, Config
<1>2. /\ resMx = t /\ logMx # t /\ ret[t] = "idle"
  BY <1>1 DEF IInv, TypeOK, HoldsRes, HoldsLog, ResHeld, LogHeld
<1>3. \A u \in Threads \ {t} : pc'[u] = pc[u] /\ ~HoldsRes(u)
  BY <1>1, <1>2 DEF IInv, TypeOK
<1>4. TypeOK'
  BY <1>1, <1>2 DEF IInv, TypeOK, PCs
<1>5. \A u \in Threads : ret'[u] = "i_unlock" => pc'[u] = "e_res"
  BY <1>1, <1>2, <1>3 DEF IInv
<1>6. \A u \in Threads : HoldsRes(u)' <=> resMx' = u
  BY <1>1, <1>2, <1>3 DEF IInv, TypeOK, HoldsRes, ResHeld
<1>7. \A u \in Threads : HoldsLog(u)' <=> logMx' = u
  BY <1>1, <1>2, <1>3 DEF IInv, TypeOK, HoldsLog, LogHeld
<1>. QED
  BY <1>4, <1>5, <1>6, <1>7 DEF IInv

(* _log_st after PKI_log_init has stored its arguments, r being the      *)
(* strdup'd resource.                                                      *)
Stored(l, a, r) == [l EXCEPT !.type = a.type, !.level = a.level, !.res = r,
                             !.debug = a.debug, !.sign = a.sign,
                             !.tk = IF a.tk THEN TRUE ELSE l.tk]

(* The fields PKI_log_init stores into _log_st keep it a configuration. *)
LEMMA StoredConfig ==
  ASSUME NEW l \in Config, NEW a \in InitArgs, NEW r \in Paths \cup {Null}
  PROVE  Stored(l, a, r) \in Config
BY DEF Config, InitArgs, Stored

(* Installing a sink's callbacks keeps _log_st a configuration. *)
LEMMA SinkConfig ==
  ASSUME NEW c \in Config, NEW k \in Sinks
  PROVE  [c EXCEPT !.sink = k] \in Config
BY DEF Config

(* The body of PKI_log_init under both mutexes: the fields are stored, and *)
(* the call goes on to its err label (unlocking), or, when token and      *)
(* signature flag disagree, into PKI_log_err with both mutexes still held. *)
LEMMA InitBodyIInv ==
  ASSUME IInv, NEW t \in Threads, NEW a \in CallArgs, InitBody(t, a)
  PROVE  IInv'
<1>1. /\ pc[t] = "i_body" /\ UNCHANGED <<resMx, logMx>>
      /\ pc' = [pc EXCEPT ![t] = pc'[t]] /\ ret' = [ret EXCEPT ![t] = ret'[t]]
      /\ \/ pc'[t] = "e_res" /\ ret'[t] = "i_unlock"
         \/ pc'[t] = "i_unlock" /\ ret'[t] = ret[t]
  BY DEF InitBody, IInv, TypeOK
<1>2. /\ resMx = t /\ logMx = t /\ ret[t] # "i_unlock"
  BY <1>1 DEF IInv, HoldsRes, HoldsLog, ResHeld, LogHeld
<1>3. \A u \in Threads \ {t} : pc'[u] = pc[u] /\ ret'[u] = ret[u]
  BY <1>1 DEF IInv, TypeOK
<1>4. TypeOK'
  <2>1. a \in InitArgs /\ log \in Config
    BY DEF IInv, TypeOK
  <2>2. PICK r \in {a.res, Null} :
           \/ log' = Stored(log, a, r) /\ UNCHANGED <<syslogOpen, files>>
           \/ /\ a.type \in Sinks /\ log' = [Stored(log, a, r) EXCEPT !.sink = a.type]
              /\ syslogOpen' = SinkInitOpens(a.type)
              /\ files' \in SinkInitCreates(a.type, r)
    BY DEF InitBody, Stored
  <2>3. r \in Paths \cup {Null}
    BY <2>1 DEF InitArgs
  <2>4. log' \in Config
    <3>1. Stored(log, a, r) \in Config
      BY <2>1, <2>3, StoredConfig
    <3>2. a.type \in Sinks => [Stored(log, a, r) EXCEPT !.sink = a.type] \in Config
      BY <3>1, SinkConfig
    <3>. QED
      BY <2>2, <3>1, <3>2
  <2>5. syslogOpen' \in BOOLEAN /\ files' \subseteq Paths
    BY <2>2, <2>3 DEF IInv, TypeOK, SinkInitOpens, SinkInitCreates
  <2>. QED
    BY <1>1, <1>2, <2>4, <2>5 DEF IInv, TypeOK, PCs
<1>5. \A u \in Threads : ret'[u] = "i_unlock" => pc'[u] = "e_res"
  BY <1>1, <1>2, <1>3 DEF IInv
<1>6. \A u \in Threads : HoldsRes(u)' <=> resMx' = u
  BY <1>1, <1>2, <1>3 DEF IInv, HoldsRes, ResHeld
<1>7. \A u \in Threads : HoldsLog(u)' <=> logMx' = u
  BY <1>1, <1>2, <1>3 DEF IInv, HoldsLog, LogHeld
<1>. QED
  BY <1>4, <1>5, <1>6, <1>7 DEF IInv

-----------------------------------------------------------------------------
LEMMA NextIInv == IInv /\ [Next]_vars => IInv'
<1>. SUFFICES ASSUME IInv, [Next]_vars PROVE IInv'
  OBVIOUS
<1>1. ASSUME NEW t \in Threads,
             \/ CallInit(t) \/ CallEnd(t) \/ CallDebug(t) \/ CallErr(t)
             \/ PkiError(t) \/ \E lv \in Levels \cup {Always} : CallLog(t, lv)
      PROVE  IInv'
  BY <1>1, EnterIInv DEF PkiError
<1>2. ASSUME NEW t \in Threads, \E a \in CallArgs : InitBody(t, a)
      PROVE  IInv'
  BY <1>2, InitBodyIInv
<1>3. CASE UNCHANGED vars
  BY <1>3 DEF vars, IInv, TypeOK, HoldsRes, HoldsLog
<1>. QED
  BY <1>1, <1>2, <1>3, LockResIInv, LockLogIInv, UnlockIInv, WriterAddIInv
     DEF Next

LEMMA IInvInvariant == Spec => []IInv
BY InitIInv, NextIInv, PTL DEF Spec

(* Two threads in the add callback, or one there and one in the body of   *)
(* PKI_log_init or PKI_log_end, would both own log_res_mutex.             *)
LEMMA IInvSinkExclusive == IInv => SinkExclusive
BY DEF IInv, TypeOK, SinkExclusive, HoldsRes, ResHeld

(* A thread waiting for a mutex waits for its owner.  The owner of         *)
(* log_res_mutex waits for nothing, or (PKI_log_init's PKI_log_err) for    *)
(* log_res_mutex, which it owns itself; the owner of log_mutex also owns   *)
(* log_res_mutex.  So nobody waits for a thread that waits for it.         *)
LEMMA IInvNoWaitCycle == IInv => NoWaitCycle
<1>. SUFFICES ASSUME IInv, NEW t \in Threads, NEW u \in Threads, t # u,
                     WaitsFor(t) = u, WaitsFor(u) = t
              PROVE  FALSE
  BY DEF NoWaitCycle
<1>1. u # Null /\ t # Null
  OBVIOUS
<1>2. CASE pc[t] \in {"i_res", "n_res", "w_res", "e_res"}
  <2>1. resMx = u /\ HoldsRes(u)
    BY <1>1, <1>2 DEF WaitsFor, IInv
  <2>2. CASE pc[u] \in {"i_log", "n_log"}
    <3>1. logMx = t
      BY <2>2 DEF WaitsFor
    <3>2. ret[t] = "i_unlock"
      BY <1>2, <3>1 DEF IInv, HoldsLog, LogHeld
    <3>. QED
      BY <2>1, <3>2 DEF IInv, HoldsRes
  <2>3. CASE pc[u] = "e_res"
    BY <1>1, <2>1, <2>3 DEF WaitsFor
  <2>4. CASE pc[u] \notin {"i_log", "n_log", "e_res"}
    <3>0. ret[u] = "i_unlock" => pc[u] = "e_res"
      BY DEF IInv
    <3>1. pc[u] \in ResHeld
      BY <2>1, <2>4, <3>0 DEF HoldsRes
    <3>. QED
      BY <1>1, <2>4, <3>1 DEF WaitsFor, ResHeld
  <2>. QED
    BY <2>2, <2>3, <2>4
<1>3. CASE pc[t] \in {"i_log", "n_log"}
  <2>1. logMx = u /\ HoldsLog(u)
    BY <1>1, <1>3 DEF WaitsFor, IInv
  <2>2. CASE ret[u] = "i_unlock"
    <3>1. pc[u] = "e_res" /\ resMx = u
      BY <2>2 DEF IInv, HoldsRes
    <3>. QED
      BY <1>1, <3>1 DEF WaitsFor
  <2>3. CASE pc[u] \in LogHeld
    BY <1>1, <2>3 DEF WaitsFor, LogHeld
  <2>. QED
    BY <2>1, <2>2, <2>3 DEF HoldsLog
<1>4. CASE pc[t] \notin {"i_res", "n_res", "w_res", "e_res", "i_log", "n_log"}
  BY <1>1, <1>4 DEF WaitsFor
<1>. QED
  BY <1>2, <1>3, <1>4

(* Whatever PKI_log_init arguments the program passes and however many     *)
(* threads log, reconfigure and end logging at once, no two threads ever   *)
(* wait for each other on log_res_mutex and log_mutex: every path takes    *)
(* log_res_mutex first.                                                    *)
THEOREM NoWaitCycleInvariant == Spec => []NoWaitCycle
BY IInvInvariant, IInvNoWaitCycle, PTL

(* For every number of threads, an add callback never runs beside another *)
(* add callback or beside the body of PKI_log_init or PKI_log_end.        *)
THEOREM SinkExclusiveInvariant == Spec => []SinkExclusive
BY IInvInvariant, IInvSinkExclusive, PTL

-----------------------------------------------------------------------------
(* A step of a thread t that owns log_res_mutex, and log_mutex if the      *)
(* step touches _log_st or the system log, is a ProtectedWrite.            *)
LEMMA OwnerWrite ==
    ASSUME IInv, NEW t \in Threads, pc'[t] # pc[t], HoldsRes(t),
           (log' # log \/ syslogOpen' # syslogOpen) => HoldsLog(t)
    PROVE  ProtectedWrite
BY DEF IInv, ProtectedWrite

LEMMA NextProtectedWrite == IInv /\ [Next]_vars => [ProtectedWrite]_vars
<1>. SUFFICES ASSUME IInv, [Next]_vars PROVE [ProtectedWrite]_vars
  OBVIOUS
<1>1. ASSUME NEW t \in Threads, NEW a \in CallArgs, InitBody(t, a)
      PROVE  ProtectedWrite
  <2>1. pc[t] = "i_body" /\ pc'[t] \in {"e_res", "i_unlock"}
    BY <1>1 DEF InitBody, IInv, TypeOK
  <2>. QED
    BY <2>1, OwnerWrite DEF HoldsRes, HoldsLog, ResHeld, LogHeld
<1>2. ASSUME NEW t \in Threads, EndBody(t)
      PROVE  ProtectedWrite
  <2>1. pc[t] = "n_body" /\ pc'[t] = "idle"
    BY <1>2 DEF EndBody, IInv, TypeOK
  <2>. QED
    BY <2>1, OwnerWrite DEF HoldsRes, HoldsLog, ResHeld, LogHeld
<1>3. ASSUME NEW t \in Threads, WriterAdd(t)
      PROVE  ProtectedWrite
  <2>1. pc[t] = "w_add" /\ pc'[t] = ret[t] /\ ret[t] \in {"idle", "i_unlock"}
    BY <1>3 DEF WriterAdd, IInv, TypeOK
  <2>2. UNCHANGED <<log, syslogOpen>>
    BY <1>3 DEF WriterAdd
  <2>. QED
    BY <2>1, <2>2, OwnerWrite DEF HoldsRes, ResHeld
<1>4. ASSUME NEW t \in Threads,
             \/ CallInit(t) \/ InitLockRes(t) \/ InitLockLog(t) \/ InitUnlock(t)
             \/ CallEnd(t) \/ EndLockRes(t) \/ EndLockLog(t)
             \/ \E lv \in Levels \cup {Always} : CallLog(t, lv)
             \/ CallDebug(t) \/ CallErr(t) \/ PkiError(t) \/ WriterLock(t)
      PROVE  UNCHANGED <<log, syslogOpen, files>>
  BY <1>4 DEF CallInit, InitLockRes, InitLockLog, InitUnlock, CallEnd,
              EndLockRes, EndLockLog, CallLog, CallDebug, CallErr, PkiError,
              WriterLock
<1>5. CASE UNCHANGED vars
  BY <1>5 DEF vars
<1>. QED
  BY <1>1, <1>2, <1>3, <1>4, <1>5 DEF Next, ProtectedWrite

(* For every number of threads and all PKI_log_init arguments, no step     *)
(* changes the log configuration, opens or closes the system log or writes *)
(* a log file unless the thread taking it owns log_res_mutex, and, for     *)
(* _log_st and the system log, log_mutex too.                              *)
THEOREM ProtectedWritesTheorem == Spec => ProtectedWrites
BY IInvInvariant, NextProtectedWrite, PTL DEF Spec, ProtectedWrites

====
