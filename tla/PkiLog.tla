------------------------------- MODULE PkiLog -------------------------------
(***************************************************************************)
(* The log subsystem of src/src/pki_log.c: one static configuration        *)
(* _log_st and the two mutexes log_res_mutex and log_mutex, shared by      *)
(* every thread that calls PKI_log_init, PKI_log_end, PKI_log,             *)
(* PKI_log_debug_simple or PKI_log_err_simple.                             *)
(*                                                                         *)
(* A step of a thread ends where the code takes a mutex or reads shared    *)
(* state without one; what a thread does between is one step.  The three  *)
(* callbacks init/add/finalize are always assigned together, so _log_st    *)
(* holds one sink.  PKI_log_err is libpki's macro around                   *)
(* PKI_log_err_simple.                                                     *)
(***************************************************************************)
EXTENDS Naturals

CONSTANTS
    Threads,    \* the calling threads
    Levels,     \* PKI_LOG_LEVEL values above PKI_LOG_NONE, as numbers
    Paths,      \* resource strings
    CallArgs,   \* the PKI_log_init arguments the program passes
    Null        \* NULL, and the owner of a free mutex

LogTypes == {"syslog", "stdout", "stderr", "file", "file_xml"}
Sinks    == {"syslog", "stdout", "stderr", "file"}
Always   == 0          \* PKI_LOG_ALWAYS, a value outside Levels

(* A configuration: the fields of _log_st the code reads. *)
Config == [type : LogTypes, level : Levels, res : Paths \cup {Null},
           debug : BOOLEAN, sign : BOOLEAN, tk : BOOLEAN, sink : Sinks]

(* The arguments of a PKI_log_init call: tk is whether a token is passed, *)
(* sign whether PKI_LOG_FLAGS_ENABLE_SIGNATURE is among the flags.        *)
InitArgs == [type : LogTypes, level : Levels, res : Paths \cup {Null},
             debug : BOOLEAN, sign : BOOLEAN, tk : BOOLEAN]

ASSUME LogAssumption ==
    /\ Levels \subseteq Nat \ {0} /\ Levels # {}
    /\ Null \notin Threads \cup Paths
    /\ CallArgs \subseteq InitArgs /\ CallArgs # {}

(* PKI_LOG_ERR, the lowest level. *)
ErrLevel == CHOOSE l \in Levels : \A k \in Levels : l <= k

VARIABLES
    resMx,      \* owner of log_res_mutex, or Null
    logMx,      \* owner of log_mutex, or Null
    log,        \* _log_st
    syslogOpen, \* openlog() done and not closelog()'d
    files,      \* paths of files that exist
    pc,         \* pc[t]: where thread t is
    ret         \* ret[t]: where t returns when its PKI_log_err_simple ends

vars == <<resMx, logMx, log, syslogOpen, files, pc, ret>>

PCs == {"idle", "i_res", "i_log", "i_body", "i_unlock",
        "n_res", "n_log", "n_body", "w_res", "w_add", "e_res"}

TypeOK ==
    /\ resMx \in Threads \cup {Null}
    /\ logMx \in Threads \cup {Null}
    /\ log \in Config
    /\ syslogOpen \in BOOLEAN
    /\ files \subseteq Paths
    /\ pc \in [Threads -> PCs]
    /\ ret \in [Threads -> {"idle", "i_unlock"}]

(* The static initializer of _log_st: syslog, PKI_LOG_ERR, no resource. *)
Init ==
    /\ resMx = Null
    /\ logMx = Null
    /\ log = [type |-> "syslog", level |-> ErrLevel, res |-> Null, debug |-> FALSE,
              sign |-> FALSE, tk |-> FALSE, sink |-> "syslog"]
    /\ syslogOpen = FALSE
    /\ files = {}
    /\ pc = [t \in Threads |-> "idle"]
    /\ ret = [t \in Threads |-> "idle"]

-----------------------------------------------------------------------------
(* pthread_mutex_lock on a mutex whose owner is m: it waits until the    *)
(* mutex is free, also when the caller itself owns it (the default,       *)
(* non-recursive mutex type of PTHREAD_MUTEX_INITIALIZER).                *)
Free(m) == m = Null

-----------------------------------------------------------------------------
(* The sink callbacks, by what they do to the state the model keeps.       *)

(* The init callbacks: _pki_syslog_init opens the system log;               *)
(* _pki_file_init fails without a resource and otherwise creates the file   *)
(* with O_CREAT unless open() fails; stdout and stderr do nothing.          *)
SinkInitOpens(sink) == syslogOpen \/ sink = "syslog"
SinkInitCreates(sink, r) == IF sink = "file" /\ r # Null THEN {files, files \cup {r}} ELSE {files}

(* The add callbacks: _pki_file_add returns without a resource and         *)
(* otherwise opens it with O_CREAT (which may fail) and appends; the others *)
(* write to syslog, stdout or stderr.                                       *)
SinkAddCreates(sink, r) == IF sink = "file" /\ r # Null THEN {files, files \cup {r}} ELSE {files}

(* The finalize callbacks: only _pki_syslog_finalize does anything,       *)
(* closelog().                                                              *)
SinkFinalizeOpen(sink) == syslogOpen /\ sink # "syslog"

-----------------------------------------------------------------------------
(* PKI_log_init(type, level, resource, flags, tk). *)

(* The call: PKI_init_all(), then pthread_mutex_lock(&log_res_mutex).    *)
(* The arguments are first read in the body, so they are chosen there.    *)
CallInit(t) ==
    /\ pc[t] = "idle"
    /\ pc' = [pc EXCEPT ![t] = "i_res"]
    /\ UNCHANGED <<resMx, logMx, log, syslogOpen, files, ret>>

InitLockRes(t) ==
    /\ pc[t] = "i_res" /\ Free(resMx)
    /\ resMx' = t
    /\ pc' = [pc EXCEPT ![t] = "i_log"]
    /\ UNCHANGED <<logMx, log, syslogOpen, files, ret>>

InitLockLog(t) ==
    /\ pc[t] = "i_log" /\ Free(logMx)
    /\ logMx' = t
    /\ pc' = [pc EXCEPT ![t] = "i_body"]
    /\ UNCHANGED <<resMx, log, syslogOpen, files, ret>>

(* The body under both mutexes: type, level, a strdup'd resource (NULL    *)
(* when strdup fails) and flags are stored first.  A token without the    *)
(* signature flag, or the flag without a token, calls PKI_log_err and     *)
(* goes to err.  An unsupported type goes to err with the previous        *)
(* callbacks left in place.  Otherwise the sink's callbacks are installed *)
(* and its init callback run.                                              *)
InitBody(t, a) ==
    /\ pc[t] = "i_body"
    /\ \E r \in {a.res, Null} :
         LET stored == [log EXCEPT !.type = a.type, !.level = a.level, !.res = r,
                                   !.debug = a.debug, !.sign = a.sign,
                                   !.tk = IF a.tk THEN TRUE ELSE log.tk]
         IN \/ /\ a.tk # a.sign
               /\ log' = stored
               /\ pc' = [pc EXCEPT ![t] = "e_res"]
               /\ ret' = [ret EXCEPT ![t] = "i_unlock"]
               /\ UNCHANGED <<syslogOpen, files>>
            \/ /\ a.tk = a.sign /\ a.type = "file_xml"
               /\ log' = stored
               /\ pc' = [pc EXCEPT ![t] = "i_unlock"]
               /\ UNCHANGED <<syslogOpen, files, ret>>
            \/ /\ a.tk = a.sign /\ a.type \in Sinks
               /\ log' = [stored EXCEPT !.sink = a.type]
               /\ syslogOpen' = SinkInitOpens(a.type)
               /\ files' \in SinkInitCreates(a.type, r)
               /\ pc' = [pc EXCEPT ![t] = "i_unlock"]
               /\ UNCHANGED ret
    /\ UNCHANGED <<resMx, logMx>>

(* err: unlock log_mutex, then log_res_mutex, and return. *)
InitUnlock(t) ==
    /\ pc[t] = "i_unlock"
    /\ logMx' = Null
    /\ resMx' = Null
    /\ pc' = [pc EXCEPT ![t] = "idle"]
    /\ UNCHANGED <<log, syslogOpen, files, ret>>

-----------------------------------------------------------------------------
(* PKI_log_end(): both mutexes, then the finalize callback (closelog for *)
(* syslog), then both released.  The callbacks stay installed.           *)
(* Faulty variant: PKI_log_end goes to the finalize callback without    *)
(* locking either mutex.                                                  *)
CallEnd_NoLock(t) ==
    /\ pc[t] = "idle"
    /\ pc' = [pc EXCEPT ![t] = "n_body"]
    /\ UNCHANGED <<resMx, logMx, log, syslogOpen, files, ret>>

CallEnd(t) ==
    /\ pc[t] = "idle"
    /\ pc' = [pc EXCEPT ![t] = "n_res"]
    /\ UNCHANGED <<resMx, logMx, log, syslogOpen, files, ret>>

EndLockRes(t) ==
    /\ pc[t] = "n_res" /\ Free(resMx)
    /\ resMx' = t
    /\ pc' = [pc EXCEPT ![t] = "n_log"]
    /\ UNCHANGED <<logMx, log, syslogOpen, files, ret>>

EndLockLog(t) ==
    /\ pc[t] = "n_log" /\ Free(logMx)
    /\ logMx' = t
    /\ pc' = [pc EXCEPT ![t] = "n_body"]
    /\ UNCHANGED <<resMx, log, syslogOpen, files, ret>>

(* Faulty variant: PKI_log_end returns without unlocking log_mutex. *)
EndBody_KeepsLog(t) ==
    /\ pc[t] = "n_body"
    /\ syslogOpen' = SinkFinalizeOpen(log.sink)
    /\ resMx' = Null
    /\ pc' = [pc EXCEPT ![t] = "idle"]
    /\ UNCHANGED <<logMx, log, files, ret>>

EndBody(t) ==
    /\ pc[t] = "n_body"
    /\ syslogOpen' = SinkFinalizeOpen(log.sink)
    /\ logMx' = Null
    /\ resMx' = Null
    /\ pc' = [pc EXCEPT ![t] = "idle"]
    /\ UNCHANGED <<log, files, ret>>

-----------------------------------------------------------------------------
(* The writers.  PKI_log(level) and PKI_log_debug_simple test _log_st     *)
(* without a mutex (the callbacks and level, the debug flag) and return   *)
(* when the test fails; PKI_log_err_simple does not test.  Each then      *)
(* takes log_res_mutex, calls the add callback and releases it.           *)
CallLog(t, lv) ==
    /\ pc[t] = "idle"
    /\ lv = Always \/ lv <= log.level
    /\ pc' = [pc EXCEPT ![t] = "w_res"]
    /\ UNCHANGED <<resMx, logMx, log, syslogOpen, files, ret>>

CallDebug(t) ==
    /\ pc[t] = "idle"
    /\ log.debug
    /\ pc' = [pc EXCEPT ![t] = "w_res"]
    /\ UNCHANGED <<resMx, logMx, log, syslogOpen, files, ret>>

CallErr(t) ==
    /\ pc[t] = "idle"
    /\ pc' = [pc EXCEPT ![t] = "e_res"]
    /\ ret' = [ret EXCEPT ![t] = "idle"]
    /\ UNCHANGED <<resMx, logMx, log, syslogOpen, files>>

(* __pki_error (pki_err.c), behind the PKI_ERROR macro every module uses: *)
(* it scans __libpki_errors_st for the code and, for a code found with a   *)
(* description, logs it through PKI_log_err_simple; any other code returns *)
(* PKI_ERR without logging, which changes nothing here.                    *)
PkiError(t) == CallErr(t)

(* Faulty variant: the writer does not wait for log_res_mutex. *)
WriterLock_NoWait(t) ==
    /\ pc[t] \in {"w_res", "e_res"}
    /\ resMx' = t
    /\ pc' = [pc EXCEPT ![t] = "w_add"]
    /\ UNCHANGED <<logMx, log, syslogOpen, files, ret>>

WriterLock(t) ==
    /\ pc[t] \in {"w_res", "e_res"} /\ Free(resMx)
    /\ resMx' = t
    /\ pc' = [pc EXCEPT ![t] = "w_add"]
    /\ UNCHANGED <<logMx, log, syslogOpen, files, ret>>

(* The add callback under log_res_mutex, then the mutex released. *)
WriterAdd(t) ==
    /\ pc[t] = "w_add"
    /\ files' \in SinkAddCreates(log.sink, log.res)
    /\ resMx' = Null
    /\ pc' = [pc EXCEPT ![t] = ret[t]]
    /\ UNCHANGED <<logMx, log, syslogOpen, ret>>

-----------------------------------------------------------------------------
(* Every thread, repeatedly, makes any of the calls. *)
Next ==
    \E t \in Threads :
        \/ CallInit(t) \/ InitLockRes(t) \/ InitLockLog(t) \/ InitUnlock(t)
        \/ \E a \in CallArgs : InitBody(t, a)
        \/ CallEnd(t) \/ EndLockRes(t) \/ EndLockLog(t) \/ EndBody(t)
        \/ \E lv \in Levels \cup {Always} : CallLog(t, lv)
        \/ CallDebug(t) \/ CallErr(t) \/ PkiError(t)
        \/ WriterLock(t) \/ WriterAdd(t)

Spec == Init /\ [][Next]_vars
-----------------------------------------------------------------------------
(* Properties. *)

(* The thread that owns the mutex t is waiting for, or Null. *)
WaitsFor(t) ==
    IF pc[t] \in {"i_res", "n_res", "w_res", "e_res"} THEN resMx
    ELSE IF pc[t] \in {"i_log", "n_log"} THEN logMx
    ELSE Null

(* Lock order: every path takes log_res_mutex before log_mutex and gives  *)
(* both back, so no two threads ever wait for each other.                 *)
NoWaitCycle == \A t, u \in Threads : t # u => ~(WaitsFor(t) = u /\ WaitsFor(u) = t)

(* No thread waits for a mutex it owns itself: PKI_log_init's error       *)
(* paths call PKI_log_err while they hold log_res_mutex.                  *)
NoSelfWait == \A t \in Threads : WaitsFor(t) # t

(* An add callback never runs beside another add callback or beside a    *)
(* PKI_log_init or PKI_log_end that is changing or finalizing _log_st     *)
(* (the sinks and the resource they read are guarded by log_res_mutex).   *)
SinkExclusive ==
    \A t \in Threads : pc[t] = "w_add" =>
        \A u \in Threads \ {t} : pc[u] \notin {"w_add", "i_body", "i_unlock", "n_body"}

(* Every step that changes _log_st, the system log's open state or a log   *)
(* file is a step of the thread that owns log_res_mutex; when it changes   *)
(* _log_st or opens or closes the system log, that thread also owns        *)
(* log_mutex.  PKI_log_init and PKI_log_end take both mutexes before their *)
(* bodies, and PKI_log, PKI_log_debug_simple and PKI_log_err_simple call   *)
(* the add callback only between locking and unlocking log_res_mutex.      *)
ProtectedWrite ==
    \/ UNCHANGED <<log, syslogOpen, files>>
    \/ \E t \in Threads :
          /\ pc'[t] # pc[t]
          /\ resMx = t
          /\ (log' # log \/ syslogOpen' # syslogOpen) => logMx = t

ProtectedWrites == [][ProtectedWrite]_vars
=============================================================================
