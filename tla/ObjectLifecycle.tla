--------------------------- MODULE ObjectLifecycle ---------------------------
(***************************************************************************)
(* What spec.md (sections 3 and 4.1) promises about generic objects and    *)
(* their payloads, with no driver tables, HSMs or heap: an object is       *)
(* created, possibly populated, and destroyed exactly once; a payload has  *)
(* one owner at a time, the caller or one live object; the only ways a     *)
(* payload enters an object are a transfer from the caller (set_value,     *)
(* new_value) or a fresh copy (duplication); an object's payload leaves it *)
(* only by being released (overwrite or destruction); a copy handed to the *)
(* caller is fresh.  X509Object is shown to implement this specification. *)
(***************************************************************************)
CONSTANTS
    Objects,    \* object identities
    Payloads,   \* payloads
    None        \* "no payload", not a member of Payloads

VARIABLES
    live,       \* the objects that exist
    value,      \* value[x]: the payload object x owns, or None
    callerOwns  \* the payloads the caller owns

lifecycleVars == <<live, value, callerOwns>>

(* The payloads somebody owns. *)
Owned == callerOwns \cup ({value[x] : x \in live} \ {None})

(* A payload nobody owns: what an allocation or a copy may return. *)
Fresh(v) == v \in Payloads \ Owned

LifecycleTypeOK ==
    /\ live \subseteq Objects
    /\ value \in [Objects -> Payloads \cup {None}]
    /\ callerOwns \subseteq Payloads

LifecycleInit ==
    /\ live = {}
    /\ value = [x \in Objects |-> None]
    /\ callerOwns = {}

(* The caller obtains a payload from outside the object layer. *)
Acquire(v) ==
    /\ Fresh(v)
    /\ callerOwns' = callerOwns \cup {v}
    /\ UNCHANGED <<live, value>>

(* The caller releases a payload of its own. *)
Release(v) ==
    /\ v \in callerOwns
    /\ callerOwns' = callerOwns \ {v}
    /\ UNCHANGED <<live, value>>

(* create, new_value, new_dup_value, duplicate: a new object, empty, or   *)
(* holding a payload the caller transfers, or a fresh copy.                *)
Create(x, v) ==
    /\ x \in Objects \ live
    /\ v = None \/ Fresh(v) \/ v \in callerOwns
    /\ live' = live \cup {x}
    /\ value' = [value EXCEPT ![x] = v]
    /\ callerOwns' = callerOwns \ {v}

(* set_value: the caller's payload moves into x; x's old one is released. *)
Store(x, v) ==
    /\ x \in live
    /\ v \in callerOwns
    /\ value' = [value EXCEPT ![x] = v]
    /\ callerOwns' = callerOwns \ {v}
    /\ UNCHANGED live

(* dup_value: a fresh copy of x's payload, owned by the caller. *)
Copy(x, v) ==
    /\ x \in live
    /\ value[x] # None
    /\ Fresh(v)
    /\ callerOwns' = callerOwns \cup {v}
    /\ UNCHANGED <<live, value>>

(* free: x and its payload are released. *)
Destroy(x) ==
    /\ x \in live
    /\ live' = live \ {x}
    /\ value' = [value EXCEPT ![x] = None]
    /\ UNCHANGED callerOwns

LifecycleNext ==
    \/ \E v \in Payloads : Acquire(v) \/ Release(v)
    \/ \E x \in Objects :
         \/ \E v \in Payloads \cup {None} : Create(x, v)
         \/ \E v \in Payloads : Store(x, v) \/ Copy(x, v)
         \/ Destroy(x)

LifecycleSpec == LifecycleInit /\ [][LifecycleNext]_lifecycleVars
=============================================================================
