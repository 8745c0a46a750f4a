----------------------------- MODULE X509Object -----------------------------
(***************************************************************************)
(* The generic PKI_X509 object of libpki (src/src/pki_x509.c): a shell     *)
(* holding a data type, the callback table (driver) found for that type   *)
(* in an HSM, the HSM itself, an opaque payload ("value") owned by the     *)
(* object and an owned origin URL ("ref").                                 *)
(*                                                                         *)
(* Memory is modelled as sets of live blocks: object shells, payloads,     *)
(* the HSM-handle blocks hanging off RSA keypair payloads, URL blocks and  *)
(* HSM structures.  An address that is not live may be handed out again    *)
(* by the allocator, as malloc does.  The caller is the environment: it    *)
(* holds the object handles returned to it and the payloads it owns, and   *)
(* calls the API in any order on live objects only.                        *)
(***************************************************************************)
EXTENDS FiniteSets

CONSTANTS
    Types,          \* PKI_DATATYPE values
    Keypair,        \* PKI_DATATYPE_X509_KEYPAIR
    HSMs,           \* HSM structures
    DefaultHsm,     \* the static HSM returned by HSM_get_default()
    HsmHasCallbacks,\* hsm->callbacks != NULL, per HSM
    Registry,       \* hsm->callbacks->x509_get_cb(type), per (type, hsm)
    Handles,        \* addresses of PKI_X509 shells
    Payloads,       \* addresses of crypto-library values
    Refs,           \* addresses of URL structures
    Locs,           \* locations a URL can name
    FileLocs,       \* locations whose scheme is URI_PROTO_FILE
    Null,           \* the NULL pointer
    NoCb            \* a failed callback lookup

(* A callback table: whether it has a 'free' and a 'dup' entry. *)
Tables == [free : BOOLEAN, dup : BOOLEAN]

(* A live PKI_X509 structure; a freed shell is zeroed (PKI_ZFree). *)
Obj == [type : Types, cb : Tables, hsm : HSMs,
        value : Payloads \cup {Null}, ref : Refs \cup {Null}]

ASSUME RegistryAssumption ==
    /\ Keypair \in Types
    /\ DefaultHsm \in HSMs
    /\ FileLocs \subseteq Locs
    /\ HsmHasCallbacks \in [HSMs -> BOOLEAN]
    /\ Registry \in [Types \X HSMs -> Tables \cup {NoCb}]
    /\ \A t \in Types, h \in HSMs : ~HsmHasCallbacks[h] => Registry[<<t, h>>] = NoCb
    /\ Null \notin Payloads \cup Refs \cup Locs
    /\ NoCb \notin Tables
    /\ Null \notin Obj \cup HSMs

VARIABLES
    obj,    \* obj[x]: the PKI_X509 at address x, or Null when x is not allocated
    held,   \* the object handles the caller holds
    vals,   \* live payload blocks
    hdls,   \* payloads whose RSA ex_data HSM handle blocks are allocated
    mine,   \* payloads owned by the caller, not by any object
    url,    \* url[r]: the location of the live URL block r, or Null
    hsms,   \* live HSM structures
    files   \* persisted copies that exist

vars == <<obj, held, vals, hdls, mine, url, hsms, files>>

shells == {x \in Handles : obj[x] # Null}
refs   == {r \in Refs : url[r] # Null}

TypeOK ==
    /\ obj \in [Handles -> Obj \cup {Null}]
    /\ held \subseteq Handles
    /\ vals \subseteq Payloads
    /\ hdls \subseteq Payloads
    /\ mine \subseteq Payloads
    /\ url \in [Refs -> Locs \cup {Null}]
    /\ hsms \subseteq HSMs
    /\ files \subseteq Locs

Init ==
    /\ obj = [x \in Handles |-> Null]
    /\ held = {}
    /\ vals = {}
    /\ hdls = {}
    /\ mine = {}
    /\ url = [r \in Refs |-> Null]
    /\ hsms = HSMs
    /\ files = Locs

-----------------------------------------------------------------------------
(* Helpers. *)

(* "if (!hsm) hsm = HSM_get_default()" *)
EffectiveHsm(h) == IF h = Null THEN DefaultHsm ELSE h

(* PKI_X509_CALLBACKS_get: NoCb when the HSM has no callbacks or no table. *)
PKI_X509_CALLBACKS_get(t, h) == Registry[<<t, EffectiveHsm(h)>>]

(* A fresh PKI_X509 as PKI_X509_new fills it in. *)
NewObj(t, h) == [type |-> t, cb |-> PKI_X509_CALLBACKS_get(t, h),
                 hsm |-> EffectiveHsm(h), value |-> Null, ref |-> Null]

(* Addresses the allocator may return. *)
FreeShells   == Handles \ shells
FreePayloads == Payloads \ (vals \cup hdls)
FreeRefs     == Refs \ refs

(* The HSM handle blocks left after x's value is released the way          *)
(* PKI_X509_free releases it: only a keypair released through cb->free     *)
(* gets its private/public key handles freed first.                        *)
HandlesAfterFree(x) ==
    IF obj[x].value # Null /\ obj[x].cb.free /\ obj[x].type = Keypair
    THEN hdls \ {obj[x].value}
    ELSE hdls

-----------------------------------------------------------------------------
(* The caller obtains a payload from elsewhere (a decoder, a key           *)
(* generator, a PKCS#11 driver which may attach key handles to an RSA      *)
(* key).                                                                   *)
CallerMakesValue(v, withHandles) ==
    /\ v \in FreePayloads
    /\ vals' = vals \cup {v}
    /\ mine' = mine \cup {v}
    /\ hdls' = IF withHandles THEN hdls \cup {v} ELSE hdls
    /\ UNCHANGED <<obj, held, url, hsms, files>>

(* The caller releases a payload it owns, with whatever it attached.      *)
CallerFreesValue(v) ==
    /\ v \in mine
    /\ vals' = vals \ {v}
    /\ hdls' = hdls \ {v}
    /\ mine' = mine \ {v}
    /\ UNCHANGED <<obj, held, url, hsms, files>>

(* Faulty variant: PKI_X509_new without its "cb == NULL" failure. *)
PKI_X509_new_NoCbCheck(t, h) ==
    /\ \E x \in FreeShells :
        /\ obj' = [obj EXCEPT ![x] = NewObj(t, h)]
        /\ held' = held \cup {x}
    /\ UNCHANGED <<vals, hdls, mine, url, hsms, files>>

(* PKI_X509_new(type, hsm): fails when no callbacks are found. *)
PKI_X509_new(t, h) ==
    /\ PKI_X509_CALLBACKS_get(t, h) # NoCb
    /\ \E x \in FreeShells :
        /\ obj' = [obj EXCEPT ![x] = NewObj(t, h)]
        /\ held' = held \cup {x}
    /\ UNCHANGED <<vals, hdls, mine, url, hsms, files>>

(* PKI_X509_free(x): value via cb->free (keypair handles first) or         *)
(* PKI_Free, then the URL, then the zeroed shell.                          *)
PKI_X509_free(x) ==
    /\ x \in held
    /\ vals' = vals \ {obj[x].value}
    /\ hdls' = HandlesAfterFree(x)
    /\ url' = [r \in Refs |-> IF r = obj[x].ref THEN Null ELSE url[r]]
    /\ obj' = [obj EXCEPT ![x] = Null]
    /\ held' = held \ {x}
    /\ UNCHANGED <<mine, hsms, files>>

(* PKI_X509_new_value(type, value, hsm): PKI_X509_new then                 *)
(* PKI_X509_set_value on an empty object, which cannot fail.               *)
PKI_X509_new_value(t, v, h) ==
    /\ v \in mine
    /\ v \in hdls => t = Keypair
    /\ PKI_X509_CALLBACKS_get(t, h) # NoCb
    /\ \E x \in FreeShells :
        /\ obj' = [obj EXCEPT ![x] = [NewObj(t, h) EXCEPT !.value = v]]
        /\ held' = held \cup {x}
    /\ mine' = mine \ {v}
    /\ UNCHANGED <<vals, hdls, url, hsms, files>>

(* PKI_X509_new_dup_value(type, value, hsm): the caller keeps value; the   *)
(* object gets cb->dup(value), which may return NULL; without a 'dup'      *)
(* entry the new shell is freed again and NULL returned.                   *)
PKI_X509_new_dup_value(t, v, h) ==
    /\ v \in mine
    /\ PKI_X509_CALLBACKS_get(t, h) # NoCb
    /\ PKI_X509_CALLBACKS_get(t, h).dup
    /\ \E x \in FreeShells, d \in FreePayloads \cup {Null} :
        /\ obj' = [obj EXCEPT ![x] = [NewObj(t, h) EXCEPT !.value = d]]
        /\ held' = held \cup {x}
        /\ vals' = vals \cup ({d} \ {Null})
    /\ UNCHANGED <<hdls, mine, url, hsms, files>>

(* Faulty variant: set_value overwrites x->value without releasing it. *)
PKI_X509_set_value_KeepsOld(x, v) ==
    /\ x \in held
    /\ v \in mine
    /\ v \in hdls => obj[x].type = Keypair
    /\ obj[x].value # Null => obj[x].cb.free
    /\ obj' = [obj EXCEPT ![x].value = v]
    /\ mine' = mine \ {v}
    /\ UNCHANGED <<held, vals, hdls, url, hsms, files>>

(* PKI_X509_set_value(x, data): with a value present, fails without a      *)
(* 'free' entry; otherwise releases the old value through cb->free (no     *)
(* keypair handle cleanup here) and stores data.                           *)
PKI_X509_set_value(x, v) ==
    /\ x \in held
    /\ v \in mine
    /\ v \in hdls => obj[x].type = Keypair
    /\ obj[x].value # Null => obj[x].cb.free
    /\ vals' = vals \ {obj[x].value}
    /\ obj' = [obj EXCEPT ![x].value = v]
    /\ mine' = mine \ {v}
    /\ UNCHANGED <<held, hdls, url, hsms, files>>

(* PKI_X509_dup_value(x): a copy of x's value for the caller, or NULL.     *)
PKI_X509_dup_value(x) ==
    /\ x \in held
    /\ obj[x].cb.dup
    /\ obj[x].value # Null
    /\ \E d \in FreePayloads :
        /\ vals' = vals \cup {d}
        /\ mine' = mine \cup {d}
    /\ UNCHANGED <<obj, held, hdls, url, hsms, files>>

(* Faulty variant: PKI_X509_dup keeps the memcpy'd ref of the original. *)
PKI_X509_dup_SharesRef(x) ==
    /\ x \in held
    /\ obj[x].value # Null => obj[x].cb.dup
    /\ \E y \in FreeShells, d \in FreePayloads :
        /\ obj' = [obj EXCEPT ![y] = [obj[x] EXCEPT
                        !.value = IF obj[x].value = Null THEN Null ELSE d]]
        /\ held' = held \cup {y}
        /\ vals' = IF obj[x].value = Null THEN vals ELSE vals \cup {d}
    /\ UNCHANGED <<hdls, mine, url, hsms, files>>

(* Faulty variant: the copy keeps the original's payload and the original *)
(* gets the duplicate.                                                     *)
PKI_X509_dup_SwapsValue(x) ==
    /\ x \in held
    /\ obj[x].value # Null => obj[x].cb.dup
    /\ \E y \in FreeShells, d \in FreePayloads :
        /\ obj' = [obj EXCEPT ![y] = [obj[x] EXCEPT !.ref = Null],
                              ![x].value = IF obj[x].value = Null THEN Null ELSE d]
        /\ held' = held \cup {y}
        /\ vals' = IF obj[x].value = Null THEN vals ELSE vals \cup {d}
    /\ UNCHANGED <<hdls, mine, url, hsms, files>>

(* PKI_X509_dup(x): memcpy of the shell, the value duplicated through      *)
(* PKI_X509_dup_value (a NULL copy frees the new shell and fails), the     *)
(* reference reset to NULL, hsm and cb shared.                             *)
PKI_X509_dup(x) ==
    /\ x \in held
    /\ obj[x].value # Null => obj[x].cb.dup
    /\ \E y \in FreeShells, d \in FreePayloads :
        /\ obj' = [obj EXCEPT ![y] = [obj[x] EXCEPT !.ref = Null,
                        !.value = IF obj[x].value = Null THEN Null ELSE d]]
        /\ held' = held \cup {y}
        /\ vals' = IF obj[x].value = Null THEN vals ELSE vals \cup {d}
    /\ UNCHANGED <<hdls, mine, url, hsms, files>>

(* HSM_free(hsm): the static default HSM is never released.                *)
HsmsAfterFree(h) == IF h = DefaultHsm THEN hsms ELSE hsms \ {h}

(* PKI_X509_set_hsm(x, hsm): "if (hsm) HSM_free(hsm); x->hsm = hsm;"       *)
PKI_X509_set_hsm(x, h) ==
    /\ x \in held
    /\ h \in hsms
    /\ hsms' = HsmsAfterFree(h)
    /\ obj' = [obj EXCEPT ![x].hsm = h]
    /\ UNCHANGED <<held, vals, hdls, mine, url, files>>

(* PKI_X509_set_reference(x, url): frees the old URL and stores            *)
(* URL_new(url->url_s), which may be NULL.                                 *)
PKI_X509_set_reference(x, l) ==
    /\ x \in held
    /\ \E r \in FreeRefs \cup ({obj[x].ref} \ {Null}) \cup {Null} :
        /\ url' = [s \in Refs |-> IF s = r THEN l
                                  ELSE IF s = obj[x].ref THEN Null
                                  ELSE url[s]]
        /\ obj' = [obj EXCEPT ![x].ref = r]
    /\ UNCHANGED <<held, vals, hdls, mine, hsms, files>>

(* PKI_X509_delete(x): without a reference, fails.  With hsm->callbacks    *)
(* the object goes to HSM_X509_STACK_del, which may or may not remove the  *)
(* persisted copy; otherwise a file URL is unlinked and any other scheme   *)
(* fails.  Reading callbacks of a released HSM may see anything.           *)
PKI_X509_delete(x) ==
    /\ x \in held
    /\ obj[x].ref # Null
    /\ LET l == url[obj[x].ref]
           h == obj[x].hsm
       IN \E cbs \in IF h \in hsms THEN {HsmHasCallbacks[h]} ELSE BOOLEAN :
            IF cbs
            THEN files' \in {files, files \ {l}}
            ELSE files' = IF l \in FileLocs THEN files \ {l} ELSE files
    /\ UNCHANGED <<obj, held, vals, hdls, mine, url, hsms>>

-----------------------------------------------------------------------------
(* The caller issues any call on the objects and payloads it holds. *)
Next ==
    \/ \E v \in Payloads, b \in BOOLEAN : CallerMakesValue(v, b)
    \/ \E v \in Payloads : CallerFreesValue(v)
    \/ \E t \in Types, h \in hsms \cup {Null} :
         \/ PKI_X509_new(t, h)
         \/ \E v \in Payloads : PKI_X509_new_value(t, v, h)
         \/ \E v \in Payloads : PKI_X509_new_dup_value(t, v, h)
    \/ \E x \in Handles :
         \/ PKI_X509_free(x)
         \/ \E v \in Payloads : PKI_X509_set_value(x, v)
         \/ PKI_X509_dup_value(x)
         \/ PKI_X509_dup(x)
         \/ \E h \in HSMs : PKI_X509_set_hsm(x, h)
         \/ \E l \in Locs : PKI_X509_set_reference(x, l)
         \/ PKI_X509_delete(x)

Spec == Init /\ [][Next]_vars

-----------------------------------------------------------------------------
(* Properties. *)

(* Payload ownership (the "single ownership transfer" of set_value and the *)
(* "value owned exclusively by this object" of the data model): a payload *)
(* is live exactly when one owner holds it, the caller or one live object; *)
(* no object points at a released payload.  Broken by a dup that shares    *)
(* the value, a set_value or free that forgets the old value, or a         *)
(* new_dup_value that stores the caller's pointer.                         *)
ValueOwnership ==
    /\ mine \subseteq vals
    /\ \A x \in shells : obj[x].value \in (vals \ mine) \cup {Null}
    /\ \A x, y \in shells :
          x # y /\ obj[x].value # Null => obj[x].value # obj[y].value
    /\ vals \subseteq mine \cup {obj[x].value : x \in shells}

(* URL ownership: every live URL block is the reference of exactly one    *)
(* live object, and no object refers to a released URL.  PKI_X509_dup      *)
(* memcpy's the shell and must reset the copy's ref, and set_reference     *)
(* must release the URL it replaces.                                       *)
RefOwnership ==
    /\ \A x \in shells : obj[x].ref \in refs \cup {Null}
    /\ \A x, y \in shells :
          x # y /\ obj[x].ref # Null => obj[x].ref # obj[y].ref
    /\ refs \subseteq {obj[x].ref : x \in shells}

(* The HSM key handles attached to an RSA keypair are released no later    *)
(* than the key itself (PKI_X509_free's keypair teardown).                 *)
NoHandleLeak == hdls \subseteq vals

-----------------------------------------------------------------------------
(* The object layer seen as spec.md's lifecycle: the live shells are the   *)
(* objects, each shell's value pointer is its payload, and the payloads    *)
(* the caller holds are its own.                                           *)
Lifecycle == INSTANCE ObjectLifecycle WITH
    Objects <- Handles, None <- Null, live <- shells,
    value <- [x \in Handles |-> IF obj[x] = Null THEN Null ELSE obj[x].value],
    callerOwns <- mine

(* PKI_X509_new, _new_value, _new_dup_value, _set_value, _dup_value,       *)
(* _dup and _free implement the lifecycle of spec.md: every call is one    *)
(* lifecycle step or none; payloads move into an object only from the      *)
(* caller or as fresh copies, never out of one except by release, and a    *)
(* copy handed out is never a payload somebody owns.                       *)
ImplementsLifecycle == Lifecycle!LifecycleSpec

=============================================================================
