----------------------------- MODULE HsmEngine -----------------------------
(***************************************************************************)
(* The ENGINE HSM keypair loader (src/src/drivers/engine/engine_hsm_obj.c) *)
(* composed with the generic object of X509Object: it builds a PKI_X509    *)
(* keypair with PKI_X509_new, fills its value from ENGINE_load_private_key *)
(* and hands it back inside a one-element stack.                           *)
(***************************************************************************)
EXTENDS X509Object

CONSTANTS
    HsmDriver,  \* hsm->driver != NULL (an ENGINE is attached), per HSM
    HsmCred     \* hsm->cred != NULL, per HSM

ASSUME EngineAssumption ==
    /\ HsmDriver \in [HSMs -> BOOLEAN]
    /\ HsmCred \in [HSMs -> BOOLEAN]

(* Where the password in the PW_CB_DATA given to the engine came from. *)
PwSources == {"none", "cred", "hsm_cred", "uninitialized"}

VARIABLE
    enginePw    \* the password source of the last ENGINE_load_private_key

engineVars == <<vars, enginePw>>

EngineInit == Init /\ enginePw = "none"

EngineTypeOK == TypeOK /\ enginePw \in PwSources

(* "if (cred) ... else if (hsm->cred) ..." with no else: cb_data is a      *)
(* stack variable, so with neither the password field is left unset.       *)
PasswordSource(credGiven, h) ==
    IF credGiven THEN "cred"
    ELSE IF HsmCred[h] THEN "hsm_cred"
    ELSE "uninitialized"

(* Faulty variant: the stack-failure path releases the shell with        *)
(* PKI_Free instead of PKI_X509_KEYPAIR_free, so the loaded key stays.    *)
LoaderFreesShellOnly(l, credGiven, h) ==
    /\ HsmDriver[h]
    /\ PKI_X509_CALLBACKS_get(Keypair, h) # NoCb
    /\ enginePw' = PasswordSource(credGiven, h)
    /\ \E x \in FreeShells :
        \/ /\ obj' = [obj EXCEPT ![x] = NewObj(Keypair, h)]
           /\ UNCHANGED <<held, vals>>
        \/ \E k \in FreePayloads :
           \/ /\ vals' = vals \cup {k}
              /\ UNCHANGED <<obj, held>>
           \/ /\ obj' = [obj EXCEPT ![x] = [NewObj(Keypair, h) EXCEPT !.value = k]]
              /\ held' = held \cup {x}
              /\ vals' = vals \cup {k}
    /\ UNCHANGED <<hdls, mine, url, hsms, files>>

(* HSM_ENGINE_KEYPAIR_get_url(url, cred, hsm), reached through             *)
(* HSM_ENGINE_OBJSK_get_url(PKI_DATATYPE_X509_KEYPAIR, ...) with a         *)
(* non-NULL url.  Fails without an ENGINE and when PKI_X509_new fails.     *)
(* A failed key load returns NULL without freeing the new object; a        *)
(* failed stack allocation frees it.                                       *)
HSM_ENGINE_KEYPAIR_get_url(l, credGiven, h) ==
    /\ HsmDriver[h]
    /\ PKI_X509_CALLBACKS_get(Keypair, h) # NoCb
    /\ enginePw' = PasswordSource(credGiven, h)
    /\ \E x \in FreeShells :
        \/ \* ENGINE_load_private_key fails: the shell stays allocated
           /\ obj' = [obj EXCEPT ![x] = NewObj(Keypair, h)]
           /\ UNCHANGED <<held, vals>>
        \/ \E k \in FreePayloads :
           \/ \* PKI_STACK_X509_KEYPAIR_new fails: PKI_X509_KEYPAIR_free(ret)
              UNCHANGED <<obj, held, vals>>
           \/ \* pushed on the returned stack
              /\ obj' = [obj EXCEPT ![x] = [NewObj(Keypair, h) EXCEPT !.value = k]]
              /\ held' = held \cup {x}
              /\ vals' = vals \cup {k}
    /\ UNCHANGED <<hdls, mine, url, hsms, files>>

EngineNext ==
    \/ Next /\ UNCHANGED enginePw
    \/ \E l \in Locs, c \in BOOLEAN, h \in hsms : HSM_ENGINE_KEYPAIR_get_url(l, c, h)

EngineSpec == EngineInit /\ [][EngineNext]_engineVars

=============================================================================
