--------------------------- MODULE HsmEngineProofs ---------------------------
(***************************************************************************)
(* Payload ownership for the object API together with the ENGINE keypair  *)
(* loader (engine_hsm_obj.c), for every registry, set of HSMs and ENGINE   *)
(* and credential configuration: the loader's three outcomes (load fails, *)
(* stack allocation fails, key pushed on the stack) are added to the       *)
(* object actions whose preservation X509ObjectProofs proves.              *)
(***************************************************************************)
EXTENDS HsmEngine, X509ObjectProofs

USE RegistryAssumption, EngineAssumption DEF Tables

(* The inductive invariant of the composed system: the object API's, and  *)
(* the type of the password source.                                        *)
EngineIInv == IInv /\ enginePw \in PwSources

(* The keypair the loader builds: a fresh PKI_X509 holding the loaded key. *)
LEMMA LoadedObjType ==
    ASSUME NEW h \in HSMs, PKI_X509_CALLBACKS_get(Keypair, h) # NoCb,
           NEW k \in Payloads
    PROVE  /\ [NewObj(Keypair, h) EXCEPT !.value = k] \in Obj
           /\ [NewObj(Keypair, h) EXCEPT !.value = k].value = k
           /\ [NewObj(Keypair, h) EXCEPT !.value = k].ref = Null
<1>1. NewObj(Keypair, h) \in Obj
  BY NewObjType
<1>. QED
  BY <1>1 DEF Obj, NewObj

(* HSM_ENGINE_KEYPAIR_get_url preserves ownership on each of its paths.   *)
(* A failed load leaves a new, empty and unreferenced shell (a leak, but   *)
(* it owns no payload); a failed stack allocation frees what it built; a   *)
(* successful load puts a payload no one owned into a shell the caller     *)
(* now holds.                                                              *)
LEMMA LoaderIInv ==
    ASSUME IInv, NEW l \in Locs, NEW c \in BOOLEAN, NEW h \in hsms,
           HSM_ENGINE_KEYPAIR_get_url(l, c, h)
    PROVE  IInv'
<1> USE DEF IInv, TypeOK
<1>1. /\ h \in HSMs /\ PKI_X509_CALLBACKS_get(Keypair, h) # NoCb
      /\ UNCHANGED <<hdls, mine, url, hsms, files>>
  BY DEF HSM_ENGINE_KEYPAIR_get_url
<1>2. PICK x \in FreeShells :
        \/ /\ obj' = [obj EXCEPT ![x] = NewObj(Keypair, h)]
           /\ UNCHANGED <<held, vals>>
        \/ \E k \in FreePayloads :
           \/ UNCHANGED <<obj, held, vals>>
           \/ /\ obj' = [obj EXCEPT ![x] = [NewObj(Keypair, h) EXCEPT !.value = k]]
              /\ held' = held \cup {x}
              /\ vals' = vals \cup {k}
  BY DEF HSM_ENGINE_KEYPAIR_get_url
<1>3. x \in Handles /\ obj[x] = Null
  BY DEF FreeShells, shells
<1>4. CASE /\ obj' = [obj EXCEPT ![x] = NewObj(Keypair, h)]
           /\ UNCHANGED <<held, vals>>
  <2>1. NewObj(Keypair, h) \in Obj
    BY <1>1, NewObjType
  <2>2. /\ shells' = shells \cup {x}
        /\ obj'[x].value = Null /\ obj'[x].ref = Null
        /\ \A y \in shells : obj'[y] = obj[y]
    BY <1>3, <1>4, <2>1 DEF shells, NewObj
  <2>3. TypeOK'
    BY <1>1, <1>3, <1>4, <2>1
  <2>4. HeldAllocated'
    BY <1>4, <2>2 DEF HeldAllocated
  <2>5. ValueOwnership'
    BY <1>1, <1>4, <2>2 DEF ValueOwnership
  <2>6. RefOwnership'
    BY <1>1, <2>2 DEF RefOwnership, refs
  <2>. QED
    BY <2>3, <2>4, <2>5, <2>6
<1>5. CASE UNCHANGED <<obj, held, vals>>
  BY <1>1, <1>5 DEF HeldAllocated, ValueOwnership, RefOwnership, shells, refs
<1>6. ASSUME NEW k \in FreePayloads,
             /\ obj' = [obj EXCEPT ![x] = [NewObj(Keypair, h) EXCEPT !.value = k]]
             /\ held' = held \cup {x}
             /\ vals' = vals \cup {k}
      PROVE  IInv'
  <2>1. k \in Payloads /\ k \notin vals /\ k \notin mine
    BY DEF FreePayloads, ValueOwnership
  <2>2. /\ [NewObj(Keypair, h) EXCEPT !.value = k] \in Obj
        /\ [NewObj(Keypair, h) EXCEPT !.value = k].value = k
        /\ [NewObj(Keypair, h) EXCEPT !.value = k].ref = Null
    BY <1>1, <2>1, LoadedObjType
  <2>3. /\ shells' = shells \cup {x}
        /\ obj'[x].value = k /\ obj'[x].ref = Null
        /\ \A y \in shells : obj'[y] = obj[y]
    <3>1. obj'[x] = [NewObj(Keypair, h) EXCEPT !.value = k]
      BY <1>3, <1>6
    <3>2. obj'[x] # Null /\ obj'[x].value = k /\ obj'[x].ref = Null
      BY <2>2, <3>1
    <3>3. \A y \in Handles \ {x} : obj'[y] = obj[y]
      BY <1>6
    <3>4. shells' = shells \cup {x}
      BY <1>3, <3>2, <3>3 DEF shells
    <3>. QED
      BY <1>3, <3>2, <3>3, <3>4 DEF shells
  <2>4. TypeOK'
    BY <1>1, <1>3, <1>6, <2>1, <2>2
  <2>5. HeldAllocated'
    BY <1>6, <2>3 DEF HeldAllocated
  <2>6. ValueOwnership'
    <3>1. x \notin shells
      BY <1>3 DEF shells
    <3>2. \A y \in shells : obj[y].value \in vals \cup {Null}
      BY DEF ValueOwnership
    <3>. QED
      BY <1>1, <1>6, <2>1, <2>3, <3>1, <3>2 DEF ValueOwnership
  <2>7. RefOwnership'
    BY <1>1, <2>3 DEF RefOwnership, refs
  <2>. QED
    BY <2>4, <2>5, <2>6, <2>7
<1>. QED
  BY <1>2, <1>4, <1>5, <1>6

LEMMA EngineInitIInv == EngineInit => EngineIInv
BY InitIInv DEF EngineInit, EngineIInv, PwSources

LEMMA EngineNextIInv == EngineIInv /\ [EngineNext]_engineVars => EngineIInv'
<1>. SUFFICES ASSUME EngineIInv, [EngineNext]_engineVars PROVE EngineIInv'
  OBVIOUS
<1>1. IInv
  BY DEF EngineIInv
<1>2. CASE Next /\ UNCHANGED enginePw
  BY <1>1, <1>2, NextIInv DEF EngineIInv
<1>3. ASSUME NEW l \in Locs, NEW c \in BOOLEAN, NEW h \in hsms,
             HSM_ENGINE_KEYPAIR_get_url(l, c, h)
      PROVE  EngineIInv'
  <2>1. IInv'
    BY <1>1, <1>3, LoaderIInv
  <2>2. enginePw' \in PwSources
    <3>1. h \in HSMs
      BY <1>1 DEF IInv, TypeOK
    <3>. QED
      BY <1>3, <3>1 DEF HSM_ENGINE_KEYPAIR_get_url, PasswordSource, PwSources
  <2>. QED
    BY <2>1, <2>2 DEF EngineIInv
<1>4. CASE UNCHANGED engineVars
  <2>1. UNCHANGED vars /\ UNCHANGED enginePw
    BY <1>4 DEF engineVars
  <2>2. IInv'
    BY <1>1, <2>1, NextIInv
  <2>3. enginePw' \in PwSources
    BY <2>1 DEF EngineIInv
  <2>. QED
    BY <2>2, <2>3 DEF EngineIInv
<1>. QED
  BY <1>2, <1>3, <1>4 DEF EngineNext

LEMMA EngineIInvInvariant == EngineSpec => []EngineIInv
BY EngineInitIInv, EngineNextIInv, PTL DEF EngineSpec

(* Whatever mix of object-API calls and ENGINE keypair loads the program   *)
(* makes, with any registry, ENGINE and credential configuration, every    *)
(* live payload has exactly one owner: the loaded key goes to the new      *)
(* object alone, and the shell a failed load leaks owns nothing.           *)
THEOREM EngineValueOwnership == EngineSpec => []ValueOwnership
<1>1. EngineIInv => ValueOwnership
  BY DEF EngineIInv, IInv
<1>. QED
  BY <1>1, EngineIInvInvariant, PTL

(* The ENGINE loader never touches URL blocks, so with it in the mix       *)
(* every live URL is still the reference of exactly one live object.       *)
THEOREM EngineRefOwnership == EngineSpec => []RefOwnership
<1>1. EngineIInv => RefOwnership
  BY DEF EngineIInv, IInv
<1>. QED
  BY <1>1, EngineIInvInvariant, PTL

====
