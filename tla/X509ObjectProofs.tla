-------------------------- MODULE X509ObjectProofs --------------------------
(***************************************************************************)
(* Proofs about the generic PKI_X509 object model, for every instance of  *)
(* the constants that satisfies RegistryAssumption.                        *)
(***************************************************************************)
EXTENDS X509Object, TLAPS

USE RegistryAssumption DEF Tables

(* Every handle the caller holds is an allocated shell. *)
HeldAllocated == held \subseteq shells

(* The inductive strengthening of the ownership properties. *)
IInv == TypeOK /\ HeldAllocated /\ ValueOwnership /\ RefOwnership

-----------------------------------------------------------------------------
(* A fresh object as PKI_X509_new builds it is a well-typed PKI_X509. *)
LEMMA NewObjType ==
    ASSUME NEW t \in Types, NEW h \in HSMs \cup {Null},
           PKI_X509_CALLBACKS_get(t, h) # NoCb
    PROVE  NewObj(t, h) \in Obj
BY DEF NewObj, Obj, PKI_X509_CALLBACKS_get, EffectiveHsm

LEMMA InitIInv == Init => IInv
BY DEF Init, IInv, TypeOK, HeldAllocated, ValueOwnership, RefOwnership,
       shells, refs

-----------------------------------------------------------------------------
(* One lemma per action: each preserves IInv. *)

LEMMA CallerMakesValueIInv ==
    ASSUME IInv, NEW v \in Payloads, NEW b \in BOOLEAN, CallerMakesValue(v, b)
    PROVE  IInv'
BY DEF IInv, TypeOK, HeldAllocated, ValueOwnership, RefOwnership, shells, refs,
       CallerMakesValue, FreePayloads

LEMMA CallerFreesValueIInv ==
    ASSUME IInv, NEW v \in Payloads, CallerFreesValue(v)
    PROVE  IInv'
BY DEF IInv, TypeOK, HeldAllocated, ValueOwnership, RefOwnership, shells, refs,
       CallerFreesValue

LEMMA NewIInv ==
    ASSUME IInv, NEW t \in Types, NEW h \in hsms \cup {Null}, PKI_X509_new(t, h)
    PROVE  IInv'
<1> USE DEF IInv, TypeOK
<1>1. PICK x \in FreeShells :
        /\ obj' = [obj EXCEPT ![x] = NewObj(t, h)]
        /\ held' = held \cup {x}
  BY DEF PKI_X509_new
<1>2. NewObj(t, h) \in Obj
  BY NewObjType DEF PKI_X509_new
<1>3. /\ shells' = shells \cup {x}
      /\ obj'[x].value = Null /\ obj'[x].ref = Null
      /\ \A y \in shells : obj'[y] = obj[y]
  BY <1>1, <1>2 DEF shells, FreeShells, NewObj
<1>4. UNCHANGED <<vals, hdls, mine, url, hsms, files>>
  BY DEF PKI_X509_new
<1>5. TypeOK'
  BY <1>1, <1>2, <1>4 DEF FreeShells
<1>6. HeldAllocated'
  BY <1>1, <1>3 DEF HeldAllocated
<1>7. ValueOwnership'
  BY <1>3, <1>4 DEF ValueOwnership
<1>8. RefOwnership'
  BY <1>3, <1>4 DEF RefOwnership, refs
<1>9. QED
  BY <1>5, <1>6, <1>7, <1>8

LEMMA FreeIInv ==
    ASSUME IInv, NEW x \in Handles, PKI_X509_free(x)
    PROVE  IInv'
<1> USE DEF IInv, TypeOK
<1>1. x \in shells /\ obj[x] \in Obj
  BY DEF PKI_X509_free, HeldAllocated, shells
<1>2. /\ shells' = shells \ {x}
      /\ \A y \in shells' : obj'[y] = obj[y]
      /\ refs' = refs \ {obj[x].ref}
  BY <1>1 DEF PKI_X509_free, shells, refs
<1>3. TypeOK'
  BY <1>1 DEF PKI_X509_free, HandlesAfterFree
<1>4. HeldAllocated'
  BY <1>2 DEF PKI_X509_free, HeldAllocated
<1>5. ValueOwnership'
  BY <1>1, <1>2 DEF PKI_X509_free, ValueOwnership, shells
<1>6. RefOwnership'
  BY <1>1, <1>2 DEF PKI_X509_free, RefOwnership, shells
<1>7. QED
  BY <1>3, <1>4, <1>5, <1>6

LEMMA NewValueIInv ==
    ASSUME IInv, NEW t \in Types, NEW h \in hsms \cup {Null},
           NEW v \in Payloads, PKI_X509_new_value(t, v, h)
    PROVE  IInv'
<1> USE DEF IInv, TypeOK
<1>1. PICK x \in FreeShells :
        /\ obj' = [obj EXCEPT ![x] = [NewObj(t, h) EXCEPT !.value = v]]
        /\ held' = held \cup {x}
  BY DEF PKI_X509_new_value
<1>2. NewObj(t, h) \in Obj
  BY NewObjType DEF PKI_X509_new_value
<1>3. /\ shells' = shells \cup {x}
      /\ obj'[x].value = v /\ obj'[x].ref = Null
      /\ \A y \in shells : obj'[y] = obj[y]
  BY <1>1, <1>2 DEF shells, FreeShells, NewObj, Obj
<1>4. /\ v \in mine /\ mine' = mine \ {v}
      /\ UNCHANGED <<vals, hdls, url, hsms, files>>
  BY DEF PKI_X509_new_value
<1>5. TypeOK'
  BY <1>1, <1>2, <1>4 DEF FreeShells, Obj
<1>6. HeldAllocated'
  BY <1>1, <1>3 DEF HeldAllocated
<1>7. ValueOwnership'
  BY <1>3, <1>4 DEF ValueOwnership
<1>8. RefOwnership'
  BY <1>3, <1>4 DEF RefOwnership, refs
<1>9. QED
  BY <1>5, <1>6, <1>7, <1>8

LEMMA NewDupValueIInv ==
    ASSUME IInv, NEW t \in Types, NEW h \in hsms \cup {Null},
           NEW v \in Payloads, PKI_X509_new_dup_value(t, v, h)
    PROVE  IInv'
<1> USE DEF IInv, TypeOK
<1>1. PICK x \in FreeShells, d \in FreePayloads \cup {Null} :
        /\ obj' = [obj EXCEPT ![x] = [NewObj(t, h) EXCEPT !.value = d]]
        /\ held' = held \cup {x}
        /\ vals' = vals \cup ({d} \ {Null})
  BY DEF PKI_X509_new_dup_value
<1>2. NewObj(t, h) \in Obj
  BY NewObjType DEF PKI_X509_new_dup_value
<1>3. /\ shells' = shells \cup {x}
      /\ obj'[x].value = d /\ obj'[x].ref = Null
      /\ \A y \in shells : obj'[y] = obj[y]
  BY <1>1, <1>2 DEF shells, FreeShells, FreePayloads, NewObj, Obj
<1>4. UNCHANGED <<hdls, mine, url, hsms, files>>
  BY DEF PKI_X509_new_dup_value
<1>5. d # Null => d \notin vals
  BY DEF FreePayloads
<1>6. TypeOK'
  BY <1>1, <1>2, <1>4 DEF FreeShells, FreePayloads, Obj
<1>7. HeldAllocated'
  BY <1>1, <1>3 DEF HeldAllocated
<1>8. ValueOwnership'
  <2>1. (mine \subseteq vals)'
    BY <1>1, <1>4 DEF ValueOwnership
  <2>2. (\A z \in shells : obj[z].value \in (vals \ mine) \cup {Null})'
    BY <1>1, <1>3, <1>4, <1>5 DEF ValueOwnership
  <2>3. (\A z, w \in shells :
          z # w /\ obj[z].value # Null => obj[z].value # obj[w].value)'
    BY <1>1, <1>3, <1>5 DEF ValueOwnership, FreeShells
  <2>4. (vals \subseteq mine \cup {obj[z].value : z \in shells})'
    <3> SUFFICES ASSUME NEW p \in vals', p \notin mine'
                 PROVE  \E z \in shells' : obj'[z].value = p
      OBVIOUS
    <3>1. CASE p \in vals
      <4>1. PICK z \in shells : obj[z].value = p
        BY <3>1, <1>4 DEF ValueOwnership
      <4>2. QED
        BY <4>1, <1>3
    <3>2. CASE p \notin vals
      BY <3>2, <1>1, <1>3
    <3>3. QED
      BY <3>1, <3>2
  <2>5. QED
    BY <2>1, <2>2, <2>3, <2>4 DEF ValueOwnership
<1>9. RefOwnership'
  BY <1>3, <1>4 DEF RefOwnership, refs
<1>10. QED
  BY <1>6, <1>7, <1>8, <1>9

LEMMA SetValueIInv ==
    ASSUME IInv, NEW x \in Handles, NEW v \in Payloads, PKI_X509_set_value(x, v)
    PROVE  IInv'
<1> USE DEF IInv, TypeOK
<1>1. x \in shells /\ obj[x] \in Obj /\ v \in mine
  BY DEF PKI_X509_set_value, HeldAllocated, shells
<1>2. /\ shells' = shells
      /\ obj'[x].value = v /\ obj'[x].ref = obj[x].ref
      /\ \A y \in shells \ {x} : obj'[y] = obj[y]
      /\ obj' \in [Handles -> Obj \cup {Null}]
  BY <1>1 DEF PKI_X509_set_value, shells, Obj
<1>3. /\ vals' = vals \ {obj[x].value}
      /\ mine' = mine \ {v}
      /\ UNCHANGED <<held, hdls, url, hsms, files>>
  BY DEF PKI_X509_set_value
<1>4. TypeOK'
  BY <1>2, <1>3
<1>5. HeldAllocated'
  BY <1>2, <1>3 DEF HeldAllocated
<1>6. ValueOwnership'
  BY <1>1, <1>2, <1>3 DEF ValueOwnership
<1>7. RefOwnership'
  BY <1>2, <1>3 DEF RefOwnership, refs
<1>8. QED
  BY <1>4, <1>5, <1>6, <1>7

LEMMA DupValueIInv ==
    ASSUME IInv, NEW x \in Handles, PKI_X509_dup_value(x)
    PROVE  IInv'
BY DEF IInv, TypeOK, HeldAllocated, ValueOwnership, RefOwnership, shells, refs,
       PKI_X509_dup_value, FreePayloads

LEMMA DupIInv ==
    ASSUME IInv, NEW x \in Handles, PKI_X509_dup(x)
    PROVE  IInv'
<1> USE DEF IInv, TypeOK
<1>1. x \in shells /\ obj[x] \in Obj
  BY DEF PKI_X509_dup, HeldAllocated, shells
<1>2. PICK y \in FreeShells, d \in FreePayloads :
        /\ obj' = [obj EXCEPT ![y] = [obj[x] EXCEPT !.ref = Null,
                        !.value = IF obj[x].value = Null THEN Null ELSE d]]
        /\ held' = held \cup {y}
        /\ vals' = IF obj[x].value = Null THEN vals ELSE vals \cup {d}
  BY DEF PKI_X509_dup
<1>3. /\ obj'[y] \in Obj
      /\ obj'[y].value = (IF obj[x].value = Null THEN Null ELSE d)
      /\ obj'[y].ref = Null
  <2>1. y \in Handles /\ d \in Payloads
    BY DEF FreeShells, FreePayloads
  <2>2. obj'[y] = [obj[x] EXCEPT !.ref = Null,
                        !.value = IF obj[x].value = Null THEN Null ELSE d]
    BY <1>2, <2>1
  <2>3. QED
    BY <1>1, <2>1, <2>2 DEF Obj
<1>11. /\ shells' = shells \cup {y}
       /\ \A z \in shells : obj'[z] = obj[z]
  BY <1>2, <1>3 DEF shells, FreeShells
<1>4. UNCHANGED <<hdls, mine, url, hsms, files>>
  BY DEF PKI_X509_dup
<1>5. d \notin vals
  BY DEF FreePayloads
<1>6. TypeOK'
  BY <1>2, <1>3, <1>4 DEF FreeShells, FreePayloads
<1>7. HeldAllocated'
  BY <1>2, <1>11 DEF HeldAllocated
<1>8. ValueOwnership'
  <2>1. (mine \subseteq vals)'
    BY <1>2, <1>4 DEF ValueOwnership
  <2>2. (\A z \in shells : obj[z].value \in (vals \ mine) \cup {Null})'
    BY <1>2, <1>3, <1>11, <1>4, <1>5 DEF ValueOwnership
  <2>3. (\A z, w \in shells :
          z # w /\ obj[z].value # Null => obj[z].value # obj[w].value)'
    BY <1>2, <1>3, <1>11, <1>5 DEF ValueOwnership, FreeShells
  <2>4. (vals \subseteq mine \cup {obj[z].value : z \in shells})'
    <3> SUFFICES ASSUME NEW p \in vals', p \notin mine'
                 PROVE  \E z \in shells' : obj'[z].value = p
      OBVIOUS
    <3>1. CASE p \in vals
      <4>1. PICK z \in shells : obj[z].value = p
        BY <3>1, <1>4 DEF ValueOwnership
      <4>2. QED
        BY <4>1, <1>11
    <3>2. CASE p \notin vals
      BY <3>2, <1>2, <1>3, <1>11
    <3>3. QED
      BY <3>1, <3>2
  <2>5. QED
    BY <2>1, <2>2, <2>3, <2>4 DEF ValueOwnership
<1>9. RefOwnership'
  BY <1>3, <1>11, <1>4 DEF RefOwnership, refs
<1>10. QED
  BY <1>6, <1>7, <1>8, <1>9

LEMMA SetHsmIInv ==
    ASSUME IInv, NEW x \in Handles, NEW h \in HSMs, PKI_X509_set_hsm(x, h)
    PROVE  IInv'
<1> USE DEF IInv, TypeOK
<1>1. x \in shells /\ obj[x] \in Obj
  BY DEF PKI_X509_set_hsm, HeldAllocated, shells
<1>2. /\ shells' = shells
      /\ obj'[x].value = obj[x].value /\ obj'[x].ref = obj[x].ref
      /\ \A y \in shells \ {x} : obj'[y] = obj[y]
      /\ obj' \in [Handles -> Obj \cup {Null}]
  BY <1>1 DEF PKI_X509_set_hsm, shells, Obj
<1>3. UNCHANGED <<held, vals, hdls, mine, url, files>> /\ hsms' \subseteq HSMs
  BY DEF PKI_X509_set_hsm, HsmsAfterFree
<1>4. QED
  BY <1>2, <1>3 DEF HeldAllocated, ValueOwnership, RefOwnership, refs

LEMMA SetReferenceIInv ==
    ASSUME IInv, NEW x \in Handles, NEW l \in Locs, PKI_X509_set_reference(x, l)
    PROVE  IInv'
<1> USE DEF IInv, TypeOK
<1>1. x \in shells /\ obj[x] \in Obj
  BY DEF PKI_X509_set_reference, HeldAllocated, shells
<1>2. PICK r \in FreeRefs \cup ({obj[x].ref} \ {Null}) \cup {Null} :
        /\ url' = [s \in Refs |-> IF s = r THEN l
                                  ELSE IF s = obj[x].ref THEN Null
                                  ELSE url[s]]
        /\ obj' = [obj EXCEPT ![x].ref = r]
  BY DEF PKI_X509_set_reference
<1>3. /\ shells' = shells
      /\ obj'[x].value = obj[x].value /\ obj'[x].ref = r
      /\ \A y \in shells \ {x} : obj'[y] = obj[y]
      /\ obj' \in [Handles -> Obj \cup {Null}]
  BY <1>1, <1>2 DEF shells, Obj, FreeRefs
<1>4. refs' = (refs \ {obj[x].ref}) \cup ({r} \ {Null})
  BY <1>1, <1>2 DEF refs, FreeRefs, Obj
<1>5. UNCHANGED <<held, vals, hdls, mine, hsms, files>>
  BY DEF PKI_X509_set_reference
<1>6. TypeOK'
  BY <1>2, <1>3, <1>5
<1>7. ValueOwnership'
  BY <1>3, <1>5 DEF ValueOwnership
<1>8. RefOwnership'
  BY <1>1, <1>2, <1>3, <1>4 DEF RefOwnership, FreeRefs
<1>9. QED
  BY <1>3, <1>5, <1>6, <1>7, <1>8 DEF HeldAllocated

LEMMA DeleteIInv ==
    ASSUME IInv, NEW x \in Handles, PKI_X509_delete(x)
    PROVE  IInv'
<1> USE DEF IInv, TypeOK
<1>1. UNCHANGED <<obj, held, vals, hdls, mine, url, hsms>>
  BY DEF PKI_X509_delete
<1>2. files' \subseteq Locs
  BY DEF PKI_X509_delete
<1>3. QED
  BY <1>1, <1>2 DEF HeldAllocated, ValueOwnership, RefOwnership, shells, refs

-----------------------------------------------------------------------------
LEMMA NextIInv == IInv /\ [Next]_vars => IInv'
<1> SUFFICES ASSUME IInv, [Next]_vars PROVE IInv'
  OBVIOUS
<1>1. CASE \E v \in Payloads, b \in BOOLEAN : CallerMakesValue(v, b)
  BY <1>1, CallerMakesValueIInv
<1>2. CASE \E v \in Payloads : CallerFreesValue(v)
  BY <1>2, CallerFreesValueIInv
<1>3. CASE \E t \in Types, h \in hsms \cup {Null} :
             \/ PKI_X509_new(t, h)
             \/ \E v \in Payloads : PKI_X509_new_value(t, v, h)
             \/ \E v \in Payloads : PKI_X509_new_dup_value(t, v, h)
  BY <1>3, NewIInv, NewValueIInv, NewDupValueIInv
<1>4. CASE \E x \in Handles :
             \/ PKI_X509_free(x)
             \/ \E v \in Payloads : PKI_X509_set_value(x, v)
             \/ PKI_X509_dup_value(x)
             \/ PKI_X509_dup(x)
             \/ \E h \in HSMs : PKI_X509_set_hsm(x, h)
             \/ \E l \in Locs : PKI_X509_set_reference(x, l)
             \/ PKI_X509_delete(x)
  BY <1>4, FreeIInv, SetValueIInv, DupValueIInv, DupIInv, SetHsmIInv,
     SetReferenceIInv, DeleteIInv
<1>5. CASE UNCHANGED vars
  BY <1>5 DEF vars, IInv, TypeOK, HeldAllocated, ValueOwnership,
              RefOwnership, shells, refs
<1>6. QED
  BY <1>1, <1>2, <1>3, <1>4, <1>5 DEF Next

(* IInv holds in every reachable state. *)
THEOREM IInvInvariant == Spec => []IInv
BY InitIInv, NextIInv, PTL DEF Spec

(* Type correctness of the object model: every reachable state gives each  *)
(* allocated PKI_X509 a type, a callback table, an HSM, and a payload and   *)
(* a URL that are NULL or addresses of the right kind.                     *)
THEOREM TypeCorrect == Spec => []TypeOK
BY IInvInvariant, PTL DEF IInv

(* Payload ownership holds in every reachable state, for every instance:   *)
(* across any sequence of new, new_value, new_dup_value, set_value, dup,   *)
(* dup_value, set_hsm, set_reference, delete and free, each live payload   *)
(* has exactly one owner and no object holds a released one.               *)
THEOREM ValueOwnershipInvariant == Spec => []ValueOwnership
BY IInvInvariant, PTL DEF IInv

(* URL ownership holds in every reachable state: PKI_X509_dup never        *)
(* shares the origin URL and set_reference/free release the one they drop. *)
THEOREM RefOwnershipInvariant == Spec => []RefOwnership
BY IInvInvariant, PTL DEF IInv

=============================================================================
