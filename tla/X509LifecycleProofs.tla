------------------------- MODULE X509LifecycleProofs -------------------------
(***************************************************************************)
(* The PKI_X509 object layer implements spec.md's object lifecycle          *)
(* (ObjectLifecycle under the mapping Lifecycle of X509Object): every       *)
(* initial state maps to an initial state, and every call maps to one       *)
(* lifecycle step or to a stutter.  The argument rests on the inductive     *)
(* invariant IInv of X509ObjectProofs: the ownership facts it holds are     *)
(* what makes a payload the allocator returns fresh in the lifecycle's      *)
(* sense.                                                                   *)
(***************************************************************************)
EXTENDS X509ObjectProofs

USE RegistryAssumption DEF Tables

(* The payload each object owns, as the mapping sees it. *)
AValue == [x \in Handles |-> IF obj[x] = Null THEN Null ELSE obj[x].value]

(* A payload that is not live is owned by nobody in the lifecycle view. *)
LEMMA DeadIsFresh ==
    ASSUME IInv, NEW v \in Payloads, v \notin vals
    PROVE  Lifecycle!Fresh(v)
BY DEF Lifecycle!Fresh, Lifecycle!Owned, IInv, ValueOwnership, TypeOK, shells

LEMMA InitRefines == Init => Lifecycle!LifecycleInit
BY DEF Init, Lifecycle!LifecycleInit, shells

(* A step that changes only x's shell changes only x's lifecycle value. *)
LEMMA AValueExcept ==
    ASSUME NEW x \in Handles, NEW v,
           \A y \in Handles \ {x} : obj'[y] = obj[y],
           (IF obj'[x] = Null THEN Null ELSE obj'[x].value) = v
    PROVE  AValue' = [AValue EXCEPT ![x] = v]
BY DEF AValue

-----------------------------------------------------------------------------
(* One lemma per call: the lifecycle step it is. *)

LEMMA CallerMakesValueRefines ==
    ASSUME IInv, NEW v \in Payloads, NEW b \in BOOLEAN, CallerMakesValue(v, b)
    PROVE  Lifecycle!Acquire(v)
<1>1. v \notin vals
  BY DEF CallerMakesValue, FreePayloads
<1>2. Lifecycle!Fresh(v)
  BY <1>1, DeadIsFresh
<1>3. QED
  BY <1>2 DEF Lifecycle!Acquire, CallerMakesValue, shells

LEMMA CallerFreesValueRefines ==
    ASSUME IInv, NEW v \in Payloads, CallerFreesValue(v)
    PROVE  Lifecycle!Release(v)
BY DEF Lifecycle!Release, CallerFreesValue, shells

LEMMA NewRefines ==
    ASSUME IInv, NEW t \in Types, NEW h \in hsms \cup {Null}, PKI_X509_new(t, h)
    PROVE  \E x \in Handles : Lifecycle!Create(x, Null)
<1> USE DEF IInv, TypeOK
<1>1. PICK x \in FreeShells :
        /\ obj' = [obj EXCEPT ![x] = NewObj(t, h)]
        /\ held' = held \cup {x}
  BY DEF PKI_X509_new
<1>2. NewObj(t, h) \in Obj /\ NewObj(t, h).value = Null
  <2>1. NewObj(t, h) \in Obj
    BY NewObjType DEF PKI_X509_new
  <2>2. NewObj(t, h).value = Null
    BY DEF NewObj
  <2>3. QED
    BY <2>1, <2>2
<1>3. x \in Handles \ shells
  BY <1>1 DEF FreeShells
<1>4. obj'[x] = NewObj(t, h) /\ \A y \in Handles \ {x} : obj'[y] = obj[y]
  BY <1>1, <1>3
<1>5. obj'[x] # Null /\ obj'[x].value = Null
  BY <1>2, <1>4
<1>6. shells' = shells \cup {x}
  BY <1>3, <1>4, <1>5 DEF shells
<1>7. AValue' = [AValue EXCEPT ![x] = Null]
  BY <1>3, <1>4, <1>5, AValueExcept
<1>8. UNCHANGED mine
  BY DEF PKI_X509_new
<1>9. Lifecycle!Create(x, Null)
  BY <1>3, <1>6, <1>7, <1>8 DEF Lifecycle!Create, AValue
<1>10. QED
  BY <1>3, <1>9

LEMMA NewValueRefines ==
    ASSUME IInv, NEW t \in Types, NEW h \in hsms \cup {Null},
           NEW v \in Payloads, PKI_X509_new_value(t, v, h)
    PROVE  \E x \in Handles : Lifecycle!Create(x, v)
<1> USE DEF IInv, TypeOK
<1>1. PICK x \in FreeShells :
        /\ obj' = [obj EXCEPT ![x] = [NewObj(t, h) EXCEPT !.value = v]]
        /\ held' = held \cup {x}
  BY DEF PKI_X509_new_value
<1>2. NewObj(t, h) \in Obj
  BY NewObjType DEF PKI_X509_new_value
<1>3. x \in Handles \ shells
  BY <1>1 DEF FreeShells
<1>4. /\ obj'[x] = [NewObj(t, h) EXCEPT !.value = v]
      /\ \A y \in Handles \ {x} : obj'[y] = obj[y]
  BY <1>1, <1>3
<1>5. obj'[x] \in Obj /\ obj'[x].value = v
  BY <1>2, <1>4 DEF Obj
<1>6. obj'[x] # Null
  BY <1>5
<1>7. shells' = shells \cup {x}
  BY <1>3, <1>4, <1>6 DEF shells
<1>8. AValue' = [AValue EXCEPT ![x] = v]
  BY <1>3, <1>4, <1>5, <1>6, AValueExcept
<1>9. v \in mine /\ mine' = mine \ {v}
  BY DEF PKI_X509_new_value
<1>10. Lifecycle!Create(x, v)
  BY <1>3, <1>7, <1>8, <1>9 DEF Lifecycle!Create, AValue
<1>11. QED
  BY <1>3, <1>10

LEMMA NewDupValueRefines ==
    ASSUME IInv, NEW t \in Types, NEW h \in hsms \cup {Null},
           NEW v \in Payloads, PKI_X509_new_dup_value(t, v, h)
    PROVE  \E x \in Handles, d \in Payloads \cup {Null} : Lifecycle!Create(x, d)
<1> USE DEF IInv, TypeOK
<1>1. PICK x \in FreeShells, d \in FreePayloads \cup {Null} :
        /\ obj' = [obj EXCEPT ![x] = [NewObj(t, h) EXCEPT !.value = d]]
        /\ held' = held \cup {x}
  BY DEF PKI_X509_new_dup_value
<1>2. NewObj(t, h) \in Obj
  BY NewObjType DEF PKI_X509_new_dup_value
<1>3. x \in Handles \ shells /\ d \in Payloads \cup {Null}
  BY <1>1 DEF FreeShells, FreePayloads
<1>4. /\ obj'[x] = [NewObj(t, h) EXCEPT !.value = d]
      /\ \A y \in Handles \ {x} : obj'[y] = obj[y]
  BY <1>1, <1>3
<1>5. obj'[x] \in Obj /\ obj'[x].value = d
  BY <1>2, <1>3, <1>4 DEF Obj
<1>6. obj'[x] # Null
  BY <1>5
<1>7. shells' = shells \cup {x}
  BY <1>3, <1>4, <1>6 DEF shells
<1>8. AValue' = [AValue EXCEPT ![x] = d]
  BY <1>3, <1>4, <1>5, <1>6, AValueExcept
<1>9. d = Null \/ Lifecycle!Fresh(d)
  BY DeadIsFresh DEF FreePayloads
<1>10. d \notin mine
  BY <1>3 DEF FreePayloads, ValueOwnership
<1>11. UNCHANGED mine
  BY DEF PKI_X509_new_dup_value
<1>12. Lifecycle!Create(x, d)
  BY <1>3, <1>7, <1>8, <1>9, <1>10, <1>11 DEF Lifecycle!Create, AValue
<1>13. QED
  BY <1>3, <1>12

LEMMA FreeRefines ==
    ASSUME IInv, NEW x \in Handles, PKI_X509_free(x)
    PROVE  Lifecycle!Destroy(x)
<1> USE DEF IInv, TypeOK
<1>1. x \in shells
  BY DEF PKI_X509_free, HeldAllocated
<1>2. /\ shells' = shells \ {x}
      /\ obj'[x] = Null
      /\ \A y \in Handles \ {x} : obj'[y] = obj[y]
  BY <1>1 DEF PKI_X509_free, shells
<1>3. AValue' = [AValue EXCEPT ![x] = Null]
  BY <1>2, AValueExcept
<1>4. QED
  BY <1>1, <1>2, <1>3 DEF Lifecycle!Destroy, PKI_X509_free, AValue

LEMMA SetValueRefines ==
    ASSUME IInv, NEW x \in Handles, NEW v \in Payloads, PKI_X509_set_value(x, v)
    PROVE  Lifecycle!Store(x, v)
<1> USE DEF IInv, TypeOK
<1>1. x \in shells /\ obj[x] \in Obj /\ v \in mine
  BY DEF PKI_X509_set_value, HeldAllocated, shells
<1>2. /\ obj'[x] = [obj[x] EXCEPT !.value = v]
      /\ \A y \in Handles \ {x} : obj'[y] = obj[y]
  BY DEF PKI_X509_set_value
<1>3. obj'[x] \in Obj /\ obj'[x].value = v
  BY <1>1, <1>2 DEF Obj
<1>4. obj'[x] # Null
  BY <1>3
<1>5. shells' = shells
  BY <1>1, <1>2, <1>4 DEF shells
<1>6. AValue' = [AValue EXCEPT ![x] = v]
  BY <1>2, <1>3, <1>4, AValueExcept
<1>7. mine' = mine \ {v}
  BY DEF PKI_X509_set_value
<1>8. QED
  BY <1>1, <1>5, <1>6, <1>7 DEF Lifecycle!Store, AValue

LEMMA DupValueRefines ==
    ASSUME IInv, NEW x \in Handles, PKI_X509_dup_value(x)
    PROVE  \E d \in Payloads : Lifecycle!Copy(x, d)
<1> USE DEF IInv, TypeOK
<1>1. x \in shells /\ AValue[x] # Null
  BY DEF PKI_X509_dup_value, HeldAllocated, shells, AValue
<1>2. PICK d \in FreePayloads : vals' = vals \cup {d} /\ mine' = mine \cup {d}
  BY DEF PKI_X509_dup_value
<1>3. d \in Payloads /\ Lifecycle!Fresh(d)
  BY DeadIsFresh DEF FreePayloads
<1>4. UNCHANGED obj
  BY DEF PKI_X509_dup_value
<1>5. QED
  BY <1>1, <1>2, <1>3, <1>4 DEF Lifecycle!Copy, AValue, shells

LEMMA DupRefines ==
    ASSUME IInv, NEW x \in Handles, PKI_X509_dup(x)
    PROVE  \E y \in Handles, d \in Payloads \cup {Null} : Lifecycle!Create(y, d)
<1> USE DEF IInv, TypeOK
<1>1. x \in shells /\ obj[x] \in Obj
  BY DEF PKI_X509_dup, HeldAllocated, shells
<1>2. PICK y \in FreeShells, p \in FreePayloads :
        obj' = [obj EXCEPT ![y] = [obj[x] EXCEPT !.ref = Null,
                     !.value = IF obj[x].value = Null THEN Null ELSE p]]
  BY DEF PKI_X509_dup
<1>3. PICK dv \in Payloads \cup {Null} :
        /\ dv = IF obj[x].value = Null THEN Null ELSE p
        /\ y \in Handles \ shells
  BY <1>2 DEF FreeShells, FreePayloads
<1>4. /\ obj'[y] = [obj[x] EXCEPT !.ref = Null, !.value = dv]
      /\ \A z \in Handles \ {y} : obj'[z] = obj[z]
  BY <1>2, <1>3
<1>5. obj'[y] \in Obj /\ obj'[y].value = dv
  BY <1>1, <1>3, <1>4 DEF Obj
<1>6. obj'[y] # Null
  BY <1>5
<1>7. shells' = shells \cup {y}
  BY <1>3, <1>4, <1>6 DEF shells
<1>8. AValue' = [AValue EXCEPT ![y] = dv]
  BY <1>3, <1>4, <1>5, <1>6, AValueExcept
<1>9. dv = Null \/ Lifecycle!Fresh(dv)
  BY <1>2, <1>3, DeadIsFresh DEF FreePayloads
<1>10. dv \notin mine
  BY <1>3 DEF FreePayloads, ValueOwnership
<1>11. UNCHANGED mine
  BY DEF PKI_X509_dup
<1>12. Lifecycle!Create(y, dv)
  BY <1>3, <1>7, <1>8, <1>9, <1>10, <1>11 DEF Lifecycle!Create, AValue
<1>13. QED
  BY <1>3, <1>12

(* set_hsm, set_reference and delete touch no part of the lifecycle. *)
LEMMA SetHsmStutters ==
    ASSUME IInv, NEW x \in Handles, NEW h \in HSMs, PKI_X509_set_hsm(x, h)
    PROVE  UNCHANGED Lifecycle!lifecycleVars
<1> USE DEF IInv, TypeOK
<1>1. x \in shells /\ obj[x] \in Obj
  BY DEF PKI_X509_set_hsm, HeldAllocated, shells
<1>2. /\ obj'[x] = [obj[x] EXCEPT !.hsm = h]
      /\ \A y \in Handles \ {x} : obj'[y] = obj[y]
  BY DEF PKI_X509_set_hsm
<1>3. obj'[x] \in Obj /\ obj'[x].value = obj[x].value
  BY <1>1, <1>2 DEF Obj
<1>4. obj'[x] # Null
  BY <1>3
<1>5. shells' = shells
  BY <1>1, <1>2, <1>4 DEF shells
<1>6. AValue' = [AValue EXCEPT ![x] = AValue[x]]
  BY <1>1, <1>2, <1>3, <1>4, AValueExcept DEF AValue, shells
<1>7. AValue' = AValue
  BY <1>6 DEF AValue
<1>8. QED
  BY <1>5, <1>7 DEF Lifecycle!lifecycleVars, PKI_X509_set_hsm, AValue

LEMMA SetReferenceStutters ==
    ASSUME IInv, NEW x \in Handles, NEW l \in Locs, PKI_X509_set_reference(x, l)
    PROVE  UNCHANGED Lifecycle!lifecycleVars
<1> USE DEF IInv, TypeOK
<1>1. x \in shells /\ obj[x] \in Obj
  BY DEF PKI_X509_set_reference, HeldAllocated, shells
<1>2. PICK r \in FreeRefs \cup ({obj[x].ref} \ {Null}) \cup {Null} :
        obj' = [obj EXCEPT ![x].ref = r]
  BY DEF PKI_X509_set_reference
<1>3. r \in Refs \cup {Null}
  BY <1>1, <1>2 DEF FreeRefs, Obj
<1>4. /\ obj'[x] = [obj[x] EXCEPT !.ref = r]
      /\ \A y \in Handles \ {x} : obj'[y] = obj[y]
  BY <1>2
<1>5. obj'[x] \in Obj /\ obj'[x].value = obj[x].value
  BY <1>1, <1>3, <1>4 DEF Obj
<1>6. obj'[x] # Null
  BY <1>5
<1>7. shells' = shells
  BY <1>1, <1>4, <1>6 DEF shells
<1>8. AValue' = [AValue EXCEPT ![x] = AValue[x]]
  BY <1>1, <1>4, <1>5, <1>6, AValueExcept DEF AValue, shells
<1>9. AValue' = AValue
  BY <1>8 DEF AValue
<1>10. QED
  BY <1>7, <1>9 DEF Lifecycle!lifecycleVars, PKI_X509_set_reference, AValue

LEMMA DeleteStutters ==
    ASSUME NEW x \in Handles, PKI_X509_delete(x)
    PROVE  UNCHANGED Lifecycle!lifecycleVars
BY DEF PKI_X509_delete, Lifecycle!lifecycleVars, shells

-----------------------------------------------------------------------------
(* Every step of the object layer is a lifecycle step or a stutter. *)
LEMMA NextRefines ==
    IInv /\ [Next]_vars => [Lifecycle!LifecycleNext]_Lifecycle!lifecycleVars
<1> SUFFICES ASSUME IInv, [Next]_vars
             PROVE  [Lifecycle!LifecycleNext]_Lifecycle!lifecycleVars
  OBVIOUS
<1>1. ASSUME NEW v \in Payloads, NEW b \in BOOLEAN, CallerMakesValue(v, b)
      PROVE  Lifecycle!LifecycleNext
  BY <1>1, CallerMakesValueRefines DEF Lifecycle!LifecycleNext
<1>2. ASSUME NEW v \in Payloads, CallerFreesValue(v)
      PROVE  Lifecycle!LifecycleNext
  BY <1>2, CallerFreesValueRefines DEF Lifecycle!LifecycleNext
<1>3. ASSUME NEW t \in Types, NEW h \in hsms \cup {Null}
      PROVE  /\ PKI_X509_new(t, h) => Lifecycle!LifecycleNext
             /\ \A v \in Payloads :
                  /\ PKI_X509_new_value(t, v, h) => Lifecycle!LifecycleNext
                  /\ PKI_X509_new_dup_value(t, v, h) => Lifecycle!LifecycleNext
  BY NewRefines, NewValueRefines, NewDupValueRefines DEF Lifecycle!LifecycleNext
<1>4. ASSUME NEW x \in Handles
      PROVE  /\ PKI_X509_free(x) => Lifecycle!LifecycleNext
             /\ \A v \in Payloads :
                  PKI_X509_set_value(x, v) => Lifecycle!LifecycleNext
             /\ PKI_X509_dup_value(x) => Lifecycle!LifecycleNext
             /\ PKI_X509_dup(x) => Lifecycle!LifecycleNext
  BY FreeRefines, SetValueRefines, DupValueRefines, DupRefines
  DEF Lifecycle!LifecycleNext
<1>5. ASSUME NEW x \in Handles
      PROVE  /\ \A h \in HSMs : PKI_X509_set_hsm(x, h)
                  => UNCHANGED Lifecycle!lifecycleVars
             /\ \A l \in Locs : PKI_X509_set_reference(x, l)
                  => UNCHANGED Lifecycle!lifecycleVars
             /\ PKI_X509_delete(x) => UNCHANGED Lifecycle!lifecycleVars
  BY SetHsmStutters, SetReferenceStutters, DeleteStutters
<1>6. CASE UNCHANGED vars
  BY <1>6 DEF vars, Lifecycle!lifecycleVars, shells, AValue
<1>7. QED
  BY <1>1, <1>2, <1>3, <1>4, <1>5, <1>6 DEF Next

(* The object layer implements spec.md's object lifecycle: under the       *)
(* mapping of live shells to objects, value pointers to payloads and the   *)
(* caller's payloads to its own, every behaviour of PKI_X509_new, free,    *)
(* new_value, new_dup_value, set_value, dup_value, dup, set_hsm,           *)
(* set_reference and delete is a behaviour of ObjectLifecycle.             *)
THEOREM Refinement == Spec => ImplementsLifecycle
<1>1. Init => Lifecycle!LifecycleInit
  BY InitRefines
<1>2. IInv /\ [Next]_vars => [Lifecycle!LifecycleNext]_Lifecycle!lifecycleVars
  BY NextRefines
<1>3. QED
  BY <1>1, <1>2, IInvInvariant, PTL
  DEF Spec, ImplementsLifecycle, Lifecycle!LifecycleSpec
=============================================================================
