------------------------- MODULE UniqueAdmission_proofs -------------------------
(***************************************************************************)
(* Uniqueness of selectors and hosts, for any objects, keys, number of     *)
(* requests in flight and lag of the cache: it is lost only by a request   *)
(* that is stored although its list is outdated.                           *)
(***************************************************************************)
EXTENDS UniqueAdmission, TLAPS

\* A request that is admitted on a current list fits the stored objects.
THEOREM AdmittedFits ==
  ASSUME TypeOK, cache = stored, NEW id \in Id, NEW body \in Bodies,
         NEW listed \in BOOLEAN, admits(id, body, listed)
  PROVE  Free(id, body)
<1> SUFFICES ASSUME NEW other \in Id, Clash(id, body, other) PROVE FALSE
  BY DEF Free
<1>1. CASE resource = "Service"
  <2>1. find_services_with_duplicate_selectors(body, list_services(id[1])) = {}
    BY <1>1 DEF admits, validate_service
  <2>2. other \in list_services(id[1])
    BY <1>1 DEF Clash, list_services, Exists
  <2>3. services_have_same_selectors(cache[other], body)
    BY <1>1 DEF Clash, services_have_same_selectors
  <2> QED
    BY <2>1, <2>2, <2>3 DEF find_services_with_duplicate_selectors
<1>2. CASE resource = "Ingress"
  <2>1. ~violation(id, body)
    BY <1>2 DEF admits
  <2> QED
    BY <1>2, <2>1 DEF Clash, violation, identical, Exists
<1> QED BY <1>1, <1>2 DEF TypeOK, Resource

LEMMA InitUnique == Init => UniqueInv
<1> SUFFICES ASSUME Init PROVE UniqueInv
  OBVIOUS
<1>1. TypeOK
  <2>1. watch \in Seq(Event)
    BY DEF Init
  <2>2. /\ stored \in [Id -> {Absent} \union Body]
        /\ cache \in [Id -> {Absent} \union Body]
    BY DEF Init
  <2> QED BY <2>1, <2>2 DEF Init, TypeOK
<1>2. UniqueUnlessOverlapped
  BY DEF Init, UniqueUnlessOverlapped, UniqueKeys, Exists
<1>3. CurrentRequestsFit
  BY DEF Init, CurrentRequestsFit
<1> QED BY <1>1, <1>2, <1>3 DEF UniqueInv

\* A write makes every list outdated: no current request is left.
LEMMA WriteType ==
  ASSUME TypeOK, NEW id \in Id, NEW body \in {Absent} \union Body, Write(id, body)
  PROVE  /\ stored' \in [Id -> {Absent} \union Body]
         /\ watch' \in Seq(Event)
         /\ inflight' \in [Slot -> Request \union {Idle}]
         /\ CurrentRequestsFit'
<1>1. stored' \in [Id -> {Absent} \union Body]
  BY DEF TypeOK, Write
<1>2. watch' \in Seq(Event)
  <2>1. [id |-> id, body |-> body] \in Event
    BY DEF Event
  <2> QED BY <2>1 DEF TypeOK, Write
<1>3. ASSUME NEW r \in Slot
      PROVE  inflight'[r] = Idle \/ (inflight'[r] \in Request /\ inflight'[r].list = "outdated")
  BY DEF TypeOK, Write, Request
<1>4. inflight' \in [Slot -> Request \union {Idle}]
  BY <1>3 DEF Write
<1>5. CurrentRequestsFit'
  BY <1>3 DEF CurrentRequestsFit
<1> QED BY <1>1, <1>2, <1>4, <1>5

LEMMA UniqueStep == UniqueInv /\ [Next]_vars => UniqueInv'
<1> SUFFICES ASSUME UniqueInv, [Next]_vars PROVE UniqueInv'
  OBVIOUS
<1> USE DEF UniqueInv
<1>1. CASE \E r \in Slot, id \in Id, body \in Bodies, listed \in BOOLEAN :
             Evaluate(r, id, body, listed)
  <2>1. PICK r \in Slot, id \in Id, body \in Bodies, listed \in BOOLEAN :
               Evaluate(r, id, body, listed)
    BY <1>1
  <2>2. TypeOK'
    <3>1. [id |-> id, body |-> body,
           list |-> IF cache = stored THEN "current" ELSE "outdated"] \in Request
      BY BodyAssumption DEF Request
    <3>2. inflight' \in [Slot -> Request \union {Idle}]
      BY <2>1, <3>1 DEF Evaluate, TypeOK
    <3>3. UNCHANGED <<resource, stored, cache, watch, overlapped>>
      BY <2>1 DEF Evaluate
    <3> QED BY <3>2, <3>3 DEF TypeOK
  <2>3. UniqueUnlessOverlapped'
    BY <2>1 DEF Evaluate, UniqueUnlessOverlapped, UniqueKeys, Free, Clash, Exists
  <2>4. CurrentRequestsFit'
    <3> SUFFICES ASSUME NEW q \in Slot, inflight'[q] # Idle, inflight'[q].list = "current"
                 PROVE  Free(inflight[q].id, inflight[q].body)'
      BY DEF CurrentRequestsFit
    <3>1. \A i \in Id, b \in Body : Free(i, b)' = Free(i, b)
      BY <2>1 DEF Evaluate, Free, Clash, Exists
    <3>2. inflight'[q] \in Request
      BY <2>2 DEF TypeOK
    <3>3. Free(inflight'[q].id, inflight'[q].body)
      <4>1. CASE inflight'[q] = inflight[q]
        BY <4>1 DEF CurrentRequestsFit
      <4>2. CASE inflight'[q] # inflight[q]
        <5>1. /\ admits(id, body, listed)
              /\ inflight'[q] =
                   [id |-> id, body |-> body,
                    list |-> IF cache = stored THEN "current" ELSE "outdated"]
          BY <2>1, <4>2 DEF Evaluate, TypeOK
        <5>2. cache = stored
          BY <5>1
        <5>3. inflight'[q].id = id /\ inflight'[q].body = body
          BY <5>1
        <5>4. Free(id, body)
          BY <5>1, <5>2, AdmittedFits
        <5> QED BY <5>3, <5>4
      <4> QED BY <4>1, <4>2
    <3> QED BY <3>1, <3>2, <3>3 DEF Request
  <2> QED BY <2>2, <2>3, <2>4
<1>2. CASE \E r \in Slot : Persist(r)
  <2>1. PICK r \in Slot : Persist(r)
    BY <1>2
  <2> DEFINE q == inflight[r]
  <2>2. q \in Request /\ q.id \in Id /\ q.body \in Body
    BY <2>1 DEF Persist, TypeOK, Request
  <2>3. Write(q.id, q.body)
    BY <2>1 DEF Persist
  <2>4. TypeOK' /\ CurrentRequestsFit'
    <3>1. /\ stored' \in [Id -> {Absent} \union Body]
          /\ watch' \in Seq(Event)
          /\ inflight' \in [Slot -> Request \union {Idle}]
          /\ CurrentRequestsFit'
      BY <2>2, <2>3, WriteType
    <3>2. overlapped' \in BOOLEAN
      BY <2>1 DEF Persist
    <3> QED BY <3>1, <3>2, <2>3 DEF Write, TypeOK
  <2>5. UniqueUnlessOverlapped'
    <3> SUFFICES ASSUME ~overlapped' PROVE UniqueKeys'
      BY DEF UniqueUnlessOverlapped
    <3>1. UniqueKeys /\ q.list = "current"
      BY <2>1, <2>2 DEF Persist, UniqueUnlessOverlapped, Request
    <3>2. Free(q.id, q.body)
      BY <2>1, <3>1 DEF CurrentRequestsFit, Persist
    <3>3. /\ resource' = resource
          /\ stored' = [stored EXCEPT ![q.id] = q.body]
      BY <2>3 DEF Write
    <3> SUFFICES ASSUME NEW a \in Id, NEW b \in Id, Exists(stored', a),
                        Clash(a, stored[a], b)'
                 PROVE  FALSE
      BY DEF UniqueKeys, Free
    <3>4. /\ a # b /\ stored'[b] # Absent
          /\ \/ /\ resource = "Service" /\ a[1] = b[1]
                /\ stored'[a] # {} /\ stored'[a] = stored'[b]
             \/ resource = "Ingress" /\ stored'[a] \intersect stored'[b] # {}
      BY <3>3 DEF Clash, Exists
    <3>5. CASE a = q.id
      <4>1. stored'[a] = q.body /\ stored'[b] = stored[b]
        BY <3>3, <3>4, <3>5 DEF TypeOK
      <4> QED BY <3>2, <3>4, <3>5, <4>1 DEF Free, Clash, Exists
    <3>6. CASE b = q.id
      <4>1. stored'[b] = q.body /\ stored'[a] = stored[a]
        BY <3>3, <3>4, <3>6 DEF TypeOK
      <4>2. Clash(b, q.body, a)
        BY <3>4, <4>1 DEF Clash, Exists
      <4> QED BY <3>2, <3>6, <4>2 DEF Free
    <3>7. CASE a # q.id /\ b # q.id
      <4>1. stored'[a] = stored[a] /\ stored'[b] = stored[b]
        BY <3>3, <3>7 DEF TypeOK
      <4>2. Clash(a, stored[a], b)
        BY <3>4, <4>1 DEF Clash, Exists
      <4> QED BY <3>1, <4>1, <4>2 DEF UniqueKeys, Free, Exists
    <3> QED BY <3>5, <3>6, <3>7
  <2> QED BY <2>4, <2>5
<1>3. CASE \E id \in Id : Delete(id)
  <2>1. PICK id \in Id : Delete(id)
    BY <1>3
  <2>2. Write(id, Absent) /\ overlapped' = overlapped
    BY <2>1 DEF Delete
  <2>3. TypeOK' /\ CurrentRequestsFit'
    <3>1. /\ stored' \in [Id -> {Absent} \union Body]
          /\ watch' \in Seq(Event)
          /\ inflight' \in [Slot -> Request \union {Idle}]
          /\ CurrentRequestsFit'
      BY <2>2, WriteType
    <3> QED BY <3>1, <2>2 DEF Write, TypeOK
  <2>4. UniqueUnlessOverlapped'
    <3> SUFFICES ASSUME ~overlapped, NEW a \in Id, NEW b \in Id, Exists(stored', a),
                        Clash(a, stored[a], b)'
                 PROVE  FALSE
      BY <2>2 DEF UniqueUnlessOverlapped, UniqueKeys, Free
    <3>1. /\ resource' = resource
          /\ stored' = [stored EXCEPT ![id] = Absent]
      BY <2>2 DEF Write
    <3>2. stored'[b] # Absent
      BY DEF Clash, Exists
    <3>3. stored'[a] = stored[a] /\ stored'[b] = stored[b]
      BY <3>1, <3>2 DEF TypeOK, Exists
    <3>4. Clash(a, stored[a], b)
      BY <3>1, <3>3 DEF Clash, Exists
    <3> QED BY <3>3, <3>4 DEF UniqueUnlessOverlapped, UniqueKeys, Free, Exists
  <2> QED BY <2>3, <2>4
<1>4. CASE Deliver
  <2>1. TypeOK'
    <3>1. Head(watch) \in Event /\ Tail(watch) \in Seq(Event)
      BY <1>4 DEF Deliver, TypeOK
    <3>2. cache' \in [Id -> {Absent} \union Body]
      BY <1>4, <3>1 DEF Deliver, TypeOK, Event
    <3> QED BY <1>4, <3>1, <3>2 DEF Deliver, TypeOK
  <2>2. UniqueUnlessOverlapped' /\ CurrentRequestsFit'
    BY <1>4 DEF Deliver, UniqueUnlessOverlapped, UniqueKeys, CurrentRequestsFit,
                Free, Clash, Exists
  <2> QED BY <2>1, <2>2
<1>5. CASE UNCHANGED vars
  BY <1>5 DEF vars, TypeOK, UniqueUnlessOverlapped, UniqueKeys, CurrentRequestsFit,
              Free, Clash, Exists
<1> QED BY <1>1, <1>2, <1>3, <1>4, <1>5 DEF Next

\* Selectors of the Services of a namespace and hosts of Ingresses are unique in
\* every reachable state, unless some object was stored although the list its
\* admission was decided on was outdated by then.
THEOREM Uniqueness == Spec => []UniqueInv
<1> QED
  BY InitUnique, UniqueStep, PTL DEF Spec

--------------------------------------------------------------------------------
\* policy.rego leaves the object itself out, so an Ingress with keys of its own may be
\* updated, however many objects, namespaces and hosts there are.
THEOREM IngressUpdates == Spec => []IngressUpdatesAreAdmitted
<1>1. IngressUpdatesAreAdmitted
  <2> SUFFICES ASSUME resource = "Ingress", cache = stored, UniqueKeys,
                      NEW id \in Id, Exists(stored, id)
               PROVE  admits(id, stored[id], TRUE)
    BY DEF IngressUpdatesAreAdmitted, OwnUpdatesAreAdmitted
  <2>1. ASSUME NEW other \in Id, Exists(cache, other), cache[other] \intersect stored[id] # {}
        PROVE  other = id
    <3>1. ~Clash(id, stored[id], other)
      BY DEF UniqueKeys, Free
    <3> QED BY <2>1, <3>1 DEF Clash
  <2>2. ~violation(id, stored[id])
    BY <2>1 DEF violation, identical
  <2> QED BY <2>2 DEF admits
<1> QED BY <1>1, PTL
================================================================================
