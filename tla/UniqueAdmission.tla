---------------------------- MODULE UniqueAdmission ----------------------------
(***************************************************************************)
(* policies/unique-service-selector-policy and policies/unique-ingress-    *)
(* policy: a request for a Service or an Ingress is decided on a list of   *)
(* the stored ones, which comes from the policy server's cache, while      *)
(* other requests are between their own decision and their own write.      *)
(*                                                                         *)
(* The API server, the watch that keeps the cache up to date and the users *)
(* are external.  Objects of one resource are modelled at a time, since    *)
(* neither policy looks at the other one's.                                *)
(***************************************************************************)
EXTENDS Integers, Sequences

CONSTANTS
  Id,         \* <<namespace, name>> of the objects
  Key,        \* label pairs of a selector, hosts of an Ingress
  Absent,     \* the body of an object that is not stored
  Bodies,     \* the bodies users write
  Slot,       \* requests that are in flight at the same time
  Idle,       \* a slot without request
  MaxLag,     \* events the watch may hold back
  Wanted      \* [id, body] of the objects some client keeps trying to create

Resource == {"Service", "Ingress"}

\* What the policies look at in an object: the selector of a Service, as the set
\* of its label pairs, and the hosts of the rules of an Ingress.
Body == SUBSET Key

ASSUME BodyAssumption == Bodies \subseteq Body /\ \A body \in Body : body # Absent
ASSUME LagAssumption == MaxLag \in Nat \ {0}

\* An admitted request, and whether the list it was decided on is still the truth.
Request == [id : Id, body : Body, list : {"current", "outdated"}]
Event == [id : Id, body : {Absent} \union Body]
ASSUME IdleAssumption == Idle \notin Request
ASSUME WantedAssumption == Wanted \subseteq [id : Id, body : Bodies]

VARIABLES
  resource,   \* the resource the objects are of
  stored,     \* the objects of the cluster
  cache,      \* the policy server's view of them
  watch,      \* events on their way to the cache, oldest first
  inflight,   \* requests that were admitted and are not stored yet
  overlapped  \* some object was stored on the strength of an outdated list

vars == <<resource, stored, cache, watch, inflight, overlapped>>

Exists(objects, id) == objects[id] # Absent

--------------------------------------------------------------------------------
\* list_services: the cached services of a namespace
list_services(namespace) == {id \in Id : Exists(cache, id) /\ id[1] = namespace}

\* Mutant: two services without selector have the same one.
equal_selectors(svc1, svc2) == svc1 = svc2

services_have_same_selectors(svc1, svc2) ==
  /\ ~(svc1 = {} /\ svc2 = {})
  /\ svc1 = svc2

find_services_with_duplicate_selectors(body, current_services) ==
  {id \in current_services : services_have_same_selectors(cache[id], body)}

\* validate_service: a failed listing rejects.  The stored version of the
\* service itself is one of the services in the list.
validate_service(id, body, listed) ==
  listed /\ find_services_with_duplicate_selectors(body, list_services(id[1])) = {}


\* Mutant: the object's own stored version counts.
never_identical(other, review) == FALSE

\* policy.rego identical
identical(other, review) == other = review

\* Mutant: Ingresses of other namespaces are not looked at.
violation_in_namespace(id, body) ==
  \E other \in Id :
    /\ Exists(cache, other) /\ other[1] = id[1]
    /\ cache[other] \intersect body # {}
    /\ ~identical(other, id)

\* policy.rego violation
violation(id, body) ==
  \E other \in Id :
    /\ Exists(cache, other)
    /\ cache[other] \intersect body # {}
    /\ ~identical(other, id)

\* listed: the host could list the services
admits(id, body, listed) ==
  IF resource = "Service" THEN validate_service(id, body, listed)
                          ELSE ~violation(id, body)

--------------------------------------------------------------------------------
Init ==
  /\ resource \in Resource
  /\ stored = [id \in Id |-> Absent]
  /\ cache = stored
  /\ watch = << >>
  /\ inflight = [r \in Slot |-> Idle]
  /\ overlapped = FALSE

\* A create or an update of an object arrives and the policy evaluates it.  If it
\* rejects, nothing is left of the request.
Evaluate(r, id, body, listed) ==
  /\ inflight[r] = Idle
  /\ inflight' =
       IF admits(id, body, listed)
         THEN [inflight EXCEPT ![r] =
                 [id |-> id, body |-> body,
                  list |-> IF cache = stored THEN "current" ELSE "outdated"]]
         ELSE inflight
  /\ UNCHANGED <<resource, stored, cache, watch, overlapped>>

\* The object of id becomes body and the watch reports it.  The list the other
\* requests were decided on is outdated; the API server refuses the ones for the
\* same object, whose old version is not the stored one any more.
Write(id, body) ==
  /\ Len(watch) < MaxLag
  /\ stored' = [stored EXCEPT ![id] = body]
  /\ watch' = Append(watch, [id |-> id, body |-> body])
  /\ inflight' = [r \in Slot |->
       IF inflight[r] = Idle \/ inflight[r].id = id THEN Idle
       ELSE [inflight[r] EXCEPT !.list = "outdated"]]
  /\ UNCHANGED <<resource, cache>>

\* The API server stores an admitted request.
Persist(r) ==
  /\ inflight[r] # Idle
  /\ Write(inflight[r].id, inflight[r].body)
  /\ overlapped' = (overlapped \/ inflight[r].list = "outdated")

\* No rule of the policies matches a deletion.
Delete(id) ==
  /\ Exists(stored, id)
  /\ Write(id, Absent)
  /\ UNCHANGED overlapped

\* The cache applies the oldest event.
Deliver ==
  /\ watch # << >>
  /\ cache' = [cache EXCEPT ![Head(watch).id] = Head(watch).body]
  /\ watch' = Tail(watch)
  /\ UNCHANGED <<resource, stored, inflight, overlapped>>

Next ==
  \/ \E r \in Slot, id \in Id, body \in Bodies, listed \in BOOLEAN :
       Evaluate(r, id, body, listed)
  \/ \E r \in Slot : Persist(r)
  \/ \E id \in Id : Delete(id)
  \/ Deliver

Spec == Init /\ [][Next]_vars

\* The watch delivers, the API server finishes what was admitted (it only waits
\* for the bound of the watch), and a client that wants an object asks for it
\* again and again, with a listing that works and a slot of its own in the end.
FairSpec ==
  /\ Spec
  /\ WF_vars(Deliver)
  /\ \A r \in Slot : SF_vars(Persist(r))
  /\ \A w \in Wanted :
       SF_vars(\E r \in Slot : Evaluate(r, w.id, w.body, TRUE))

--------------------------------------------------------------------------------
(***************************************************************************)
(* Properties                                                              *)
(***************************************************************************)

TypeOK ==
  /\ resource \in Resource
  /\ stored \in [Id -> {Absent} \union Body]
  /\ cache \in [Id -> {Absent} \union Body]
  /\ watch \in Seq(Event)
  /\ inflight \in [Slot -> Request \union {Idle}]
  /\ overlapped \in BOOLEAN

\* What the READMEs mean by a conflict: two Services of one namespace with the
\* same selector, unless it is empty, and two Ingresses with a host in common.
Clash(a, body, b) ==
  /\ a # b /\ Exists(stored, b)
  /\ \/ resource = "Service" /\ a[1] = b[1] /\ body # {} /\ body = stored[b]
     \/ resource = "Ingress" /\ body \intersect stored[b] # {}

Free(id, body) == \A other \in Id : ~Clash(id, body, other)

UniqueKeys == \A id \in Id : Exists(stored, id) => Free(id, stored[id])

\* Selectors and hosts are unique as long as every object was stored on the
\* strength of a list that was still current when it was written ...
UniqueUnlessOverlapped == overlapped \/ UniqueKeys

\* ... because an admitted request fits the stored objects until one is written.
CurrentRequestsFit ==
  \A r \in Slot :
    inflight[r] # Idle /\ inflight[r].list = "current" =>
      Free(inflight[r].id, inflight[r].body)

UniqueInv == TypeOK /\ UniqueUnlessOverlapped /\ CurrentRequestsFit

\* With a current cache and unique keys, an update that leaves the keys of an
\* object of this resource as they are is admitted.
OwnUpdatesAreAdmitted(kind) ==
  resource = kind /\ cache = stored /\ UniqueKeys =>
    \A id \in Id : Exists(stored, id) => admits(id, stored[id], TRUE)

\* An Ingress is not in conflict with its own stored version.
IngressUpdatesAreAdmitted == OwnUpdatesAreAdmitted("Ingress")

\* An object whose keys are free is not refused for ever: what the list still
\* shows of deleted objects, the object's own former version among them, and
\* requests that get in the way are temporary.
FreeKeysAreAdmitted ==
  \A w \in Wanted : []<>(Exists(stored, w.id) \/ ~Free(w.id, w.body))

\* unique-service-selector-policy/README.md:7: the policy "requires Services to
\* have unique selectors within a namespace".  One that has may be updated.  (The
\* code does not have this property.)
ServiceUpdatesAreAdmitted == OwnUpdatesAreAdmitted("Service")
================================================================================
