-------------------------- MODULE PolicyServer_proofs --------------------------
(***************************************************************************)
(* What holds of every policy, whatever its settings, the requests it      *)
(* gets and the changes of the cluster: ReviewInv relates a review to what *)
(* the policy could see, and the properties of single policies follow from *)
(* it.                                                                     *)
(***************************************************************************)
EXTENDS PolicyServer, WellFoundedInduction, TLAPS

\* The fields of the objects that a policy changes
Shaped(p, o) ==
  /\ p \in PodPolicies => CheckedPod(o)
  /\ p = "verify-image-signatures" => SignedPod(o)
  /\ p \in {"image-cve", "project-quotas"} => o \in ObjectsOf(p)
  /\ p = "environment-variable" => \A c \in ContainersOf(o) : c.role \in Role
  /\ p = "trusted-repos" =>
       /\ o.spec # None => Extracted(o)
       /\ \A c \in ContainersOf(o) : c.image # None => c.image.path \in Seq(STRING)
  /\ p = "storage-class" => o = [kind |-> o.kind, storageClass |-> o.storageClass]
  /\ p = "project-labels" => o = [project |-> o.project, labels |-> o.labels]
  /\ p = "namespace-labels" =>
       o = [kind |-> o.kind, labels |-> o.labels, template |-> o.template]
  /\ p \in {"context-aware-demo", "psa-label-enforcer"} => o = [kind |-> o.kind, labels |-> o.labels]
  /\ p = "policyserver-mapper" =>
       o = [spec |-> o.spec] /\ (o.spec # None => o.spec = [policyServer |-> o.spec.policyServer])
  /\ p = "container-resources" => LimitedObject(o)

\* HostAnswers, of a cluster that is seen at another time
AnswersOf(seen, q) ==
  CASE policy = "verify-image-signatures" -> {verify(settings, seen, q)}
    [] policy = "image-cve" -> cve_answers(settings, seen, object, q)
    [] policy = "high-risk-service-account" -> {can_i(seen, q)}
    [] policy = "webhook-services" -> {list_by_namespace(seen, q)}
    [] OTHER -> {seen}

\* The verifications a pod asks for
IsVerification(q) ==
  /\ q.container \in resource_spec(object).containers /\ q.entry \in DOMAIN settings.signatures
  /\ q.call \in DOMAIN Calls(settings.signatures[q.entry])
  /\ SignaturePatternMatches(settings.signatures[q.entry], q.container.image)
  /\ q = Verification(q.container, q.entry, q.call)

\* The questions that the policies that make several calls may ask
Asks(q) ==
  /\ policy = "verify-image-signatures" => IsVerification(q)
  /\ policy = "high-risk-service-account" => q \in build_subject_access_reviews(settings, object)
  /\ policy = "webhook-services" => q.kind \in {"Ingress", "Service"}

ConfigOK ==
  /\ policy \in Policy /\ settings \in SettingsOf(policy)
  /\ policy # "project-quotas" => {cluster, cache} \subseteq ClustersOf(policy)
  /\ server = "loaded" => SettingsValid
  /\ server # "loaded" => object = None /\ stored = {}

ShapesOK ==
  /\ object # None => Shaped(policy, object)
  /\ \A o \in stored : Shaped(policy, o)

ViewsOK ==
  /\ object # None => Source \in views
  /\ policy # "project-quotas" => views \subseteq ClustersOf(policy)

\* Every answer of the host is an error or true of something that the review could see.
HeardOK ==
  /\ \E S : heard \in Seq(S)
  /\ object = None => heard = <<>>
  /\ \A i \in DOMAIN heard :
       /\ Asks(heard[i].question)
       /\ heard[i].answer = Error \/ \E v \in views : heard[i].answer \in AnswersOf(v, heard[i].question)

AnswerOK == answer # None => object # None /\ Questions = {} /\ answer = Validate

ReviewInv == ConfigOK /\ ShapesOK /\ ViewsOK /\ HeardOK /\ AnswerOK

--------------------------------------------------------------------------------
\* The numbers that have a property have a least one: what the proofs use for an induction.
LEMMA SomeIsLeast ==
  ASSUME NEW S \in SUBSET Nat, S # {} PROVE \E x \in S : \A y \in S : x <= y
<1>1. PICK x \in S : \A y \in S : <<y, x>> \notin OpToRel(<, Nat)
  BY NatLessThanWellFounded, WFMin
<1>2. ASSUME NEW y \in S PROVE x <= y
  <2>1. ~(y < x)
    BY <1>1 DEF OpToRel
  <2> QED BY <2>1
<1> QED BY <1>2

LEMMA ScenarioShapes == ASSUME NEW p, NEW o \in ObjectsOf(p) PROVE Shaped(p, o)
  BY ObjectsAssumption DEF Shaped

\* The containers with their defaults, and the object with these
LEMMA AdjustedShape ==
  ASSUME NEW s, NEW c, c = [image |-> c.image, limits |-> c.limits, requests |-> c.requests]
  PROVE  LET a == adjusted_container(s, c) IN
         /\ a = [image |-> a.image, limits |-> a.limits, requests |-> a.requests]
         /\ a.image = c.image
         /\ ~shouldSkipContainer(c.image, s.ignoreImages) => a = adjusted(c, s)
  BY DEF adjusted_container, adjusted

LEMMA ResourcesShape ==
  ASSUME NEW s, NEW o, LimitedObject(o)
  PROVE  LimitedObject(resources_validate(s, o).object)
<1> DEFINE filled == {adjusted_container(s, c) : c \in o.containers}
           result == [o EXCEPT !.containers = filled]
<1>1. resources_validate(s, o).object \in {o, result}
  BY DEF resources_validate, Answer
<1>2. result = [kind |-> o.kind, containers |-> filled] /\ result.kind = o.kind /\ result.containers = filled
  <2> HIDE DEF filled
  <2> QED BY DEF LimitedObject
<1>3. ASSUME NEW c \in o.containers
      PROVE  LET a == adjusted_container(s, c) IN
             /\ a = [image |-> a.image, limits |-> a.limits, requests |-> a.requests]
             /\ a.limits = [r \in Resource |-> a.limits[r]]
             /\ a.requests = [r \in Resource |-> a.requests[r]]
  <2>1. /\ c = [image |-> c.image, limits |-> c.limits, requests |-> c.requests]
        /\ c.limits = [r \in Resource |-> c.limits[r]] /\ c.requests = [r \in Resource |-> c.requests[r]]
    BY DEF LimitedObject
  <2>2. CASE adjusted_container(s, c) = c
    BY <2>1, <2>2
  <2>3. CASE adjusted_container(s, c) = adjusted(c, s)
    BY <2>1, <2>3 DEF adjusted
  <2> QED BY <2>2, <2>3 DEF adjusted_container
<1>4. LimitedObject(result)
  <2> HIDE DEF result
  <2> QED BY <1>2, <1>3 DEF LimitedObject
<1> QED BY <1>1, <1>4

\* A digest that is written leaves the rest of the pod as it was.
LEMMA DigestedName ==
  ASSUME NEW image, ImageName(image), NEW digest
  PROVE  LET named == [image EXCEPT !.digest = digest] IN
         named = WithDigest(image, digest) /\ named.digest = digest /\ ImageName(named)
<1> DEFINE named == [image EXCEPT !.digest = digest]
<1>1. named = WithDigest(image, digest)
  BY DEF ImageName, WithDigest
<1> HIDE DEF named
<1>2. named.registry = image.registry /\ named.path = image.path /\ named.tag = image.tag
      /\ named.digest = digest
  BY <1>1 DEF WithDigest
<1>3. \A other : WithDigest(named, other) = WithDigest(image, other)
  BY <1>2 DEF WithDigest
<1>4. ImageName(named)
  BY <1>1, <1>2, <1>3 DEF ImageName
<1> QED BY <1>1, <1>2, <1>4 DEF named

LEMMA DigestedShape ==
  ASSUME NEW h, NEW c, NEW d, d = add_digest_if_not_present(h, c),
         c = [field \in DOMAIN EmptyContainer |-> c[field]], ImageName(c.image)
  PROVE  /\ d = [field \in DOMAIN EmptyContainer |-> IF field = "image" THEN d.image ELSE c[field]]
         /\ ImageName(d.image)
<1>1. "image" \in DOMAIN EmptyContainer
  BY DEF EmptyContainer
<1>2. CASE d = c
  BY <1>1, <1>2
<1>3. ASSUME NEW digest, d = set_image(c, [c.image EXCEPT !.digest = digest])
      PROVE  /\ d = [field \in DOMAIN EmptyContainer |-> IF field = "image" THEN d.image ELSE c[field]]
             /\ ImageName(d.image)
  <2> DEFINE image == [c.image EXCEPT !.digest = digest]
             with == [c EXCEPT !.image = image]
  <2>1. d = with
    BY <1>3 DEF set_image
  <2>2. ImageName(image)
    BY DigestedName
  <2> HIDE DEF image
  <2>3. with = [field \in DOMAIN EmptyContainer |-> IF field = "image" THEN image ELSE c[field]]
        /\ with.image = image
    BY <1>1
  <2> HIDE DEF with
  <2> QED BY <2>1, <2>2, <2>3
<1>4. d = c \/ \E digest : d = set_image(c, [c.image EXCEPT !.digest = digest])
  BY DEF add_digest_if_not_present
<1> QED BY <1>2, <1>3, <1>4

LEMMA SignedShape ==
  ASSUME NEW o, NEW h, SignedPod(o), o.spec # None, \A c \in o.spec.containers : c.image # None
  PROVE  LET result == set_spec(o, verify_all_images_in_pod(o.spec, h)) IN
         /\ SignedPod(result) /\ result.kind = o.kind
         /\ result.spec.containers = {add_digest_if_not_present(h, c) : c \in o.spec.containers}
<1> DEFINE digested == {add_digest_if_not_present(h, c) : c \in o.spec.containers}
           spec == [o.spec EXCEPT !.containers = digested]
           result == set_spec(o, verify_all_images_in_pod(o.spec, h))
<1>1. /\ o = [kind |-> o.kind, annotations |-> o.annotations, spec |-> o.spec] /\ Extracted(o)
      /\ o.spec = [field \in DOMAIN EmptySpec |-> o.spec[field]]
      /\ \A c \in o.spec.containers :
           c = [field \in DOMAIN EmptyContainer |-> c[field]] /\ ImageName(c.image)
  BY DEF SignedPod, PodObject, ContainersOf
<1>2. "containers" \in DOMAIN EmptySpec
  BY DEF EmptySpec
<1>3. verify_all_images_in_pod(o.spec, h) = spec
  BY DEF verify_all_images_in_pod
<1>4. result = [kind |-> o.kind, annotations |-> o.annotations, spec |-> spec]
  <2> HIDE DEF spec
  <2> QED BY <1>1, <1>3 DEF set_spec
<1> HIDE DEF result
<1>5. spec.containers = digested /\ spec = [field \in DOMAIN EmptySpec |-> spec[field]]
  <2> HIDE DEF digested
  <2> QED BY <1>1, <1>2
<1>6. \A d \in digested : d = [field \in DOMAIN EmptyContainer |-> d[field]] /\ ImageName(d.image)
  <2> SUFFICES ASSUME NEW c \in o.spec.containers, NEW d, d = add_digest_if_not_present(h, c)
               PROVE  d = [field \in DOMAIN EmptyContainer |-> d[field]] /\ ImageName(d.image)
    OBVIOUS
  <2>1. /\ d = [field \in DOMAIN EmptyContainer |-> IF field = "image" THEN d.image ELSE c[field]]
        /\ ImageName(d.image)
    <3>1. c = [field \in DOMAIN EmptyContainer |-> c[field]] /\ ImageName(c.image)
      BY <1>1
    <3> QED BY <3>1, DigestedShape
  <2> QED BY <2>1
<1> HIDE DEF spec, digested
<1>7. PodObject(result)
  BY <1>4, <1>5, <1>6 DEF PodObject
<1>8. Extracted(result) /\ \A c \in ContainersOf(result) : c \in digested
  BY <1>1, <1>4, <1>5 DEF Extracted, ContainersOf
<1>9. SignedPod(result)
  BY <1>6, <1>7, <1>8 DEF SignedPod
<1>10. result.kind = o.kind /\ result.spec = spec
  BY <1>4
<1>11. result.spec.containers = digested
  BY <1>5, <1>10
<1> QED BY <1>9, <1>10, <1>11 DEF result, digested

\* A policy that writes a field leaves an object of the same form.
LEMMA ValidateShapes ==
  ASSUME Shaped(policy, object)
  PROVE  Shaped(policy, Validate.object)
<1>1. CASE policy = "storage-class"
  BY <1>1 DEF Shaped, PodPolicies, Validate, storage_validate, mutate_or_reject, Answer
<1>2. CASE policy = "project-labels"
  BY <1>2 DEF Shaped, PodPolicies, Validate, project_validate, Answer
<1>3. CASE policy = "namespace-labels"
  BY <1>3 DEF Shaped, PodPolicies, Validate, propagator_validate, Answer
<1>4. CASE policy = "context-aware-demo"
  BY <1>4 DEF Shaped, PodPolicies, Validate, demo_validate, Answer
<1>5. CASE policy = "policyserver-mapper"
  BY <1>5 DEF Shaped, PodPolicies, Validate, mapper_validate, Answer
<1>6. CASE policy \in PodPolicies
  BY <1>6 DEF PodPolicies, Validate, Answer
<1>7. CASE policy \notin PodPolicies \union {"verify-image-signatures", "storage-class", "project-labels",
                          "namespace-labels", "context-aware-demo", "policyserver-mapper", "container-resources",
                          "image-cve", "project-quotas", "psa-label-enforcer"}
  BY <1>7 DEF Shaped, PodPolicies
<1>8. CASE policy \in {"image-cve", "project-quotas"}
  BY <1>8 DEF Shaped, PodPolicies, Validate, Answer
<1>9. CASE policy = "container-resources"
  <2>1. LimitedObject(object) /\ Validate = resources_validate(settings, object)
    BY <1>9 DEF Shaped, Validate
  <2>2. LimitedObject(resources_validate(settings, object).object)
    BY <2>1, ResourcesShape
  <2> QED BY <1>9, <2>1, <2>2 DEF Shaped, PodPolicies
<1>10. CASE policy = "verify-image-signatures"
  <2>1. SignedPod(object) /\ Validate = signatures_validate(settings, object, heard)
    BY <1>10 DEF Shaped, Validate
  <2>2. \/ Validate.object = object
        \/ /\ resource_spec(object) # None /\ ~Traps(object)
           /\ Validate.object = set_spec(object, verify_all_images_in_pod(resource_spec(object), heard))
    BY <2>1 DEF signatures_validate, Answer
  <2>3. resource_spec(object) # None /\ ~Traps(object) =>
          /\ resource_spec(object) = object.spec /\ object.spec # None
          /\ \A c \in object.spec.containers : c.image # None
    BY DEF resource_spec, Traps
  <2>4. PICK changed : changed = Validate.object
    OBVIOUS
  <2>5. ASSUME changed = object PROVE SignedPod(changed)
    BY <2>1, <2>5
  <2>6. ASSUME changed # object PROVE SignedPod(changed)
    <3>1. /\ object.spec # None /\ \A c \in object.spec.containers : c.image # None
          /\ changed = set_spec(object, verify_all_images_in_pod(object.spec, heard))
      BY <2>2, <2>3, <2>4, <2>6
    <3> QED BY <2>1, <3>1, SignedShape
  <2>7. SignedPod(changed)
    BY <2>1, <2>5, <2>6
  <2>8. \A o : SignedPod(o) => Shaped(policy, o)
    BY <1>10 DEF Shaped, PodPolicies
  <2> QED BY <2>4, <2>7, <2>8
<1>11. CASE policy = "psa-label-enforcer"
  BY <1>11 DEF Shaped, PodPolicies, Validate, psa_validate, Answer
<1> QED BY <1>1, <1>2, <1>3, <1>4, <1>5, <1>6, <1>7, <1>8, <1>9, <1>10, <1>11

LEMMA AnswersOfSource == ASSUME NEW q PROVE HostAnswers(q) = AnswersOf(Source, q)
  BY DEF HostAnswers, AnswersOf

LEMMA InitReview == Init => ReviewInv
<1> SUFFICES ASSUME Init PROVE ReviewInv
  OBVIOUS
<1>1. ConfigOK
  BY DEF Init, ConfigOK, SettingsOf, ClustersOf
<1>2. ShapesOK
  BY DEF Init, ShapesOK
<1>3. ViewsOK
  BY DEF Init, ViewsOK
<1>4. HeardOK
  BY DEF Init, HeardOK
<1>5. AnswerOK
  BY DEF Init, AnswerOK
<1> QED BY <1>1, <1>2, <1>3, <1>4, <1>5 DEF ReviewInv

LEMMA SourceIsKnown ==
  ASSUME ConfigOK, policy # "project-quotas" PROVE Source \in ClustersOf(policy)
  BY DEF ConfigOK, Source

LEMMA LoadStep == ReviewInv /\ Load => ReviewInv'
<1> SUFFICES ASSUME ReviewInv, Load PROVE ReviewInv'
  OBVIOUS
<1>1. /\ server = "new"
      /\ server' = "loaded" => SettingsValid
      /\ UNCHANGED <<policy, settings, cluster, cache, object, heard, answer, stored, views>>
  BY DEF Load, review
<1>2. object = None /\ stored = {}
  BY <1>1 DEF ReviewInv, ConfigOK
<1>3. ConfigOK'
  <2>1. SettingsValid' = SettingsValid
    BY <1>1 DEF SettingsValid
  <2> QED BY <1>1, <1>2, <2>1 DEF ReviewInv, ConfigOK
<1>4. ShapesOK' /\ ViewsOK'
  BY <1>1, <1>2 DEF ReviewInv, ShapesOK, ViewsOK
<1>5. HeardOK' /\ AnswerOK'
  BY <1>1, <1>2 DEF ReviewInv, HeardOK, AnswerOK
<1> QED BY <1>3, <1>4, <1>5 DEF ReviewInv

LEMMA SubmitStep ==
  ReviewInv /\ (\E o \in Scenarios[policy].objects \union stored : Submit(o)) => ReviewInv'
<1> SUFFICES ASSUME ReviewInv, NEW o \in Scenarios[policy].objects \union stored, Submit(o)
             PROVE  ReviewInv'
  OBVIOUS
<1>1. /\ server = "loaded" /\ object = None /\ object' = o /\ views' = {Source}
      /\ UNCHANGED <<policy, settings, server, cluster, cache, heard, answer, stored>>
  BY DEF Submit, config
<1>2. heard = <<>> /\ answer = None
  BY <1>1 DEF ReviewInv, HeardOK, AnswerOK
<1>3. ConfigOK'
  <2>1. SettingsValid' = SettingsValid
    BY <1>1 DEF SettingsValid
  <2> QED BY <1>1, <2>1 DEF ReviewInv, ConfigOK
<1>4. ShapesOK'
  <2>1. Shaped(policy, o)
    BY ScenarioShapes DEF ReviewInv, ShapesOK, ConfigOK, ObjectsOf
  <2> QED BY <1>1, <2>1 DEF ReviewInv, ShapesOK
<1>5. ViewsOK'
  <2>1. Source' = Source
    BY <1>1 DEF Source
  <2> QED BY <1>1, <2>1, SourceIsKnown DEF ReviewInv, ViewsOK
<1>6. HeardOK' /\ AnswerOK'
  BY <1>1, <1>2 DEF HeardOK, AnswerOK
<1> QED BY <1>3, <1>4, <1>5, <1>6 DEF ReviewInv

\* What a policy asks next is one of its questions.
LEMMA QuestionsAreAsked == ASSUME NEW q \in Questions PROVE Asks(q)
<1>1. policy = "high-risk-service-account" => q \in build_subject_access_reviews(settings, object)
  BY DEF Questions, high_risk_questions
<1>2. policy = "webhook-services" => q.kind \in {"Ingress", "Service"}
  BY DEF Questions, webhook_questions
<1>3. CASE policy = "verify-image-signatures"
  <2> DEFINE containers == resource_spec(object).containers
             first(c, i) == {k \in CallsLeft(settings, heard, c, i) :
                               \A other \in CallsLeft(settings, heard, c, i) : k <= other}
             next == {p \in containers \X DOMAIN settings.signatures :
                        IsNext(settings, containers, heard, p[1], p[2])}
  <2>1. q \in UNION {{Verification(p[1], p[2], call) : call \in first(p[1], p[2])} : p \in next}
    BY <1>3 DEF Questions, signature_questions
  <2>2. PICK p \in next : q \in {Verification(p[1], p[2], call) : call \in first(p[1], p[2])}
    BY <2>1
  <2>3. PICK call \in CallsLeft(settings, heard, p[1], p[2]) : q = Verification(p[1], p[2], call)
    BY <2>2
  <2>4. /\ p[1] \in containers /\ p[2] \in DOMAIN settings.signatures
        /\ SignaturePatternMatches(settings.signatures[p[2]], p[1].image)
    BY DEF IsNext, EntryIsDone
  <2>5. call \in DOMAIN Calls(settings.signatures[p[2]])
    BY DEF CallsLeft
  <2>6. q.container = p[1] /\ q.entry = p[2] /\ q.call = call
    BY <2>3 DEF Verification
  <2> QED BY <1>3, <2>3, <2>4, <2>5, <2>6 DEF IsVerification, Asks
<1> QED BY <1>1, <1>2, <1>3 DEF Asks

LEMMA AppendStays ==
  ASSUME NEW S, NEW s \in Seq(S), NEW x
  PROVE  /\ Append(s, x) \in Seq(S \union {x})
         /\ \A i \in DOMAIN Append(s, x) : (i \in DOMAIN s /\ Append(s, x)[i] = s[i]) \/ Append(s, x)[i] = x
<1>1. s \in Seq(S \union {x})
  OBVIOUS
<1> QED BY <1>1

LEMMA AskStep == ReviewInv /\ Reviewing /\ (\E q \in Questions : Ask(q)) => ReviewInv'
<1> SUFFICES ASSUME ReviewInv, Reviewing, NEW q \in Questions, Ask(q)
             PROVE  ReviewInv'
  OBVIOUS
<1>1. PICK a \in HostAnswers(q) \union {Error} : heard' = Append(heard, [question |-> q, answer |-> a])
  BY DEF Ask
<1>2. /\ object # None /\ answer = None
      /\ UNCHANGED <<policy, settings, server, cluster, cache, object, answer, stored, views>>
  BY DEF Ask, Reviewing, config
<1>3. ConfigOK'
  <2>1. SettingsValid' = SettingsValid
    BY <1>2 DEF SettingsValid
  <2> QED BY <1>2, <2>1 DEF ReviewInv, ConfigOK
<1>4. ShapesOK'
  BY <1>2 DEF ReviewInv, ShapesOK
<1>5. ViewsOK'
  <2>1. Source' = Source
    BY <1>2 DEF Source
  <2> QED BY <1>2, <2>1 DEF ReviewInv, ViewsOK
<1>6. HeardOK'
  <2> DEFINE reply == [question |-> q, answer |-> a]
  <2>1. PICK S : heard \in Seq(S)
    BY DEF ReviewInv, HeardOK
  <2>2. /\ heard' \in Seq(S \union {reply})
        /\ \A i \in DOMAIN heard' : (i \in DOMAIN heard /\ heard'[i] = heard[i]) \/ heard'[i] = reply
    BY <1>1, <2>1, AppendStays
  <2>3. \A x : (Asks(x)' <=> Asks(x)) /\ \A v : AnswersOf(v, x)' = AnswersOf(v, x)
    BY <1>2 DEF Asks, IsVerification, AnswersOf
  <2>4. Asks(q) /\ (a = Error \/ \E v \in views : a \in AnswersOf(v, q))
    BY <1>2, QuestionsAreAsked, AnswersOfSource DEF ReviewInv, ViewsOK
  <2>5. ASSUME NEW i \in DOMAIN heard'
        PROVE  /\ Asks(heard'[i].question)
               /\ heard'[i].answer = Error \/ \E v \in views : heard'[i].answer \in AnswersOf(v, heard'[i].question)
    <3>1. CASE i \in DOMAIN heard /\ heard'[i] = heard[i]
      BY <3>1 DEF ReviewInv, HeardOK
    <3>2. CASE heard'[i] = reply
      BY <3>2, <2>4
    <3> QED BY <2>2, <3>1, <3>2
  <2>6. \E T : heard' \in Seq(T)
    BY <2>2
  <2> QED BY <1>2, <2>3, <2>5, <2>6 DEF HeardOK
<1>7. AnswerOK'
  BY <1>2 DEF AnswerOK
<1> QED BY <1>3, <1>4, <1>5, <1>6, <1>7 DEF ReviewInv

\* As long as the object, the settings and what was heard stay, so do the questions, the
\* answer and what the policy knows.
LEMMA SameReview ==
  ASSUME UNCHANGED <<policy, settings, object, heard>>
  PROVE  /\ Questions' = Questions /\ Validate' = Validate
         /\ views \subseteq views' /\ HeardOK => HeardOK'
<1>1. Questions' = Questions
  BY DEF Questions
<1>2. Validate' = Validate
  BY DEF Validate, Accepts
<1>3. ASSUME views \subseteq views', HeardOK PROVE HeardOK'
  <2>1. \A x : (Asks(x)' <=> Asks(x)) /\ \A v : AnswersOf(v, x)' = AnswersOf(v, x)
    BY DEF Asks, IsVerification, AnswersOf
  <2> QED BY <1>3, <2>1 DEF HeardOK
<1> QED BY <1>1, <1>2, <1>3

LEMMA DecideStep == ReviewInv /\ Decide => ReviewInv'
<1> SUFFICES ASSUME ReviewInv, Decide PROVE ReviewInv'
  OBVIOUS
<1>1. /\ object # None /\ Questions = {} /\ answer' = Validate
      /\ UNCHANGED <<policy, settings, server, cluster, cache, object, heard, stored, views>>
  BY DEF Decide, Reviewing, config
<1>2. ConfigOK'
  <2>1. SettingsValid' = SettingsValid
    BY <1>1 DEF SettingsValid
  <2> QED BY <1>1, <2>1 DEF ReviewInv, ConfigOK
<1>3. ShapesOK'
  BY <1>1 DEF ReviewInv, ShapesOK
<1>4. ViewsOK'
  <2>1. Source' = Source
    BY <1>1 DEF Source
  <2> QED BY <1>1, <2>1 DEF ReviewInv, ViewsOK
<1>5. HeardOK' /\ AnswerOK'
  BY <1>1, SameReview DEF ReviewInv, AnswerOK
<1> QED BY <1>2, <1>3, <1>4, <1>5 DEF ReviewInv

LEMMA StoreStep == ReviewInv /\ Store => ReviewInv'
<1> SUFFICES ASSUME ReviewInv, Store PROVE ReviewInv'
  OBVIOUS
<1>1. /\ answer # None
      /\ stored' = IF answer.allowed THEN stored \union {answer.object} ELSE stored
      /\ object' = None /\ heard' = <<>> /\ answer' = None /\ views' = {}
      /\ UNCHANGED <<policy, settings, server, cluster, cache>>
  BY DEF Store, config
<1>2. ConfigOK'
  <2>1. SettingsValid' = SettingsValid
    BY <1>1 DEF SettingsValid
  <2>2. server = "loaded"
    BY <1>1 DEF ReviewInv, ConfigOK, AnswerOK
  <2> QED BY <1>1, <2>1, <2>2 DEF ReviewInv, ConfigOK
<1>3. ShapesOK'
  <2>1. Shaped(policy, answer.object)
    BY <1>1, ValidateShapes DEF ReviewInv, AnswerOK, ShapesOK
  <2>2. ASSUME NEW o \in stored' PROVE Shaped(policy, o)
    BY <1>1, <2>1, <2>2 DEF ReviewInv, ShapesOK
  <2> QED BY <1>1, <2>2 DEF ShapesOK
<1>4. ViewsOK' /\ HeardOK' /\ AnswerOK'
  BY <1>1 DEF ViewsOK, HeardOK, AnswerOK
<1> QED BY <1>2, <1>3, <1>4 DEF ReviewInv

\* The cluster changes or the cache catches up.
LEMMA ClusterStep ==
  ReviewInv /\ ((\E c \in Scenarios[policy].clusters : Move(c)) \/ Recount \/ Refresh) => ReviewInv'
<1> SUFFICES ASSUME ReviewInv, (\E c \in Scenarios[policy].clusters : Move(c)) \/ Recount \/ Refresh
             PROVE  ReviewInv'
  OBVIOUS
<1>1. /\ answer = None /\ See
      /\ UNCHANGED <<policy, settings, server, object, heard, answer, stored>>
      /\ policy # "project-quotas" => {cluster', cache'} \subseteq ClustersOf(policy)
  <2>1. CASE \E c \in Scenarios[policy].clusters : Move(c)
    BY <2>1 DEF Move, config, review, ReviewInv, ConfigOK, ClustersOf
  <2>2. CASE Recount
    BY <2>2 DEF Recount, config, review
  <2>3. CASE Refresh
    BY <2>3 DEF Refresh, config, review, ReviewInv, ConfigOK
  <2> QED BY <2>1, <2>2, <2>3
<1>2. ConfigOK'
  <2>1. SettingsValid' = SettingsValid
    BY <1>1 DEF SettingsValid
  <2> QED BY <1>1, <2>1 DEF ReviewInv, ConfigOK
<1>3. ShapesOK'
  BY <1>1 DEF ReviewInv, ShapesOK
<1>4. ViewsOK'
  <2>1. policy # "project-quotas" => Source' \in ClustersOf(policy)
    BY <1>1 DEF Source
  <2> QED BY <1>1, <2>1 DEF ReviewInv, ViewsOK, See
<1>5. HeardOK'
  <2>1. CASE object = None
    BY <1>1, <2>1 DEF ReviewInv, HeardOK
  <2>2. CASE object # None
    BY <1>1, <2>2, SameReview DEF See, ReviewInv
  <2> QED BY <2>1, <2>2
<1>6. AnswerOK'
  BY <1>1 DEF AnswerOK
<1> QED BY <1>2, <1>3, <1>4, <1>5, <1>6 DEF ReviewInv

LEMMA ReviewStep == ReviewInv /\ [Next]_vars => ReviewInv'
<1> SUFFICES ASSUME ReviewInv, [Next]_vars PROVE ReviewInv'
  OBVIOUS
<1>1. CASE UNCHANGED vars
  <2>1. /\ UNCHANGED <<policy, settings, object, heard>>
        /\ UNCHANGED <<server, cluster, cache, answer, stored, views>>
    BY <1>1 DEF vars
  <2>2. SettingsValid' = SettingsValid /\ Source' = Source
    BY <2>1 DEF SettingsValid, Source
  <2>3. ConfigOK' /\ ShapesOK' /\ ViewsOK'
    BY <2>1, <2>2 DEF ReviewInv, ConfigOK, ShapesOK, ViewsOK
  <2>4. HeardOK' /\ AnswerOK'
    BY <2>1, SameReview DEF ReviewInv, AnswerOK
  <2> QED BY <2>3, <2>4 DEF ReviewInv
<1>2. CASE Next
  BY <1>2, LoadStep, SubmitStep, AskStep, DecideStep, StoreStep, ClusterStep DEF Next
<1> QED BY <1>1, <1>2

\* What a policy answers follows from its settings, the object and the answers of the host,
\* and each of those is true of something that the review could see, or an error.
THEOREM ReviewCorrect == Spec => []ReviewInv
<1> QED BY InitReview, ReviewStep, PTL DEF Spec

--------------------------------------------------------------------------------
\* persistentvolumeclaim-storageclass.  validate_settings is what makes the fallback an
\* allowed class.
LEMMA FallbackIsAllowed ==
  ASSUME NEW s, storage_settings_valid(s), NEW o,
         o = [kind |-> o.kind, storageClass |-> o.storageClass],
         storage_validate(s, o).allowed
  PROVE  LET after == storage_validate(s, o).object
             class == storage_class_name(after) IN
         after.kind = "PersistentVolumeClaim" =>
           /\ s.allowed # None => class \in s.allowed
           /\ s.denied # None => class \notin s.denied
<1>1. CASE o.kind # "PersistentVolumeClaim" \/ is_allowed_class(s, storage_class_name(o))
  <2>1. storage_validate(s, o).object = o
    BY <1>1 DEF storage_validate, Answer
  <2> QED BY <1>1, <2>1 DEF is_allowed_class, storage_settings_valid
<1>2. CASE ~(o.kind # "PersistentVolumeClaim" \/ is_allowed_class(s, storage_class_name(o)))
  <2>1. /\ s.fallback # None
        /\ storage_validate(s, o).object = [o EXCEPT !.storageClass = s.fallback]
    BY <1>2 DEF storage_validate, mutate_or_reject, Answer
  <2>2. storage_class_name(storage_validate(s, o).object) = s.fallback
    BY <2>1 DEF storage_class_name
  <2> QED BY <2>1, <2>2 DEF storage_settings_valid
<1> QED BY <1>1, <1>2

LEMMA StorageStep == ReviewInv /\ StoredClassesAreAllowed /\ [Next]_vars => StoredClassesAreAllowed'
<1> SUFFICES ASSUME ReviewInv, StoredClassesAreAllowed, [Next]_vars, policy' = "storage-class"
             PROVE  StoredClassesAreAllowed'
  BY DEF StoredClassesAreAllowed
<1>1. UNCHANGED <<policy, settings>>
  BY DEF Next, vars, Load, Submit, Ask, Decide, Store, Move, Recount, Refresh, config
<1>2. CASE UNCHANGED stored
  BY <1>1, <1>2 DEF StoredClassesAreAllowed
<1>3. CASE Store
  <2>1. /\ answer # None /\ server = "loaded" /\ SettingsValid
        /\ stored' = IF answer.allowed THEN stored \union {answer.object} ELSE stored
    BY <1>3 DEF Store, ReviewInv, AnswerOK, ConfigOK
  <2>2. storage_settings_valid(settings)
    BY <1>1, <2>1 DEF SettingsValid
  <2>3. answer = storage_validate(settings, object)
    BY <1>1, <2>1 DEF ReviewInv, AnswerOK, Validate
  <2>4. object = [kind |-> object.kind, storageClass |-> object.storageClass]
    BY <1>1, <2>1 DEF ReviewInv, AnswerOK, ShapesOK, Shaped
  <2>5. CASE ~answer.allowed
    BY <1>2, <2>1, <2>5
  <2>6. CASE answer.allowed
    <3>1. answer.object.kind = "PersistentVolumeClaim" =>
            /\ settings.allowed # None => storage_class_name(answer.object) \in settings.allowed
            /\ settings.denied # None => storage_class_name(answer.object) \notin settings.denied
      BY <2>2, <2>3, <2>4, <2>6, FallbackIsAllowed
    <3> QED BY <1>1, <2>1, <2>6, <3>1 DEF StoredClassesAreAllowed, storage_class_name
  <2> QED BY <2>5, <2>6
<1>4. [Next]_vars => UNCHANGED stored \/ Store
  BY DEF Next, vars, Load, Submit, Ask, Decide, Move, Recount, Refresh, review
<1> QED BY <1>2, <1>3, <1>4

\* A claim that is stored has a class the settings allow, whatever lists, fallback and
\* requests there are.
THEOREM StoredClasses == Spec => []StoredClassesAreAllowed
<1>1. Init => StoredClassesAreAllowed
  BY DEF Init, StoredClassesAreAllowed
<1> QED BY <1>1, StorageStep, ReviewCorrect, PTL DEF Spec

--------------------------------------------------------------------------------
\* criteria_policy_base: of a criterion and its opposite exactly one accepts a list of names.
LEMMA OppositeIsComplement ==
  ASSUME NEW s, s = [criteria |-> s.criteria, values |-> s.values], s.criteria \in Criteria, NEW names
  PROVE  validate_values([s EXCEPT !.criteria = Opposite(@)], names) <=> ~validate_values(s, names)
<1> DEFINE t == [s EXCEPT !.criteria = Opposite(@)]
<1>1. t.criteria = Opposite(s.criteria) /\ t.values = s.values
  OBVIOUS
<1>2. CASE s.criteria \in {"containsAnyOf", "doesNotContainAnyOf"}
  <2>1. \/ s.criteria = "containsAnyOf" /\ t.criteria = "doesNotContainAnyOf"
        \/ s.criteria = "doesNotContainAnyOf" /\ t.criteria = "containsAnyOf"
    BY <1>1, <1>2 DEF Opposite
  <2> HIDE DEF t
  <2> QED BY <1>1, <2>1 DEF validate_values, contains_any_of, does_not_contain_any_of
<1>3. CASE s.criteria \in {"containsAllOf", "doesNotContainAllOf"}
  <2>1. \/ s.criteria = "containsAllOf" /\ t.criteria = "doesNotContainAllOf"
        \/ s.criteria = "doesNotContainAllOf" /\ t.criteria = "containsAllOf"
    BY <1>1, <1>3 DEF Opposite
  <2> HIDE DEF t
  <2> QED BY <1>1, <2>1 DEF validate_values, contains_all_of, does_not_contain_all_of
<1>4. CASE s.criteria \in {"containsOtherThan", "doesNotContainOtherThan"}
  <2>1. \/ s.criteria = "containsOtherThan" /\ t.criteria = "doesNotContainOtherThan"
        \/ s.criteria = "doesNotContainOtherThan" /\ t.criteria = "containsOtherThan"
    BY <1>1, <1>4 DEF Opposite
  <2> HIDE DEF t
  <2> QED BY <1>1, <2>1 DEF validate_values, contains_other_than, does_not_contain_other_than
<1> QED BY <1>2, <1>3, <1>4 DEF Criteria

\* Exactly one of two truth values that are complements holds.
LEMMA ComplementsDiffer ==
  ASSUME NEW P \in BOOLEAN, NEW Q \in BOOLEAN, Q <=> ~P PROVE P # Q
  OBVIOUS

LEMMA ValidateIsBoolean ==
  ASSUME NEW s, s.criteria \in Criteria, NEW names PROVE validate_values(s, names) \in BOOLEAN
  BY DEF Criteria, validate_values, contains_any_of, does_not_contain_any_of, contains_all_of,
         does_not_contain_all_of, contains_other_than, does_not_contain_other_than

LEMMA NamesExclude ==
  ASSUME ReviewInv, Answered, policy \in {"annotations", "labels"}
  PROVE  LET opposite == [settings EXCEPT !.criteria = Opposite(@)] IN
         answer.allowed # (IF policy = "labels" THEN labels_validate(opposite, object)
                           ELSE annotations_validate(opposite, object))
<1> DEFINE opposite == [settings EXCEPT !.criteria = Opposite(@)]
           names == IF policy = "labels" THEN get_resource_label_keys(object)
                    ELSE get_resource_annotation_keys(object)
<1>1. settings = [criteria |-> settings.criteria, values |-> settings.values] /\ settings.criteria \in Criteria
  BY SettingsAssumption DEF ReviewInv, ConfigOK
<1>2. answer.allowed = validate_values(settings, names)
  <2>1. answer = Answer(Accepts(object), object)
    BY DEF ReviewInv, AnswerOK, Answered, Validate
  <2>2. Accepts(object) = validate_values(settings, names)
    BY DEF Accepts, labels_validate, annotations_validate
  <2> QED BY <2>1, <2>2 DEF Answer
<1>3. (IF policy = "labels" THEN labels_validate(opposite, object) ELSE annotations_validate(opposite, object))
        = validate_values(opposite, names)
  BY DEF labels_validate, annotations_validate
<1>4. opposite.criteria \in Criteria
  BY <1>1 DEF Opposite, Criteria
<1>5. validate_values(opposite, names) <=> ~validate_values(settings, names)
  BY <1>1, OppositeIsComplement
<1> HIDE DEF opposite, names
<1>6. validate_values(settings, names) # validate_values(opposite, names)
  BY <1>1, <1>4, <1>5, ValidateIsBoolean, ComplementsDiffer
<1> QED BY <1>2, <1>3, <1>6 DEF opposite

LEMMA VariablesExclude ==
  ASSUME ReviewInv, Accepted, policy = "environment-variable", ContainersOf(object) # {}
  PROVE  ~environment_validate([settings EXCEPT !.criteria = Opposite(@)], object)
<1>1. settings = [criteria |-> settings.criteria, values |-> settings.values] /\ settings.criteria \in Criteria
  BY SettingsAssumption DEF ReviewInv, ConfigOK
<1>2. environment_validate(settings, object)
  <2>1. answer = Answer(Accepts(object), object) /\ answer.allowed
    BY DEF ReviewInv, AnswerOK, Accepted, Answered, Validate
  <2> QED BY <2>1 DEF Accepts, Answer
<1>3. PICK c \in ContainersOf(object) : TRUE
  OBVIOUS
<1>4. object.spec # None /\ c \in InRole(object.spec, Role)
  <2>1. object # None
    BY DEF ReviewInv, AnswerOK, Accepted, Answered
  <2>2. c.role \in Role
    BY <2>1, <1>3 DEF ReviewInv, ShapesOK, Shaped
  <2> QED BY <1>3, <2>2 DEF ContainersOf, InRole
<1>5. validate_values(settings, get_containers_env_vars(c))
  BY <1>2, <1>4 DEF environment_validate
<1>6. ~validate_values([settings EXCEPT !.criteria = Opposite(@)], get_containers_env_vars(c))
  BY <1>1, <1>5, OppositeIsComplement
<1> QED BY <1>4, <1>6 DEF environment_validate

\* trusted-repos: an image that one of the matchers matches is allowed by the list that
\* allows them and rejected by the one that rejects them.
LEMMA ImagesExclude ==
  ASSUME ReviewInv, Accepted, policy = "trusted-repos", settings.images.allow # {}, object.spec # None,
         NEW image \in discover_images(object.spec), Parses(image)
  PROVE  ~repos_validate([settings EXCEPT !.images = [allow |-> {}, reject |-> @.allow]], object)
<1> DEFINE opposite == [settings EXCEPT !.images = [allow |-> {}, reject |-> @.allow]]
           images == discover_images(object.spec)
<1>1. /\ settings = [registries |-> settings.registries, tags |-> settings.tags, images |-> settings.images]
      /\ opposite.images.reject = settings.images.allow
  <2>1. settings \in SettingsOf("trusted-repos")
    BY DEF ReviewInv, ConfigOK
  <2>2. /\ settings = [registries |-> settings.registries, tags |-> settings.tags, images |-> settings.images]
        /\ settings.images = [allow |-> settings.images.allow, reject |-> settings.images.reject]
    BY <2>1, SettingsAssumption
  <2> QED BY <2>2
<1>2. repos_validate(settings, object)
  <2>1. answer = Answer(Accepts(object), object) /\ answer.allowed
    BY DEF ReviewInv, AnswerOK, Accepted, Answered, Validate
  <2> QED BY <2>1 DEF Accepts, Answer
<1>8. Extracted(object)
  BY DEF ReviewInv, AnswerOK, ShapesOK, Shaped, Accepted, Answered
<1> HIDE DEF opposite, images
<1>3. validate_images(images, settings).images_not_allowed = {}
  <2>1. is_empty(validate_images(images, settings))
    BY <1>2, <1>8 DEF repos_validate, response, validate_pod_spec, images
  <2> QED BY <2>1 DEF is_empty, RejectionReasons
<1>4. image_matches_any(ImageRef(image), settings.images.allow)
  <2>1. image \in images
    BY DEF images
  <2>2. is_allowed_image(ImageRef(image), settings)
    BY <1>3, <2>1 DEF validate_images, RejectionReasons
  <2> QED BY <2>2 DEF is_allowed_image
<1>5. ~is_allowed_image(ImageRef(image), opposite)
  BY <1>1, <1>4 DEF is_allowed_image
<1>6. image \in validate_images(images, opposite).images_not_allowed
  BY <1>5 DEF validate_images, RejectionReasons, images
<1>7. ~response(validate_images(images, opposite))
  BY <1>6 DEF response, is_empty, RejectionReasons
<1> QED BY <1>7, <1>8 DEF repos_validate, validate_pod_spec, opposite, images

\* A criterion and its opposite, a list to allow and the same list to reject, never accept the
\* same object, whatever names and images the settings and the object have.
THEOREM OppositesDiffer == Spec => []OppositesExclude
<1>1. ReviewInv => OppositesExclude
  BY NamesExclude, VariablesExclude, ImagesExclude DEF OppositesExclude, Accepted
<1> QED BY <1>1, ReviewCorrect, PTL

--------------------------------------------------------------------------------
\* do-not-expose-admission-controller-webhook-services: both listings of the namespace of a
\* service are over when the policy answers.
LEMMA NamespacesAreListed ==
  ASSUME webhook_questions(object, heard) = {}, object.kind \in webhook_kinds, ~Failed(heard),
         NEW s \in object.services, NEW kind \in {"Ingress", "Service"}
  PROVE  \E i \in DOMAIN heard : heard[i].question.kind = kind /\ heard[i].question.namespace = s.namespace
<1> DEFINE asked(k) == {heard[i].question.namespace : i \in {j \in DOMAIN heard : heard[j].question.kind = k}}
<1> DEFINE halfway == asked("Ingress") \ asked("Service")
           behind == {[kind |-> "Service", namespace |-> n] : n \in halfway}
<1>1. asked("Ingress") \ asked("Service") = {}
  <2>1. halfway # {} => behind = {}
    BY DEF webhook_questions
  <2> HIDE DEF asked
  <2> QED BY <2>1
<1>2. {w \in webhook_services(object) : w.namespace \notin asked("Ingress")} = {}
  <2>1. {[kind |-> "Ingress", namespace |-> w.namespace] :
           w \in {x \in webhook_services(object) : x.namespace \notin asked("Ingress")}} = {}
    BY <1>1 DEF webhook_questions
  <2> HIDE DEF asked
  <2> QED BY <2>1
<1>3. ServiceDetails(s.namespace, s.name, s.port) \in webhook_services(object)
  BY DEF webhook_services
<1>4. s.namespace \in asked("Ingress")
  BY <1>2, <1>3 DEF ServiceDetails
<1>5. s.namespace \in asked(kind)
  BY <1>1, <1>4
<1> QED BY <1>5

LEMMA ListingsAreSeen ==
  ASSUME ReviewInv, policy = "webhook-services", ~Failed(heard), NEW i \in DOMAIN heard
  PROVE  \E v \in views : heard[i].answer = list_by_namespace(v, heard[i].question)
<1>1. heard[i].answer # Error
  BY DEF Failed
<1>2. PICK v \in views : heard[i].answer \in AnswersOf(v, heard[i].question)
  BY <1>1 DEF ReviewInv, HeardOK
<1> QED BY <1>2 DEF AnswersOf

LEMMA IngressesHide ==
  ASSUME ReviewInv, policy = "webhook-services", ~Failed(heard),
         find_webhook_services_exposed(object, heard) = {}, NEW s \in object.services,
         NEW i \in DOMAIN heard, heard[i].question.kind = "Ingress",
         heard[i].question.namespace = s.namespace
  PROVE  \E v \in views : \A ingress \in v.ingresses : ingress.namespace = s.namespace =>
           [name |-> s.name, port |-> s.port] \notin ingress.backends
<1> DEFINE details == ServiceDetails(s.namespace, s.name, s.port)
<1>1. PICK v \in views : heard[i].answer = list_by_namespace(v, heard[i].question)
  BY ListingsAreSeen
<1>2. details \notin exposed_by_ingress(heard[i].answer)
  BY DEF find_webhook_services_exposed, webhook_services
<1>3. ASSUME NEW ingress \in v.ingresses, ingress.namespace = s.namespace,
             [name |-> s.name, port |-> s.port] \in ingress.backends
      PROVE  FALSE
  <2>1. ingress \in heard[i].answer
    BY <1>1, <1>3 DEF list_by_namespace
  <2>2. details \in ingress_services(ingress)
    BY <1>3 DEF ingress_services, ServiceDetails
  <2> QED BY <1>2, <2>1, <2>2 DEF exposed_by_ingress
<1> QED BY <1>3

LEMMA ServicesHide ==
  ASSUME ReviewInv, policy = "webhook-services", ~Failed(heard),
         find_webhook_services_exposed(object, heard) = {}, NEW s \in object.services,
         NEW i \in DOMAIN heard, heard[i].question.kind = "Service",
         heard[i].question.namespace = s.namespace
  PROVE  \E v \in views : \A service \in v.services :
           /\ service.namespace = s.namespace /\ service.name = s.name
           /\ service.type # "ClusterIP"
           => s.port \notin service.ports
<1> DEFINE details == ServiceDetails(s.namespace, s.name, s.port)
<1>1. PICK v \in views : heard[i].answer = list_by_namespace(v, heard[i].question)
  BY ListingsAreSeen
<1>2. details \notin exposed_by_service(heard[i].answer)
  BY DEF find_webhook_services_exposed, webhook_services
<1>3. ASSUME NEW service \in v.services, service.namespace = s.namespace, service.name = s.name,
             service.type # "ClusterIP", s.port \in service.ports
      PROVE  FALSE
  <2>1. service \in heard[i].answer
    BY <1>1, <1>3 DEF list_by_namespace
  <2>2. service.type \in {"NodePort", "LoadBalancer"}
    <3>1. v \in ClustersOf("webhook-services")
      BY DEF ReviewInv, ViewsOK
    <3> QED BY <1>3, <3>1, ClustersAssumption
  <2>3. details \in service_services(service)
    BY <1>3 DEF service_services
  <2> QED BY <1>2, <2>1, <2>2, <2>3 DEF exposed_by_service
<1> QED BY <1>3

\* The services of an accepted webhook configuration were hidden at some point of its review,
\* whatever changed in between and in whatever order the namespaces were read.
THEOREM WebhooksHidden == Spec => []WebhooksStayHidden
<1>1. ReviewInv => WebhooksStayHidden
  <2> SUFFICES ASSUME ReviewInv, Accepted, policy = "webhook-services", object.kind \in webhook_kinds,
                      NEW s \in object.services
               PROVE  /\ \E v \in views : \A service \in v.services :
                           /\ service.namespace = s.namespace /\ service.name = s.name
                           /\ service.type # "ClusterIP"
                           => s.port \notin service.ports
                      /\ \E v \in views : \A ingress \in v.ingresses : ingress.namespace = s.namespace =>
                           [name |-> s.name, port |-> s.port] \notin ingress.backends
    BY DEF WebhooksStayHidden
  <2>1. webhook_questions(object, heard) = {} /\ answer = Answer(Accepts(object), object) /\ answer.allowed
    BY DEF ReviewInv, AnswerOK, Accepted, Answered, Questions, Validate
  <2>2. webhook_validate(object, heard)
    BY <2>1 DEF Accepts, Answer
  <2>3. ~Failed(heard) /\ find_webhook_services_exposed(object, heard) = {}
    BY <2>2 DEF webhook_validate
  <2>4. PICK i \in DOMAIN heard : heard[i].question.kind = "Ingress" /\ heard[i].question.namespace = s.namespace
    BY <2>1, <2>3, NamespacesAreListed
  <2>5. PICK j \in DOMAIN heard : heard[j].question.kind = "Service" /\ heard[j].question.namespace = s.namespace
    BY <2>1, <2>3, NamespacesAreListed
  <2> QED BY <2>3, <2>4, <2>5, IngressesHide, ServicesHide
<1> QED BY <1>1, ReviewCorrect, PTL

--------------------------------------------------------------------------------
\* high-risk-service-account: the reviews are over when none is left, or when one was allowed.
LEMMA SomeRuleIsFirst ==
  ASSUME NEW Q, Q # {}, \A q \in Q : q.rule \in Nat
  PROVE  \E q \in Q : \A other \in Q : q.rule <= other.rule
<1> DEFINE rules == {q.rule : q \in Q}
<1>1. PICK least \in rules : \A rule \in rules : least <= rule
  <2> rules \in SUBSET Nat /\ rules # {}
    OBVIOUS
  <2> HIDE DEF rules
  <2> QED BY SomeIsLeast
<1> QED BY <1>1

LEMMA AllRightsAreReviewed ==
  ASSUME ReviewInv, policy = "high-risk-service-account", Questions = {}, Extracted(object),
         needs_token(object), \A i \in DOMAIN heard : heard[i].answer # TRUE
  PROVE  build_subject_access_reviews(settings, object) \subseteq Reviewed(heard)
<1> DEFINE left == build_subject_access_reviews(settings, object) \ Reviewed(heard)
<1>1. {q \in left : \A other \in left : q.rule <= other.rule} = {}
  BY DEF Questions, high_risk_questions
<1>2. \A q \in left : q.rule \in Nat
  BY SettingsAssumption DEF ReviewInv, ConfigOK, build_subject_access_reviews
<1>3. left = {}
  BY <1>1, <1>2, SomeRuleIsFirst
<1> QED BY <1>3

\* The reviews the account got on the way to an accepted pod: each right that could be
\* reviewed was denied in some cluster the review saw.
THEOREM HighRiskRejected == Spec => []HighRiskAccountsAreRejected
<1>1. ReviewInv => HighRiskAccountsAreRejected
  <2> SUFFICES ASSUME ReviewInv, Accepted, policy = "high-risk-service-account",
                      PodSpecOf(object).automount # FALSE, NEW i \in DOMAIN settings.block_rules,
                      NEW right \in rights(settings.block_rules[i])
               PROVE  \/ \E v \in views : [account |-> service_account(object), right |-> right] \notin v.allowed
                      \/ \E j \in DOMAIN heard : heard[j].question.right = right /\ heard[j].answer = Error
    BY DEF HighRiskAccountsAreRejected, service_account
  <2> DEFINE q == [account |-> service_account(object), right |-> right, rule |-> i]
  <2>1. Questions = {} /\ answer = Answer(Accepts(object), object) /\ answer.allowed
    BY DEF ReviewInv, AnswerOK, Accepted, Answered, Validate
  <2>2. high_risk_validate(settings, object, heard)
    BY <2>1 DEF Accepts, Answer
  <2>3. Extracted(object) /\ needs_token(object) /\ \A j \in DOMAIN heard : heard[j].answer # TRUE
    BY <2>2 DEF high_risk_validate, needs_token
  <2>4. q \in build_subject_access_reviews(settings, object)
    <3> DEFINE p == [right |-> right, rule |-> i]
               pairs == UNION {{[right |-> r, rule |-> k] : r \in rights(settings.block_rules[k])} :
                                 k \in DOMAIN settings.block_rules}
    <3>1. p \in {[right |-> r, rule |-> i] : r \in rights(settings.block_rules[i])}
      OBVIOUS
    <3>2. p \in pairs
      BY <3>1
    <3>3. build_subject_access_reviews(settings, object)
            = {[account |-> service_account(object), right |-> x.right, rule |-> x.rule] : x \in pairs}
      BY DEF build_subject_access_reviews
    <3> HIDE DEF pairs
    <3> QED BY <3>2, <3>3
  <2>5. PICK j \in DOMAIN heard : heard[j].question = q
    BY <2>1, <2>3, <2>4, AllRightsAreReviewed DEF Reviewed
  <2>6. CASE heard[j].answer = Error
    BY <2>5, <2>6
  <2>7. CASE heard[j].answer # Error
    <3>1. PICK v \in views : heard[j].answer \in AnswersOf(v, q)
      BY <2>5, <2>7 DEF ReviewInv, HeardOK
    <3>2. heard[j].answer = can_i(v, q)
      BY <3>1 DEF AnswersOf
    <3>3. ~can_i(v, q)
      BY <2>3, <3>2, Zenon
    <3> QED BY <3>3 DEF can_i
  <2> QED BY <2>6, <2>7
<1> QED BY <1>1, ReviewCorrect, PTL

--------------------------------------------------------------------------------
\* The policies that copy labels: what they write is what one of the views shows.
Readers == {"project-labels", "namespace-labels", "context-aware-demo", "policyserver-mapper"}

LEMMA ReadIsSeen ==
  ASSUME ReviewInv, policy \in Readers, heard # <<>>, Read(heard) # Error
  PROVE  Read(heard) \in views
<1>1. PICK S : heard \in Seq(S)
  BY DEF ReviewInv, HeardOK
<1>2. 1 \in DOMAIN heard
  BY <1>1
<1>3. PICK v \in views : heard[1].answer \in AnswersOf(v, heard[1].question)
  BY <1>2 DEF ReviewInv, HeardOK, Read
<1>4. heard[1].answer = v
  BY <1>3 DEF AnswersOf, Readers
<1> QED BY <1>4 DEF Read

\* No call failed, so the first one did not.
LEMMA ReadWorked ==
  ASSUME ReviewInv, heard # <<>>, ~Failed(heard) PROVE Read(heard) # Error
<1>1. PICK S : heard \in Seq(S)
  BY DEF ReviewInv, HeardOK
<1>2. 1 \in DOMAIN heard
  BY <1>1
<1> QED BY <1>2 DEF Failed, Read

\* merge_labels writes the labels it gets and keeps the others.
LEMMA MergeCarries ==
  ASSUME NEW wanted, NEW before PROVE Carries(merge_labels(wanted, before), before, wanted)
  BY DEF Carries, merge_labels

LEMMA NothingCarries ==
  ASSUME NEW before PROVE Carries(before, before, [k \in {} |-> None])
  BY DEF Carries

LEMMA ProjectLabelsFollow ==
  ASSUME ReviewInv, Accepted, policy = "project-labels"
  PROVE  \E v \in views : Carries(answer.object.labels, object.labels, Wanted(v))
<1>1. /\ object # None /\ Questions = {} /\ answer = project_validate(settings, object, heard)
      /\ answer.allowed /\ Source \in views
      /\ object = [project |-> object.project, labels |-> object.labels]
  BY DEF ReviewInv, AnswerOK, ViewsOK, ShapesOK, Shaped, Accepted, Answered, Validate
<1> DEFINE local == NamesProject(object) /\ object.project[1] = "local"
<1>2. CASE ~local
  <2>1. answer.object = object
    BY <1>1, <1>2 DEF project_validate, Answer, NamesProject
  <2>2. project_questions(object, <<>>) = {}
    BY <1>2 DEF project_questions
  <2>3. Wanted(Source) = [k \in {} |-> None]
    BY <2>2 DEF Wanted
  <2> QED BY <1>1, <2>1, <2>3, NothingCarries
<1>3. CASE local
  <2>1. object.project # None
    BY <1>3 DEF NamesProject
  <2>2. heard # <<>>
    BY <1>1, <1>3 DEF Questions, project_questions, read_questions
  <2>3. /\ ~Failed(heard)
        /\ answer.object = [object EXCEPT !.labels = merge_labels(Read(heard).labels, @)]
    BY <1>1, <1>3, <2>1 DEF project_validate, Answer
  <2>4. Read(heard) \in views
    BY <2>2, <2>3, ReadIsSeen, ReadWorked DEF Readers
  <2>5. Wanted(Read(heard)) = Read(heard).labels
    <3>1. "get" \in project_questions(object, <<>>)
      BY <1>3 DEF project_questions, read_questions
    <3>2. project_questions(object, <<>>) # {}
      BY <3>1
    <3> QED BY <3>2 DEF Wanted
  <2>6. answer.object.labels = merge_labels(Read(heard).labels, object.labels)
    BY <1>1, <2>3
  <2> QED BY <2>4, <2>5, <2>6, MergeCarries
<1> QED BY <1>2, <1>3

LEMMA NamespaceLabelsFollow ==
  ASSUME ReviewInv, Accepted, policy = "namespace-labels"
  PROVE  \E v \in views :
           /\ Carries(answer.object.labels, object.labels, Wanted(v))
           /\ object.kind # "Pod" => Carries(answer.object.template, object.template, Wanted(v))
<1>1. /\ object # None /\ Questions = {} /\ answer = propagator_validate(settings, object, heard)
      /\ answer.allowed
      /\ object = [kind |-> object.kind, labels |-> object.labels, template |-> object.template]
  BY DEF ReviewInv, AnswerOK, ShapesOK, Shaped, Accepted, Answered, Validate
<1> DEFINE propagated == labelsToPropagate(settings, Read(heard).labels)
<1>2. heard # <<>>
  BY <1>1 DEF Questions, read_questions
<1>3. /\ ~Failed(heard)
      /\ answer.object = [object EXCEPT
                             !.labels = merge_labels(propagated, @),
                             !.template = IF object.kind = "Pod" THEN @ ELSE merge_labels(propagated, @)]
  BY <1>1 DEF propagator_validate, Answer
<1>4. Read(heard) \in views
  BY <1>2, <1>3, ReadIsSeen, ReadWorked DEF Readers
<1>5. Wanted(Read(heard)) = propagated
  <2>1. {l \in DOMAIN Read(heard).labels : l \in settings.propagatedLabels}
          = settings.propagatedLabels \intersect DOMAIN Read(heard).labels
    OBVIOUS
  <2> QED BY <2>1 DEF Wanted, labelsToPropagate
<1> HIDE DEF propagated
<1>6. /\ answer.object.labels = merge_labels(propagated, object.labels)
      /\ object.kind # "Pod" => answer.object.template = merge_labels(propagated, object.template)
  BY <1>1, <1>3
<1> QED BY <1>4, <1>5, <1>6, MergeCarries

LEMMA DemoLabelsFollow ==
  ASSUME ReviewInv, Accepted, policy = "context-aware-demo"
  PROVE  \E v \in views : Carries(answer.object.labels, object.labels, Wanted(v))
<1>1. /\ object # None /\ Questions = {} /\ answer = demo_validate(object, heard) /\ answer.allowed
      /\ object = [kind |-> object.kind, labels |-> object.labels]
  BY DEF ReviewInv, AnswerOK, ShapesOK, Shaped, Accepted, Answered, Validate
<1>2. /\ IsPod(object) /\ Read(heard) # Error
      /\ answer.object = [object EXCEPT !.labels = merge_labels(Read(heard).annotations, @)]
  BY <1>1 DEF demo_validate, Answer
<1>3. heard # <<>>
  BY <1>1, <1>2 DEF Questions, demo_questions
<1>4. Read(heard) \in views
  BY <1>2, <1>3, ReadIsSeen DEF Readers
<1>5. Wanted(Read(heard)) = Read(heard).annotations
  BY DEF Wanted
<1>6. answer.object.labels = merge_labels(Read(heard).annotations, object.labels)
  BY <1>1, <1>2
<1> QED BY <1>4, <1>5, <1>6, MergeCarries

LEMMA MapperFollows ==
  ASSUME ReviewInv, Accepted, policy = "policyserver-mapper"
  PROVE  \E v \in views : v.policyServer # None /\ v.policyServer = answer.object.spec.policyServer
<1>1. /\ object # None /\ Questions = {} /\ answer = mapper_validate(object, heard) /\ answer.allowed
      /\ object = [spec |-> object.spec]
      /\ object.spec # None => object.spec = [policyServer |-> object.spec.policyServer]
  BY DEF ReviewInv, AnswerOK, ShapesOK, Shaped, Accepted, Answered, Validate
<1>2. /\ ~Failed(heard) /\ object.spec # None /\ Read(heard).policyServer # None
      /\ answer.object = [object EXCEPT !.spec.policyServer = Read(heard).policyServer]
  BY <1>1 DEF mapper_validate, Answer
<1>3. heard # <<>>
  BY <1>1 DEF Questions, read_questions
<1>4. Read(heard) \in views
  BY <1>2, <1>3, ReadIsSeen, ReadWorked DEF Readers
<1>5. answer.object.spec.policyServer = Read(heard).policyServer
  BY <1>1, <1>2
<1> QED BY <1>2, <1>4, <1>5

\* What a policy writes comes from one view of its review, whatever the cache and the cluster
\* did in between, and nothing else of the object is lost.
THEOREM LabelsFollow == Spec => []PropagatedLabelsFollow
<1>1. ReviewInv => PropagatedLabelsFollow
  <2> SUFFICES ASSUME ReviewInv, Accepted PROVE PropagatedLabelsFollow
    BY DEF PropagatedLabelsFollow
  <2>1. CASE policy = "project-labels"
    BY <2>1, ProjectLabelsFollow DEF PropagatedLabelsFollow
  <2>2. CASE policy = "namespace-labels"
    BY <2>2, NamespaceLabelsFollow DEF PropagatedLabelsFollow
  <2>3. CASE policy = "context-aware-demo"
    BY <2>3, DemoLabelsFollow DEF PropagatedLabelsFollow
  <2>4. CASE policy = "policyserver-mapper"
    BY <2>4, MapperFollows DEF PropagatedLabelsFollow
  <2>5. CASE policy \notin Readers
    BY <2>5 DEF Readers, PropagatedLabelsFollow
  <2> QED BY <2>1, <2>2, <2>3, <2>4, <2>5 DEF Readers
<1> QED BY <1>1, ReviewCorrect, PTL
--------------------------------------------------------------------------------
\* The defaults of valid settings are between the bounds they are given with.
LEMMA DefaultsAreWithin ==
  ASSUME NEW b, in_order(b), \A i \in 1..6 : b[Chain[i]] \in Nat
  PROVE  /\ b.defaultLimit # 0 => within(b.defaultLimit, b.minLimit, b.maxLimit)
         /\ b.defaultRequest # 0 => within(b.defaultRequest, b.minRequest, b.maxRequest)
<1>1. /\ Chain[1] = "minRequest" /\ Chain[2] = "defaultRequest" /\ Chain[3] = "maxRequest"
      /\ Chain[4] = "minLimit" /\ Chain[5] = "defaultLimit" /\ Chain[6] = "maxLimit"
  BY DEF Chain
<1>2. /\ b.minRequest \in Nat /\ b.defaultRequest \in Nat /\ b.maxRequest \in Nat
      /\ b.minLimit \in Nat /\ b.defaultLimit \in Nat /\ b.maxLimit \in Nat
  BY <1>1
<1>3. /\ b.minRequest # 0 /\ b.defaultRequest # 0 => b.minRequest <= b.defaultRequest
      /\ b.defaultRequest # 0 /\ b.maxRequest # 0 => b.defaultRequest <= b.maxRequest
  <2>1. 1 \in 1..6 /\ 2 \in 1..6 /\ 3 \in 1..6 /\ 1 < 2 /\ 2 < 3
    OBVIOUS
  <2> QED BY <1>1, <2>1 DEF in_order
<1>4. /\ b.minLimit # 0 /\ b.defaultLimit # 0 => b.minLimit <= b.defaultLimit
      /\ b.defaultLimit # 0 /\ b.maxLimit # 0 => b.defaultLimit <= b.maxLimit
  <2>1. 4 \in 1..6 /\ 5 \in 1..6 /\ 6 \in 1..6 /\ 4 < 5 /\ 5 < 6
    OBVIOUS
  <2> QED BY <1>1, <2>1 DEF in_order
<1> QED BY <1>2, <1>3, <1>4 DEF within

\* Settings are valid only if the quantities of each resource are in order.
LEMMA ValidInOrder ==
  ASSUME NEW s, resources_settings_valid(s), NEW r \in Resource, s[r] # None, ~shouldIgnoreValues(s[r])
  PROVE  in_order(s[r])
<1>1. config_error(s[r]) \in {None, "AllValuesAreZeroError"}
  BY DEF resources_settings_valid, Resource
<1>2. ~allValuesAreZero(s[r])
  BY DEF shouldIgnoreValues
<1> QED BY <1>1, <1>2, NoneAssumption DEF config_error

\* What validateAndAdjustContainer accepts fits, as it is filled in.
LEMMA AdjustedFits ==
  ASSUME NEW s, resources_settings_valid(s), NEW r \in Resource,
         s[r] # None => \A i \in 1..6 : s[r][Chain[i]] \in Nat,
         NEW c, c = [image |-> c.image, limits |-> c.limits, requests |-> c.requests],
         c.limits = [x \in Resource |-> c.limits[x]], c.requests = [x \in Resource |-> c.requests[x]],
         validateAndAdjustContainer(c, s)
  PROVE  LET a == adjusted(c, s) IN
         /\ s[r] # None =>
              IF shouldIgnoreValues(s[r]) THEN a.limits[r] # None /\ a.requests[r] # None
              ELSE /\ a.limits[r] = None => s[r].defaultLimit = 0
                   /\ a.requests[r] = None => s[r].defaultRequest = 0
                   /\ a.limits[r] # None => within(a.limits[r], s[r].minLimit, s[r].maxLimit)
                   /\ a.requests[r] # None => within(a.requests[r], s[r].minRequest, s[r].maxRequest)
         /\ a # c /\ a.limits[r] # None /\ a.requests[r] # None => a.requests[r] <= a.limits[r]
<1> DEFINE a == adjusted(c, s)
<1>1. /\ a.limits[r] = IF c.limits[r] = None /\ Constrained(s, r) /\ s[r].defaultLimit # 0
                         THEN s[r].defaultLimit ELSE c.limits[r]
      /\ a.requests[r] = IF c.requests[r] = None /\ s[r] # None /\ s[r].defaultRequest # 0
                           THEN s[r].defaultRequest ELSE c.requests[r]
  BY DEF adjusted
<1>2. a # c => (a.limits[r] # None /\ a.requests[r] # None => a.limits[r] >= a.requests[r])
  BY DEF validateAndAdjustContainer, isResourceLimitGreaterThanRequest
<1>3. CASE s[r] = None
  BY <1>2, <1>3
<1>4. CASE s[r] # None /\ shouldIgnoreValues(s[r])
  <2>1. c.limits[r] # None /\ c.requests[r] # None
    BY <1>4 DEF validateAndAdjustContainer, validateContainerCheckPresence, missingResourceQuantity
  <2> QED BY <1>1, <1>2, <1>4, <2>1
<1>5. CASE s[r] # None /\ ~shouldIgnoreValues(s[r])
  <2>1. Constrained(s, r)
    BY <1>5 DEF Constrained
  <2>2. /\ c.limits[r] # None => within(c.limits[r], s[r].minLimit, s[r].maxLimit)
        /\ c.requests[r] # None => within(c.requests[r], s[r].minRequest, s[r].maxRequest)
    BY <2>1 DEF validateAndAdjustContainer, validateContainerConstraints, validateContainerResourceLimits,
                validateContainerResourceRequests, missingResourceQuantity
  <2>3. in_order(s[r])
    BY <1>5, ValidInOrder
  <2>4. /\ s[r].defaultLimit # 0 => within(s[r].defaultLimit, s[r].minLimit, s[r].maxLimit)
        /\ s[r].defaultRequest # 0 => within(s[r].defaultRequest, s[r].minRequest, s[r].maxRequest)
    BY <1>5, <2>3, DefaultsAreWithin
  <2>5. s[r].defaultLimit # None /\ s[r].defaultRequest # None
    <3>1. Chain[2] = "defaultRequest" /\ Chain[5] = "defaultLimit" /\ 2 \in 1..6 /\ 5 \in 1..6
      BY DEF Chain
    <3>2. s[r][Chain[2]] \in Nat /\ s[r][Chain[5]] \in Nat
      BY <1>5, <3>1
    <3> QED BY <3>1, <3>2, NoneAssumption
  <2> QED BY <1>1, <1>2, <1>5, <2>1, <2>2, <2>4, <2>5
<1> QED BY <1>3, <1>4, <1>5

LEMMA ResourcesFollow ==
  ASSUME ReviewInv, Accepted, policy = "container-resources",
         NEW a \in answer.object.containers, NEW r \in Resource
  PROVE  /\ ~shouldSkipContainer(a.image, settings.ignoreImages) /\ settings[r] # None =>
              IF shouldIgnoreValues(settings[r]) THEN a.limits[r] # None /\ a.requests[r] # None
              ELSE /\ a.limits[r] = None => settings[r].defaultLimit = 0
                   /\ a.requests[r] = None => settings[r].defaultRequest = 0
                   /\ a.limits[r] # None => within(a.limits[r], settings[r].minLimit, settings[r].maxLimit)
                   /\ a.requests[r] # None => within(a.requests[r], settings[r].minRequest, settings[r].maxRequest)
         /\ a \notin object.containers /\ a.limits[r] # None /\ a.requests[r] # None =>
              a.requests[r] <= a.limits[r]
<1>1. /\ resources_settings_valid(settings) /\ LimitedObject(object)
      /\ answer = resources_validate(settings, object) /\ answer.allowed
  BY DEF ReviewInv, ConfigOK, ShapesOK, AnswerOK, Accepted, Answered, SettingsValid, Shaped, Validate
<1>2. settings[r] # None => \A i \in 1..6 : settings[r][Chain[i]] \in Nat
  BY SettingsAssumption DEF ReviewInv, ConfigOK
<1>3. /\ validatePodSpec(settings, object.containers)
      /\ answer.object.containers = {adjusted_container(settings, c) : c \in object.containers}
  BY <1>1 DEF resources_validate, Answer, LimitedObject
<1>4. PICK c \in object.containers : a = adjusted_container(settings, c)
  BY <1>3
<1>5. /\ c = [image |-> c.image, limits |-> c.limits, requests |-> c.requests]
      /\ c.limits = [x \in Resource |-> c.limits[x]] /\ c.requests = [x \in Resource |-> c.requests[x]]
  BY <1>1 DEF LimitedObject
<1>6. a.image = c.image
  BY <1>4, <1>5, AdjustedShape
<1>7. CASE shouldSkipContainer(c.image, settings.ignoreImages)
  BY <1>4, <1>6, <1>7 DEF adjusted_container
<1>8. CASE ~shouldSkipContainer(c.image, settings.ignoreImages)
  <2>1. validateAndAdjustContainer(c, settings)
    BY <1>3, <1>8 DEF validatePodSpec
  <2>2. a = adjusted(c, settings) /\ (a \notin object.containers => a # c)
    BY <1>4, <1>8 DEF adjusted_container
  <2> QED BY <1>1, <1>2, <1>5, <2>1, <2>2, AdjustedFits
<1> QED BY <1>7, <1>8

\* What container-resources accepts has limits and requests within the bounds of its settings,
\* the defaults it fills in included, and no request above a limit where it filled one in.
THEOREM ResourcesAreFitted == Spec => []ResourcesFit
<1>1. ReviewInv => ResourcesFit
  <2> SUFFICES ASSUME ReviewInv, Accepted, policy = "container-resources" PROVE ResourcesFit
    BY DEF ResourcesFit
  <2> QED BY ResourcesFollow DEF ResourcesFit
<1> QED BY <1>1, ReviewCorrect, PTL
================================================================================
