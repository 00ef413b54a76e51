---------------------------- MODULE ContextPolicies ----------------------------
(***************************************************************************)
(* The policies that read the cluster before they decide:                  *)
(* high-risk-service-account asks what an account may do,                  *)
(* do-not-expose-admission-controller-webhook-services lists Ingresses and *)
(* Services, rancher-project-quotas-namespace-validator and                *)
(* rancher-project-propagate-labels get the project of a namespace, and    *)
(* namespace-label-propagator, context-aware-demo and                      *)
(* ns-policyserver-mapper the namespace of an object.                      *)
(*                                                                         *)
(* heard is the sequence of [question, answer] of the request so far, an   *)
(* answer Error if the call failed.  Labels and annotations are functions  *)
(* from their keys to their values.                                        *)
(***************************************************************************)
EXTENDS PodChecks, TLC

\* The first error of a call ends the evaluation with an error, which rejects.
Failed(heard) == \E i \in DOMAIN heard : heard[i].answer = Error

\* A policy that reads one resource.
read_questions(heard) == IF heard = <<>> THEN {"get"} ELSE {}
Read(heard) == heard[1].answer

--------------------------------------------------------------------------------
\* high-risk-service-account.  A review is of an account and of one right [namespace, group,
\* resource, verb]; the wildcard is a verb like the others.
Verbs == {"*", "create", "delete", "get", "list", "proxy", "update", "watch", "patch",
          "deletecollection"}

Rule(in, groups, resources, verbs) ==
  [namespace |-> in, groups |-> groups, resources |-> resources, verbs |-> verbs]

rule_valid(rule) ==
  /\ rule.groups # {} /\ rule.resources # {} /\ rule.verbs # {}
  /\ rule.verbs \subseteq Verbs

high_risk_settings_valid(settings) ==
  /\ settings.block_rules # <<>>
  /\ \A i \in DOMAIN settings.block_rules : rule_valid(settings.block_rules[i])

rights(rule) ==
  {[namespace |-> rule.namespace, group |-> group, resource |-> resource, verb |-> verb] :
     group \in rule.groups, resource \in rule.resources, verb \in rule.verbs}

\* A pod without spec counts as one with the default spec.
PodSpecOf(object) == IF object.spec = None THEN EmptySpec ELSE object.spec

service_account(object) ==
  LET account == PodSpecOf(object).serviceAccount IN
  [namespace |-> object.namespace, name |-> IF account = None THEN "default" ELSE account]

needs_token(object) == PodSpecOf(object).automount # FALSE

build_subject_access_reviews(settings, object) ==
  {[account |-> service_account(object), right |-> p.right, rule |-> p.rule] :
     p \in UNION {{[right |-> right, rule |-> i] : right \in rights(settings.block_rules[i])} :
                    i \in DOMAIN settings.block_rules}}

Reviewed(heard) == {heard[i].question : i \in DOMAIN heard}

\* Mutant: the account is cleared by the first rule it has no right of.
first_rule_only(settings, object, heard) ==
  IF heard = <<>> /\ Extracted(object) /\ needs_token(object)
    THEN {q \in build_subject_access_reviews(settings, object) : q.rule = 1}
    ELSE {}

\* One review after the other in the order of the rules, until one is allowed.
high_risk_questions(settings, object, heard) ==
  IF ~Extracted(object) \/ ~needs_token(object) \/ \E i \in DOMAIN heard : heard[i].answer = TRUE
    THEN {}
    ELSE LET left == build_subject_access_reviews(settings, object) \ Reviewed(heard) IN
         {q \in left : \A other \in left : q.rule <= other.rule}

\* Some reviews may fail, not all of them.
high_risk_validate(settings, object, heard) ==
  /\ Extracted(object)
  /\ needs_token(object) =>
       /\ \A i \in DOMAIN heard : heard[i].answer # TRUE
       /\ \E i \in DOMAIN heard : heard[i].answer # Error

can_i(cluster, review) ==
  [account |-> review.account, right |-> review.right] \in cluster.allowed

--------------------------------------------------------------------------------
\* do-not-expose-admission-controller-webhook-services.  A port that an Ingress gives by name
\* is None.
ServiceDetails(in, name, port_number) == [namespace |-> in, name |-> name, port |-> port_number]

webhook_kinds == {"ValidatingWebhookConfiguration", "MutatingWebhookConfiguration"}

webhook_services(object) ==
  {ServiceDetails(reference.namespace, reference.name, reference.port) : reference \in object.services}

ingress_services(ingress) ==
  {ServiceDetails(ingress.namespace, backend.name, backend.port) : backend \in ingress.backends}

service_services(service) ==
  {ServiceDetails(service.namespace, service.name, port) : port \in service.ports}

\* Mutant: a Service that a load balancer exposes is taken for one of the cluster.
node_ports_only(services) ==
  UNION {service_services(s) : s \in {known \in services : known.type = "NodePort"}}

exposed_by_service(services) ==
  UNION {service_services(s) : s \in {known \in services : known.type \in {"NodePort", "LoadBalancer"}}}

exposed_by_ingress(ingresses) == UNION {ingress_services(i) : i \in ingresses}

\* Namespace by namespace, first the Ingresses, then the Services.
webhook_questions(object, heard) ==
  IF object.kind \notin webhook_kinds \/ Failed(heard) THEN {}
  ELSE LET asked(kind) == {heard[i].question.namespace :
                             i \in {j \in DOMAIN heard : heard[j].question.kind = kind}}
           halfway == asked("Ingress") \ asked("Service") IN
       IF halfway # {}
         THEN {[kind |-> "Service", namespace |-> namespace] : namespace \in halfway}
         ELSE {[kind |-> "Ingress", namespace |-> service.namespace] :
                 service \in {s \in webhook_services(object) : s.namespace \notin asked("Ingress")}}

list_by_namespace(cluster, q) ==
  {r \in (IF q.kind = "Ingress" THEN cluster.ingresses ELSE cluster.services) :
     r.namespace = q.namespace}

find_webhook_services_exposed(object, heard) ==
  UNION {webhook_services(object) \intersect
           (IF heard[i].question.kind = "Ingress" THEN exposed_by_ingress(heard[i].answer)
            ELSE exposed_by_service(heard[i].answer)) : i \in DOMAIN heard}

webhook_validate(object, heard) ==
  object.kind \in webhook_kinds =>
    ~Failed(heard) /\ find_webhook_services_exposed(object, heard) = {}

--------------------------------------------------------------------------------
\* rancher-project-quotas-namespace-validator.  A namespace names its project by a sequence
\* of tokens, two if it is well formed; a limit that is not set counts as 0.
Amount(quantity) == IF quantity = None THEN 0 ELSE quantity

\* Mutant: what other namespaces use of the project is forgotten.
checkLimitVsQuota(nsLimit, prjLimit, prjUsed) == Amount(nsLimit) <= Amount(prjLimit)

checkLimitVsAvailableQuota(nsLimit, prjLimit, prjUsed) ==
  Amount(nsLimit) <= Amount(prjLimit) - Amount(prjUsed)

validateQuotas(quota, limits) ==
  quota # None =>
    \A resource \in DOMAIN quota.limit :
      checkLimitVsAvailableQuota(limits[resource], quota.limit[resource], quota.used[resource])

NamesProject(object) == object.project # None /\ Len(object.project) = 2

parseProjectIDAnnotation(object) == NamesProject(object) /\ "" \notin ToSet(object.project)

quotas_questions(object, heard) ==
  IF parseProjectIDAnnotation(object) THEN read_questions(heard) ELSE {}

quotas_validate(object, heard) ==
  object.project # None =>
    /\ parseProjectIDAnnotation(object)
    /\ ~Failed(heard)
    /\ validateQuotas(Read(heard).quota, object.limits)

--------------------------------------------------------------------------------
\* Mutant: a label the object has is kept.
add_labels(propagated, labels) == labels @@ propagated

\* rancher-project-propagate-labels.  The labels of a project are those that start with
\* propagate, without it.
merge_labels(propagated, labels) ==
  [k \in DOMAIN propagated \union DOMAIN labels |->
     IF k \in DOMAIN propagated THEN propagated[k] ELSE labels[k]]

FailureMode == {"Ignore", "Fail"}

project_settings_valid(settings) == settings.downstream_cluster_failure_mode \in FailureMode

project_questions(object, heard) ==
  IF NamesProject(object) /\ object.project[1] = "local" THEN read_questions(heard) ELSE {}

project_validate(settings, object, heard) ==
  CASE object.project = None -> Answer(TRUE, object)
    [] object.project # None /\ ~NamesProject(object) -> Answer(FALSE, object)
    [] NamesProject(object) /\ object.project[1] # "local" ->
         Answer(settings.downstream_cluster_failure_mode = "Ignore", object)
    [] OTHER ->
         IF Failed(heard) THEN Answer(FALSE, object)
         ELSE Answer(TRUE, [object EXCEPT !.labels = merge_labels(Read(heard).labels, @)])

\* namespace-label-propagator: the labels the settings name, on the object and its template
labelsToPropagate(settings, namespaceLabels) ==
  [label \in settings.propagatedLabels \intersect DOMAIN namespaceLabels |-> namespaceLabels[label]]

propagator_validate(settings, object, heard) ==
  IF Failed(heard) \/ object.kind \notin PodKinds THEN Answer(FALSE, object)
  ELSE LET propagated == labelsToPropagate(settings, Read(heard).labels) IN
       Answer(TRUE, [object EXCEPT
                       !.labels = merge_labels(propagated, @),
                       !.template = IF object.kind = "Pod" THEN @ ELSE merge_labels(propagated, @)])

\* context-aware-demo: annotations of the namespace become labels of the pod.  Listing the
\* Secrets changes nothing in the answer, whether it works or not.
DemoSettings == [evil : BOOLEAN]

demo_questions(settings, object, heard) ==
  IF ~IsPod(object) THEN {}
  ELSE IF heard = <<>> THEN {"get"}
  ELSE IF settings.evil /\ Len(heard) = 1 /\ Read(heard) # Error THEN {"steal_secrets"} ELSE {}

demo_validate(object, heard) ==
  IF ~IsPod(object) \/ Read(heard) = Error THEN Answer(FALSE, object)
  ELSE Answer(TRUE, [object EXCEPT !.labels = merge_labels(Read(heard).annotations, @)])

\* Mutant: a policy that names a server already is refused.
mapper_once(object, heard) ==
  IF Failed(heard) \/ object.spec \notin {None, [policyServer |-> None]} \/ Read(heard).policyServer = None
    THEN Answer(FALSE, object)
    ELSE Answer(TRUE, [object EXCEPT !.spec = [policyServer |-> Read(heard).policyServer]])

\* ns-policyserver-mapper: the policy runs on the server its namespace names.
mapper_validate(object, heard) ==
  IF Failed(heard) \/ object.spec = None \/ Read(heard).policyServer = None
    THEN Answer(FALSE, object)
    ELSE Answer(TRUE, [object EXCEPT !.spec.policyServer = Read(heard).policyServer])
================================================================================
