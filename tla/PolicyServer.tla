------------------------------ MODULE PolicyServer ------------------------------
(***************************************************************************)
(* One policy that the policy server runs: its settings are validated when *)
(* it is loaded, then it answers one request after the other.  A policy    *)
(* that reads the cluster makes its calls one by one, while the cluster    *)
(* changes and the answers of the server's cache lag behind; what it       *)
(* accepts is stored, as it was sent or as the policy changed it, and may  *)
(* be sent again.                                                          *)
(***************************************************************************)
EXTENDS ImageCve, ContextPolicies, ObjectPolicies, ContainerResources

CONSTANTS
  Scenarios,     \* [policy -> [settings, objects, clusters, requests, moves]]: what a policy is
                 \* loaded with and meets, and the bounds on its requests and on the changes
                 \* of the cluster
  Rules,         \* the table of removed versions
  Metadata       \* the rules of the metadata.yml of deprecated-api-versions

ContainersOf(o) == IF o.spec = None THEN {} ELSE o.spec.containers

ASSUME MetadataIsCurrent == check_metadata(Metadata, Rules)

Policy == DOMAIN Scenarios

SettingsOf(p) == IF p \in Policy THEN Scenarios[p].settings ELSE {}
ObjectsOf(p) == IF p \in Policy THEN Scenarios[p].objects ELSE {}
ClustersOf(p) == IF p \in Policy THEN Scenarios[p].clusters ELSE {}

\* The fields of what policies are configured with and asked about, where a proof needs them
ASSUME SettingsAssumption ==
  /\ \A p \in {"annotations", "labels", "environment-variable"} : \A s \in SettingsOf(p) :
       s = [criteria |-> s.criteria, values |-> s.values] /\ s.criteria \in Criteria
  /\ \A s \in SettingsOf("trusted-repos") :
       /\ s = [registries |-> s.registries, tags |-> s.tags, images |-> s.images]
       /\ s.images = [allow |-> s.images.allow, reject |-> s.images.reject]
       /\ \A m \in s.images.allow \union s.images.reject :
            m.glob \in BOOLEAN /\ m.image.path \in Seq(STRING)
  /\ \A s \in SettingsOf("high-risk-service-account") : DOMAIN s.block_rules \subseteq Nat
  /\ \A s \in SettingsOf("container-resources") : \A r \in Resource :
       s[r] # None => \A i \in 1..6 : s[r][Chain[i]] \in Nat
  /\ \A s \in SettingsOf("seccomp") : \A profile \in s.allowed_profiles :
       profile.type = "localhost" => profile.path \in Seq(STRING)
  /\ \A s \in SettingsOf("verify-image-signatures") :
       /\ s.signatures \in Seq(ToSet(s.signatures))
       /\ \A entry \in ToSet(s.signatures) : entry.signers \in Seq(STRING)
  /\ \A s \in SettingsOf("image-cve") :
       /\ s.strategy \in {"digest", "tag"}
       /\ s.cvss_score # None => s.cvss_score.max_count \in Nat
       /\ s.max_severity # None => \A severity \in Severity : s.max_severity[severity] # None =>
            {s.max_severity[severity].total, s.max_severity[severity].totalWithoutFixes}
              \subseteq Nat \union {None}
  /\ \A s \in SettingsOf("deprecated-api-versions") : s.kubernetes_version \in Nat

\* What container-resources is asked about
LimitedObject(o) ==
  /\ o = [kind |-> o.kind, containers |-> o.containers]
  /\ \A c \in o.containers :
       /\ c = [image |-> c.image, limits |-> c.limits, requests |-> c.requests]
       /\ c.limits = [r \in Resource |-> c.limits[r]] /\ c.requests = [r \in Resource |-> c.requests[r]]

\* The policies that look at one pod
PodPolicies ==
  {"host-namespaces", "pod-privileged", "readonly-root", "proc-mount", "apparmor", "flexvolume",
   "share-pid", "seccomp", "probes", "env-secrets", "environment-variable", "volume-mounts",
   "trusted-repos"}

\* The fields of an object with a pod spec
PodObject(o) ==
  /\ o = [kind |-> o.kind, annotations |-> o.annotations, spec |-> o.spec]
  /\ o.spec # None =>
       /\ o.spec = [field \in DOMAIN EmptySpec |-> o.spec[field]]
       /\ \A c \in o.spec.containers : c = [field \in DOMAIN EmptyContainer |-> c[field]]

\* The pod with one of its containers as the only one
AsApp(c) == [c EXCEPT !.role = "app"]
Alone(o, c) == [o EXCEPT !.spec.containers = {AsApp(c)}]

\* What these policies are asked about
CheckedPod(o) == PodObject(o) /\ \A c \in ContainersOf(o) : Alone(o, c).spec # None

\* The name of an image, which is one with any digest that has signatures
SignedDigests == UNION {DOMAIN c.signed : c \in ClustersOf("verify-image-signatures")}

WithDigest(image, digest) ==
  [registry |-> image.registry, path |-> image.path, tag |-> image.tag, digest |-> digest]

ImageName(image) ==
  /\ image = WithDigest(image, image.digest)
  /\ \A digest \in SignedDigests : WithDigest(image, digest) # None

\* What verify-image-signatures is asked about
SignedPod(o) ==
  /\ PodObject(o)
  /\ o.spec # None => Extracted(o)
  /\ \A c \in ContainersOf(o) : c.image # None => ImageName(c.image)

ASSUME NoneAssumption ==
  /\ None \notin Nat /\ None \notin {Error, "order", "ghcr.io"} \union ImageValidationError
  /\ None \notin {[policyServer |-> c.policyServer] : c \in ClustersOf("policyserver-mapper")}

ASSUME ObjectsAssumption ==
  /\ \A p \in PodPolicies : \A o \in ObjectsOf(p) : CheckedPod(o)
  /\ \A o \in ObjectsOf("environment-variable") : \A c \in ContainersOf(o) : c.role \in Role
  /\ \A o \in ObjectsOf("trusted-repos") :
       /\ o.spec # None => Extracted(o)
       /\ \A c \in ContainersOf(o) : c.image # None => c.image.path \in Seq(STRING)
  /\ \A o \in ObjectsOf("verify-image-signatures") : SignedPod(o)
  /\ \A o \in ObjectsOf("image-cve") :
       /\ o.spec # None => Extracted(o)
       /\ Error \notin {c.image : c \in ContainersOf(o)}
       /\ \A c \in ContainersOf(o), s \in SettingsOf("image-cve") :
            c.image # None => TagSelector(s, c.image).name # None
  /\ \A o \in ObjectsOf("project-quotas"), c \in ClustersOf("project-quotas") :
       c.quota # None => \A r \in DOMAIN c.quota.limit : Amount(o.limits[r]) \in Nat
  /\ \A o \in ObjectsOf("storage-class") : o = [kind |-> o.kind, storageClass |-> o.storageClass]
  /\ \A o \in ObjectsOf("project-labels") : o = [project |-> o.project, labels |-> o.labels]
  /\ \A o \in ObjectsOf("namespace-labels") :
       o = [kind |-> o.kind, labels |-> o.labels, template |-> o.template]
  /\ \A o \in ObjectsOf("psa-label-enforcer") : o = [kind |-> o.kind, labels |-> o.labels]
  /\ \A o \in ObjectsOf("context-aware-demo") : o = [kind |-> o.kind, labels |-> o.labels]
  /\ \A o \in ObjectsOf("policyserver-mapper") :
       o = [spec |-> o.spec]
       /\ (o.spec # None => o.spec = [policyServer |-> o.spec.policyServer])
  /\ \A o \in ObjectsOf("container-resources") : LimitedObject(o)

\* versions.yaml names a kind again only to say the same of it.
ASSUME RulesAssumption ==
  \A i, j \in DOMAIN Rules :
    /\ DOMAIN Rules \subseteq Nat /\ {Rules[i].deprecated_in, Rules[i].removed_in} \subseteq Nat \union {None}
    /\ Rules[i].group = Rules[j].group /\ Rules[i].version = Rules[j].version /\ Rules[i].kind = Rules[j].kind
       => Rules[i].deprecated_in = Rules[j].deprecated_in /\ Rules[i].removed_in = Rules[j].removed_in

ASSUME ClustersAssumption ==
  /\ \A p \in Policy : Error \notin ClustersOf(p)
  /\ \A c \in ClustersOf("webhook-services") : \A s \in c.services :
       s.type \in {"ClusterIP", "NodePort", "LoadBalancer"}

\* A project has a quota, what may be used and is used of it, or none.
ASSUME QuotasAssumption ==
  \A c \in ClustersOf("project-quotas") :
    /\ c = [quota |-> c.quota]
    /\ c.quota # None =>
         /\ c.quota = [limit |-> c.quota.limit, used |-> c.quota.used]
         /\ \A r \in DOMAIN c.quota.limit : Amount(c.quota.limit[r]) \in Nat

\* A report is finite, and none is about an image that has a name for its digest.
ASSUME ReportsAssumption ==
  \A c \in ClustersOf("image-cve") : \A report \in c.reports :
    /\ IsFiniteSet(found(report))
    /\ \A o \in ObjectsOf("image-cve") : report.digest \notin {d.image : d \in ContainersOf(o)}

\* Nothing to read in the cluster
NoCluster == [none |-> None]

VARIABLES
  policy, settings,
  server,      \* "new", "loaded" or "refused"
  cluster,     \* what the policy may read
  cache,       \* the cluster as the policy server's cache has it
  object,      \* the object under review, None between two requests
  heard,       \* the calls of this review and their answers
  answer,      \* the answer to the request, None before it
  stored,      \* the objects that were stored
  views,       \* history: what the reads of this review could see
  outdated,    \* history: a namespace was stored on a quota that was out of date
  requests, moves

vars == <<policy, settings, server, cluster, cache, object, heard, answer, stored, views,
          outdated, requests, moves>>
config == <<policy, settings, server>>
review == <<object, heard, answer>>

--------------------------------------------------------------------------------
\* validate_settings of each policy
SettingsValid ==
  CASE policy = "host-namespaces" -> host_settings_valid(settings)
    [] policy = "flexvolume" -> flexvolume_settings_valid(settings)
    [] policy = "seccomp" -> seccomp_settings_valid(settings)
    [] policy = "probes" -> probes_settings_valid(settings)
    [] policy = "annotations" -> annotations_settings_valid(settings)
    [] policy = "labels" -> labels_settings_valid(settings)
    [] policy = "environment-variable" -> environment_settings_valid(settings)
    [] policy = "volume-mounts" -> volume_settings_valid(settings)
    [] policy = "trusted-repos" -> repos_settings_valid(settings)
    [] policy = "verify-image-signatures" -> signatures_settings_valid(settings)
    [] policy = "image-cve" -> cve_settings_valid(settings)
    [] policy = "high-risk-service-account" -> high_risk_settings_valid(settings)
    [] policy = "project-labels" -> project_settings_valid(settings)
    [] policy = "psa-label-enforcer" -> psa_settings_valid(settings)
    [] policy = "storage-class" -> storage_settings_valid(settings)
    [] policy = "deprecated-api-versions" -> versions_settings_valid(settings)
    [] policy = "raw-validation" -> raw_settings_valid(settings)
    [] policy = "sleeping" -> sleeping_settings_valid(settings)
    [] policy = "container-resources" -> resources_settings_valid(settings)
    [] OTHER -> TRUE

\* The calls a policy may make next: none once it can answer.
Questions ==
  CASE policy = "verify-image-signatures" -> signature_questions(settings, object, heard)
    [] policy = "image-cve" -> cve_questions(settings, object, heard)
    [] policy = "high-risk-service-account" -> high_risk_questions(settings, object, heard)
    [] policy = "webhook-services" -> webhook_questions(object, heard)
    [] policy = "project-quotas" -> quotas_questions(object, heard)
    [] policy = "project-labels" -> project_questions(object, heard)
    [] policy = "context-aware-demo" -> demo_questions(settings, object, heard)
    [] policy \in {"namespace-labels", "policyserver-mapper"} -> read_questions(heard)
    [] OTHER -> {}

\* The projects of Rancher are read from the API server, all else through the cache.
Source == IF policy \in {"project-quotas", "project-labels"} THEN cluster ELSE cache

HostAnswers(q) ==
  CASE policy = "verify-image-signatures" -> {verify(settings, Source, q)}
    [] policy = "image-cve" -> cve_answers(settings, Source, object, q)
    [] policy = "high-risk-service-account" -> {can_i(Source, q)}
    [] policy = "webhook-services" -> {list_by_namespace(Source, q)}
    [] OTHER -> {Source}

\* What a policy that changes nothing accepts
Accepts(o) ==
  CASE policy = "host-namespaces" -> host_namespaces_validate(settings, o)
    [] policy = "pod-privileged" -> pod_privileged_validate(settings, o)
    [] policy = "readonly-root" -> readonly_validate(o)
    [] policy = "proc-mount" -> proc_mount_validate(settings, o)
    [] policy = "apparmor" -> apparmor_validate(settings, o)
    [] policy = "flexvolume" -> flexvolume_validate(settings, o)
    [] policy = "share-pid" -> share_pid_validate(o)
    [] policy = "seccomp" -> seccomp_validate(settings, o)
    [] policy = "probes" -> probes_validate(settings, o)
    [] policy = "env-secrets" -> secrets_validate(o)
    [] policy = "annotations" -> annotations_validate(settings, o)
    [] policy = "labels" -> labels_validate(settings, o)
    [] policy = "environment-variable" -> environment_validate(settings, o)
    [] policy = "volume-mounts" -> volumes_validate(settings, o)
    [] policy = "trusted-repos" -> repos_validate(settings, o)
    [] policy = "deprecated-api-versions" -> deprecated_validate(Rules, settings, o)
    [] policy = "raw-validation" -> raw_validate(settings, o)
    [] policy = "echo" -> echo_validate(o)
    [] policy = "sleeping" -> sleeping_validate(o)
    [] policy = "image-cve" -> cve_validate(settings, o, heard)
    [] policy = "high-risk-service-account" -> high_risk_validate(settings, o, heard)
    [] policy = "webhook-services" -> webhook_validate(o, heard)
    [] policy = "project-quotas" -> quotas_validate(o, heard)

\* validate of each policy
Validate ==
  CASE policy = "verify-image-signatures" -> signatures_validate(settings, object, heard)
    [] policy = "project-labels" -> project_validate(settings, object, heard)
    [] policy = "namespace-labels" -> propagator_validate(settings, object, heard)
    [] policy = "context-aware-demo" -> demo_validate(object, heard)
    [] policy = "policyserver-mapper" -> mapper_validate(object, heard)
    [] policy = "psa-label-enforcer" -> psa_validate(settings, object)
    [] policy = "storage-class" -> storage_validate(settings, object)
    [] policy = "container-resources" -> resources_validate(settings, object)
    [] OTHER -> Answer(Accepts(object), object)

--------------------------------------------------------------------------------
\* A policy is loaded once; settings that are not valid, or that the host could not look at,
\* stop it.
Load ==
  /\ server = "new"
  /\ \/ server' = IF SettingsValid THEN "loaded" ELSE "refused"
     \/ /\ policy = "verify-image-signatures" /\ settings_ask_host(settings)
        /\ server' = "refused"
  /\ UNCHANGED <<policy, settings, cluster, cache, review, stored, views, outdated, requests, moves>>

\* What the API server asks a policy about: a Namespace with a quota when it is created, a
\* version that the rules of the policy name.
Asked(o) ==
  CASE policy = "project-quotas" -> \A other \in stored : other.name # o.name
    [] policy = "deprecated-api-versions" ->
         \E rule \in Metadata : o.group \in rule.api_groups /\ o.version \in rule.api_versions
    [] OTHER -> TRUE

\* A request with a new object, or with one that was stored before.
Submit(o) ==
  /\ server = "loaded" /\ object = None /\ requests < Scenarios[policy].requests
  /\ Asked(o)
  /\ object' = o /\ views' = {Source} /\ requests' = requests + 1
  /\ UNCHANGED <<config, cluster, cache, heard, answer, stored, outdated, moves>>

Reviewing == object # None /\ answer = None

\* The policy calls the host, which may fail.
Ask(q) ==
  /\ Reviewing
  /\ \E a \in HostAnswers(q) \union {Error} :
       heard' = Append(heard, [question |-> q, answer |-> a])
  /\ UNCHANGED <<config, cluster, cache, object, answer, stored, views, outdated, requests, moves>>

Decide ==
  /\ Reviewing
  /\ Questions = {}
  /\ answer' = Validate
  /\ UNCHANGED <<config, cluster, cache, object, heard, stored, views, outdated, requests, moves>>

\* What the stored Namespaces of the project may use of a resource, unit by unit
Units(objects, resource) ==
  UNION {{o} \X (1..Amount(o.limits[resource])) : o \in {p \in objects : parseProjectIDAnnotation(p)}}

Used(objects, resource) == Cardinality(Units(objects, resource))

Usage(objects, quota) == [resource \in DOMAIN quota.limit |-> Used(objects, resource)]

WithinQuota(objects, quota) ==
  quota # None => \A resource \in DOMAIN quota.limit :
                    Used(objects, resource) <= Amount(quota.limit[resource])

QuotaIsCurrent ==
  parseProjectIDAnnotation(object) =>
    /\ Read(heard) = cluster
    /\ cluster.quota # None => cluster.quota.used = Usage(stored, cluster.quota)

\* The API server stores what was accepted, and the request ends.
Store ==
  /\ answer # None
  /\ stored' = IF answer.allowed THEN stored \union {answer.object} ELSE stored
  /\ outdated' = (outdated \/ (policy = "project-quotas" /\ answer.allowed /\ ~QuotaIsCurrent))
  /\ object' = None /\ heard' = <<>> /\ answer' = None /\ views' = {}
  /\ UNCHANGED <<config, cluster, cache, requests, moves>>

See == views' = IF object = None THEN {} ELSE views \union {Source'}

\* Someone else changes the cluster: for a quota, its limits.
Move(c) ==
  /\ server = "loaded" /\ moves < Scenarios[policy].moves /\ answer = None
  /\ moves' = moves + 1
  /\ UNCHANGED <<config, cache, review, stored, requests>>
  /\ IF policy = "project-quotas"
       THEN /\ c.quota # None /\ cluster.quota # None
            /\ cluster' = [c EXCEPT !.quota.used = cluster.quota.used]
            /\ outdated' = (outdated \/ ~WithinQuota(stored, c.quota))
       ELSE cluster' = c /\ UNCHANGED outdated
  /\ cluster' # cluster
  /\ See

\* Rancher adds up what the Namespaces of the project use.
Recount ==
  /\ policy = "project-quotas" /\ cluster.quota # None /\ answer = None
  /\ cluster' = [cluster EXCEPT !.quota.used = Usage(stored, cluster.quota)]
  /\ cluster' # cluster
  /\ UNCHANGED <<config, cache, review, stored, outdated, requests, moves>>
  /\ See

\* The watch of the policy server catches up.
Refresh ==
  /\ cache # cluster /\ answer = None
  /\ policy \notin {"project-quotas", "project-labels"}
  /\ cache' = cluster
  /\ UNCHANGED <<config, cluster, review, stored, outdated, requests, moves>>
  /\ See

--------------------------------------------------------------------------------
Init ==
  /\ policy \in Policy
  /\ settings \in Scenarios[policy].settings
  /\ cluster \in Scenarios[policy].clusters /\ cache = cluster
  /\ server = "new"
  /\ object = None /\ heard = <<>> /\ answer = None /\ stored = {}
  /\ views = {} /\ outdated = FALSE /\ requests = 0 /\ moves = 0

Next ==
  \/ Load
  \/ \E o \in Scenarios[policy].objects \union stored : Submit(o)
  \/ Reviewing /\ \E q \in Questions : Ask(q)
  \/ Decide \/ Store
  \/ \E c \in Scenarios[policy].clusters : Move(c)
  \/ Recount \/ Refresh

Spec == Init /\ [][Next]_vars

--------------------------------------------------------------------------------
Answered == answer # None
Accepted == Answered /\ answer.allowed

\* The cluster did not change while the policy read it, and no call failed.
OneView == \A v, w \in views : v = w
NoneFailed ==
  \A i \in DOMAIN heard : heard[i].answer \in HostAnswers(heard[i].question)

Opposite(criteria) ==
  CASE criteria = "containsAnyOf" -> "doesNotContainAnyOf"
    [] criteria = "containsAllOf" -> "doesNotContainAllOf"
    [] criteria = "containsOtherThan" -> "doesNotContainOtherThan"
    [] criteria = "doesNotContainAnyOf" -> "containsAnyOf"
    [] criteria = "doesNotContainAllOf" -> "containsAllOf"
    [] criteria = "doesNotContainOtherThan" -> "containsOtherThan"

\* A criterion and its opposite (criteria_policy_base, operators.rs), and the lists of
\* trusted-repos to allow and to reject (validation.rs), never agree on the same names: of
\* one list exactly one accepts, of several containers not both.
OppositesExclude ==
  /\ Answered /\ policy \in {"annotations", "labels"} =>
       LET opposite == [settings EXCEPT !.criteria = Opposite(@)] IN
       answer.allowed # (IF policy = "labels" THEN labels_validate(opposite, object)
                         ELSE annotations_validate(opposite, object))
  /\ Accepted /\ policy = "environment-variable" /\ ContainersOf(object) # {} =>
       ~environment_validate([settings EXCEPT !.criteria = Opposite(@)], object)
  /\ Accepted /\ policy = "trusted-repos" /\ settings.images.allow # {} /\ object.spec # None
     /\ (\E image \in discover_images(object.spec) : Parses(image)) =>
       ~repos_validate([settings EXCEPT !.images = [allow |-> {}, reject |-> @.allow]], object)

\* The lists of containers a policy looks at
LookedAt ==
  CASE policy = "pod-privileged" -> validate_roles(settings)
    [] policy \in {"readonly-root", "host-namespaces", "probes"} -> {"app", "init"}
    [] OTHER -> Role

\* Each container counts, in whichever list it is and whatever the others are: a pod is
\* accepted if each of its containers would be as the only one.
ContainersAreJudgedAlike ==
  Answered /\ policy \in PodPolicies
  /\ (\E c \in ContainersOf(object) : c.role \in LookedAt)
  /\ (\A c \in ContainersOf(object) : c.role \in LookedAt)
  /\ (policy = "trusted-repos" => \A c \in ContainersOf(object) : c.image # None) =>
    (answer.allowed <=>
       \A c \in ContainersOf(object) : Accepts(Alone(object, c)))

\* seccomp: the list of profiles and the lists of types and paths that say the same accept the
\* same pods (settings.rs keeps both forms), but for paths a list entry only ends with.
SeccompFormsAgree ==
  Answered /\ policy = "seccomp" /\ object.annotations = {} /\ object.spec # None =>
    LET localhost == {p.path : p \in {q \in settings.allowed_profiles : q.type = "localhost"}}
        types == [allowed_profiles |-> {},
                  profile_types |-> settings.profile_types
                                    \union {TypeOfProfile(p) : p \in settings.allowed_profiles},
                  localhost_profiles |-> settings.localhost_profiles \union localhost]
        contexts == {object.spec.seccomp} \union {c.seccomp : c \in ContainersOf(object)}
        paths == {context.path : context \in contexts \ {None}} \ {None} IN
    /\ seccomp_validate(types, object) => answer.allowed
    /\ answer.allowed
       /\ (\A path \in paths, p \in localhost : path # p => ~IsSuffix(path, <<"localhost/">> \o p)) =>
         seccomp_validate(types, object)

Canonical(images) == {IF Parses(image) THEN ImageRef(image) ELSE image : image \in images}

\* trusted-repos: nginx and docker.io/library/nginx:latest are one image, in the settings
\* and in a pod.
NamesAreCanonical ==
  Answered /\ policy = "trusted-repos" /\ object.spec # None =>
    LET long(matchers) ==
          {IF m.glob THEN m ELSE Exact(ImageRef(m.image)) : m \in matchers} IN
    answer.allowed =
      is_empty(validate_images(
        Canonical(discover_images(object.spec)),
        [settings EXCEPT !.images = [allow |-> long(@.allow), reject |-> long(@.reject)]]))

\* verify-image-signatures: an entry names an image of the object with its digest.  It did not
\* match the name before the digest was appended.
NamedWithDigest(o) ==
  \E c \in ContainersOf(o), i \in DOMAIN settings.signatures :
    LET entry == settings.signatures[i] IN
    ~entry.glob /\ SignaturePatternMatches(entry, c.image) /\ c.image.digest # None

\* A policy that changes objects accepts what it stored, and changes it no more: as
\* long as the cluster stays and no call fails, sending it again is a no-op.
MutationsSettle ==
  Answered /\ object \in stored /\ moves = 0 /\ NoneFailed
  /\ (policy = "verify-image-signatures" => ~NamedWithDigest(object))
  /\ policy \in {"verify-image-signatures", "project-labels", "namespace-labels",
                 "context-aware-demo", "policyserver-mapper", "psa-label-enforcer",
                 "storage-class", "container-resources"} =>
    answer = Answer(TRUE, object)

Signers(entry) == ToSet(entry.signers)

\* verify-image-signatures: an image that some entry matches is stored with a digest that
\* the signers of an entry have signed; those of every entry, if the tag did not move.
VerifiedImagesAreStored ==
  Accepted /\ policy = "verify-image-signatures" /\ settings.modify_images_with_digest =>
    \A c \in ContainersOf(object) :
      LET entries == {settings.signatures[i] :
            i \in {j \in DOMAIN settings.signatures :
                     SignaturePatternMatches(settings.signatures[j], c.image)}} IN
      entries # {} =>
        \E after \in answer.object.spec.containers, v \in views :
          /\ [after EXCEPT !.image.digest = c.image.digest] = c
          /\ after.image.digest \in DOMAIN v.signed
          /\ \E entry \in entries :
               v.signed[after.image.digest] \intersect Signers(entry) # {}
          /\ OneView => \A entry \in entries : Signers(entry) \subseteq v.signed[after.image.digest]

\* The vulnerabilities of a report that settings do not set aside, by what they are
Harmless(report) ==
  LET v(p) == at(report, p)
      counted == {p \in found(report) : /\ v(p).cve \notin settings.allow_always
                                        /\ v(p).suppressed => settings.ignore_vex_status} IN
  /\ \A p \in found(report) : v(p).cve \notin settings.deny_always
  /\ settings.cvss_score # None =>
       Cardinality({p \in counted : /\ v(p).cvss # None /\ "nvd" \in DOMAIN v(p).cvss
                                    /\ v(p).cvss["nvd"].v3_score # None
                                    /\ v(p).cvss["nvd"].v3_score >= settings.cvss_score.threshold})
         <= settings.cvss_score.max_count
  /\ settings.max_severity # None => \A severity \in Severity :
       LET limit == settings.max_severity[severity]
           all == {p \in counted : v(p).severity = severity}
           unfixed == {p \in all : v(p).fixed_versions \in {None, {}}} IN
       limit # None =>
         /\ limit.total # None => Cardinality(all) <= limit.total
         /\ limit.totalWithoutFixes # None => Cardinality(unfixed) <= limit.totalWithoutFixes

\* What a digest of the image was in a registry that the review could see
DigestsOf(image) ==
  IF image.digest # None THEN {image.digest}
  ELSE UNION {LET entry == v.registry[Named(image)] IN
              {entry.digest} \union
                (IF entry.platforms = None THEN {} ELSE {entry.platforms[p] : p \in DOMAIN entry.platforms}) :
                v \in {w \in views : InRegistry(w, image)}}

\* image-cve: unless reports may be missing, an accepted image had a report during the review,
\* of a digest it had then or of its tag, without more vulnerabilities than allowed.
VulnerableImagesAreRejected ==
  Accepted /\ policy = "image-cve" /\ ~settings.ignore_missing =>
    \A c \in ContainersOf(object) : \E v \in views : \E report \in v.reports :
      /\ report.namespace = namespace(settings, object)
      /\ IF settings.strategy = "digest" THEN report.digest \in DigestsOf(c.image)
         ELSE report.name.path = reference(c.image).path
      /\ Harmless(report)

\* high-risk-service-account: an accepted pod that gets a token has an account that could do
\* nothing of what is blocked at some point of the review, of all rights that could be
\* reviewed.
HighRiskAccountsAreRejected ==
  Accepted /\ policy = "high-risk-service-account" /\ PodSpecOf(object).automount # FALSE =>
    \A i \in DOMAIN settings.block_rules : \A right \in rights(settings.block_rules[i]) :
      LET account == [namespace |-> object.namespace,
                      name |-> IF PodSpecOf(object).serviceAccount = None THEN "default"
                               ELSE PodSpecOf(object).serviceAccount] IN
      \/ \E v \in views : [account |-> account, right |-> right] \notin v.allowed
      \/ \E j \in DOMAIN heard : heard[j].question.right = right /\ heard[j].answer = Error

\* do-not-expose: the services of an accepted configuration were behind no Ingress and no
\* port of the nodes or of a load balancer at some point of the review.
WebhooksStayHidden ==
  Accepted /\ policy = "webhook-services" /\ object.kind \in webhook_kinds =>
    \A s \in object.services :
      /\ \E v \in views : \A service \in v.services :
           /\ service.namespace = s.namespace /\ service.name = s.name
           /\ service.type # "ClusterIP"
           => s.port \notin service.ports
      /\ \E v \in views : \A ingress \in v.ingresses : ingress.namespace = s.namespace =>
           [name |-> s.name, port |-> s.port] \notin ingress.backends

\* rancher-project-quotas: the Namespaces of a project stay within its quota, unless one was
\* stored before Rancher had counted the others or the limits were lowered.
QuotaKept ==
  policy = "project-quotas" /\ ~outdated => WithinQuota(stored, cluster.quota)

\* The labels an object has to get from its namespace or its project, as v shows them
Wanted(v) ==
  CASE policy = "project-labels" ->
         IF project_questions(object, <<>>) = {} THEN [k \in {} |-> None] ELSE v.labels
    [] policy = "namespace-labels" ->
         [k \in {l \in DOMAIN v.labels : l \in settings.propagatedLabels} |-> v.labels[k]]
    [] policy = "context-aware-demo" -> v.annotations

Carries(labels, before, wanted) ==
  /\ \A k \in DOMAIN wanted : k \in DOMAIN labels /\ labels[k] = wanted[k]
  /\ \A k \in DOMAIN before : k \in DOMAIN labels /\ (k \notin DOMAIN wanted => labels[k] = before[k])
  /\ DOMAIN labels = DOMAIN before \union DOMAIN wanted

\* What is stored has the labels its namespace or project had at one point of the review, in
\* the template of a workload too, and keeps all its other labels; a policy runs on the
\* server its namespace named.
PropagatedLabelsFollow ==
  /\ Accepted /\ policy \in {"project-labels", "namespace-labels", "context-aware-demo"} =>
       \E v \in views :
         /\ Carries(answer.object.labels, object.labels, Wanted(v))
         /\ policy = "namespace-labels" /\ object.kind # "Pod" =>
              Carries(answer.object.template, object.template, Wanted(v))
  /\ Accepted /\ policy = "policyserver-mapper" =>
       \E v \in views : v.policyServer # None /\ v.policyServer = answer.object.spec.policyServer

\* persistentvolumeclaim-storageclass: what is stored has a class that is allowed, the
\* fallback the policy writes included.
StoredClassesAreAllowed ==
  policy = "storage-class" =>
    \A claim \in {o \in stored : o.kind = "PersistentVolumeClaim"} :
      LET class == IF claim.storageClass = None THEN "" ELSE claim.storageClass IN
      /\ settings.allowed # None => class \in settings.allowed
      /\ settings.denied # None => class \notin settings.denied

\* container-resources: an accepted container has limits and requests within the bounds, the
\* defaults the policy fills in included, and Kubernetes takes what the policy changed: no
\* request is above its limit.
ResourcesFit ==
  Accepted /\ policy = "container-resources" =>
    \A c \in answer.object.containers : \A r \in Resource :
      /\ ~shouldSkipContainer(c.image, settings.ignoreImages) /\ settings[r] # None =>
           IF shouldIgnoreValues(settings[r]) THEN c.limits[r] # None /\ c.requests[r] # None
           ELSE /\ c.limits[r] = None => settings[r].defaultLimit = 0
                /\ c.requests[r] = None => settings[r].defaultRequest = 0
                /\ c.limits[r] # None => within(c.limits[r], settings[r].minLimit, settings[r].maxLimit)
                /\ c.requests[r] # None =>
                     within(c.requests[r], settings[r].minRequest, settings[r].maxRequest)
      /\ c \notin object.containers /\ c.limits[r] # None /\ c.requests[r] # None =>
           c.requests[r] <= c.limits[r]

\* deprecated-api-versions: a later version of Kubernetes serves no kind that an earlier one
\* refused.
DeprecationIsMonotone ==
  Answered /\ policy = "deprecated-api-versions" /\ ~answer.allowed =>
    \A later \in {s \in Scenarios[policy].settings :
                   /\ s.kubernetes_version >= settings.kubernetes_version
                   /\ s.deny_on_deprecation = settings.deny_on_deprecation} :
      ~deprecated_validate(Rules, later, object)

\* README of image-cve: "the policy always looks up the VulnerabilityReport by digest" for an
\* image that has one.
PinnedImagesAreLookedUpByDigest ==
  policy = "image-cve" =>
    \A i \in DOMAIN heard :
      heard[i].question.call = "reports" /\ heard[i].question.container.image.digest # None =>
        heard[i].question.selector.digest = heard[i].question.container.image.digest
================================================================================
