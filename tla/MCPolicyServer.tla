---------------------------- MODULE MCPolicyServer ----------------------------
(***************************************************************************)
(* Instances of PolicyServer for TLC: for each policy its settings, the    *)
(* objects it meets and what the cluster shows.  Policies that only look   *)
(* at the object get one request of each.                                  *)
(***************************************************************************)
EXTENDS PolicyServer

CONSTANTS d1, d2, d3    \* digests of images

Local(settings_, objects) ==
  [settings |-> settings_, objects |-> objects, clusters |-> {NoCluster}, requests |-> 1, moves |-> 0]

\* Objects around a pod spec, and one whose spec is missing
Pod(spec) == [kind |-> "Pod", annotations |-> {}, spec |-> spec]
Objects(specs) ==
  {[Pod(spec) EXCEPT !.kind = kind] : spec \in specs, kind \in {"Pod", "Deployment"}}
    \union {[Pod(None) EXCEPT !.kind = kind] : kind \in {"Pod", "Deployment", "ConfigMap"}}

\* Up to two containers, in every list
Specs(containers) ==
  {[EmptySpec EXCEPT !.containers = cs] : cs \in {{}} \union {{c, d} : c \in containers, d \in containers}}
InRoles(containers) == {[c EXCEPT !.role = role] : c \in containers, role \in Role}

OptionalBoolean == {None, TRUE, FALSE}

--------------------------------------------------------------------------------
\* Policies that look at one pod
Ports(min, max) == [min |-> min, max |-> max]

HostNamespaces ==
  Local([allow_host_ipc : {FALSE, TRUE}, allow_host_network : {FALSE}, allow_host_pid : {TRUE},
         allow_host_ports : {{}, {Ports(1, 2)}, {Ports(1, 1), Ports(3, 3)}, {Ports(2, 1)}}],
        Objects({[EmptySpec EXCEPT !.containers = cs, !.hostIPC = ipc, !.hostNetwork = network, !.hostPID = TRUE] :
                   cs \in {{[EmptyContainer EXCEPT !.ports = {1}, !.role = "init"],
                            [EmptyContainer EXCEPT !.ports = ports]} : ports \in SUBSET {1, 2, 3}},
                   ipc \in OptionalBoolean, network \in {None, TRUE}}))

Privileged ==
  Local([skip_init_containers : BOOLEAN, skip_ephemeral_containers : BOOLEAN],
        Objects(Specs(InRoles({[EmptyContainer EXCEPT !.privileged = p] : p \in OptionalBoolean}))))

ReadonlyRoot ==
  Local({None}, Objects(Specs(InRoles({[EmptyContainer EXCEPT !.readOnly = r] : r \in OptionalBoolean}))))

ProcMount ==
  Local(ProcMountSettings,
        Objects(Specs(InRoles({[EmptyContainer EXCEPT !.procMount = m] : m \in {None, "Default", "Unmasked"}}))))

Annotated(objects, annotations) == {[o EXCEPT !.annotations = a] : o \in objects, a \in annotations}
Pair(key, value) == [key |-> key, value |-> value]

AppArmor ==
  Local(ApparmorSettings({{}, {"runtime/default"}}),
        Annotated({Pod(EmptySpec), Pod(None), [Pod(None) EXCEPT !.kind = "Deployment"]},
                  SUBSET {Pair("apparmor", "runtime/default"), Pair("apparmor", "unconfined"),
                          Pair("other", "unconfined")}))

FlexVolume ==
  Local([allowed_flex_volumes : SUBSET {Driver("lvm"), Driver("cifs")} \union {{Driver(None)}}],
        Objects({[EmptySpec EXCEPT !.flexDrivers = ds] : ds \in SUBSET {"lvm", "cifs"}}))

SharePid == Local({None}, Objects({[EmptySpec EXCEPT !.sharePID = s] : s \in OptionalBoolean}))

\* A profile of the settings, one that ends like it, and the wrong forms
Profile(type, path) == [type |-> type, path |-> path]
Web == <<"profiles/", "web.json">>
SeccompProfiles ==
  {None, Profile("RuntimeDefault", None), Profile("Unconfined", None), Profile("Localhost", None),
   Profile("Localhost", Web), Profile("Localhost", <<"web.json">>), Profile("Localhost", <<"db.json">>)}

Seccomp ==
  Local([allowed_profiles : {{}, {Profile("docker", None)}, {Profile("localhost", Web), Profile("unconfined", None)},
                             {Profile("runtime", None), Profile("localhost", <<"db.json">>)}},
         profile_types : {{}, {"RuntimeDefault"}, {"Localhost"}, {"Unconfined", "Localhost"}},
         localhost_profiles : {{}, {<<"db.json">>}}],
        Objects({[EmptySpec EXCEPT !.seccomp = profile, !.containers = cs] : profile \in SeccompProfiles,
                   cs \in {{}} \union
                     {{[EmptyContainer EXCEPT !.seccomp = p], [EmptyContainer EXCEPT !.role = "ephemeral"]} :
                        p \in SeccompProfiles}})
        \union Annotated({Pod(None)}, {{Pair("seccomp", Profile("docker", None))},
                                       {Pair("seccomp", Profile("localhost", Web)), Pair("other", Profile("runtime", None))}}))

NoTimes == [field \in ProbeField |-> None]
Probe(period) == [NoTimes EXCEPT !.periodSeconds = period]
Enforced(enforce, time) == [enforce |-> enforce, times |-> [NoTimes EXCEPT !.periodSeconds = time]]
Time(minimum, limit) == [minimum |-> minimum, limit |-> limit]

Probes ==
  Local([liveness : {Enforced(TRUE, None), Enforced(FALSE, Time(1, 2)), Enforced(TRUE, Time(2, 3)), Enforced(TRUE, Time(3, 2))},
         readiness : {Enforced(FALSE, None), Enforced(FALSE, Time(None, None)), Enforced(TRUE, Time(None, 2))}],
        Objects(Specs({[EmptyContainer EXCEPT !.role = role, !.liveness = l, !.readiness = r] :
                         role \in Role, l \in {None, Probe(1), Probe(2)}, r \in {None, Probe(2), Probe(3)}})))

Value(text, decoded) == [text |-> text, decoded |-> decoded]
Variable(name, value) == [name |-> name, value |-> value]

EnvSecrets ==
  Local({None},
        Objects(Specs(InRoles({[EmptyContainer EXCEPT !.env = {Variable("token", value), Variable("user", None)}] :
                                 value \in {Value({}, None), Value({}, {"key"}), Value({"key"}, {}), Value({}, {})}}))))

--------------------------------------------------------------------------------
\* Policies that compare names
CriteriaSettings == [criteria : Criteria, values : {{}, {"a"}, {"a", "b"}, {"a", BadName}, {LongName}, {DottedName}}]

Annotations ==
  Local(CriteriaSettings, Annotated({Pod(EmptySpec), [Pod(None) EXCEPT !.kind = "ConfigMap"]},
                                    {{Pair(key, "x") : key \in keys} : keys \in SUBSET {"a", "b", "c"}}))

Labels ==
  Local(CriteriaSettings, {[kind |-> "ConfigMap", labels |-> {Pair(key, "x") : key \in keys}] :
                             keys \in SUBSET {"a", "b", "c"}})

EnvironmentVariables ==
  Local(CriteriaSettings,
        Objects(Specs({[EmptyContainer EXCEPT !.role = role, !.env = {Variable(name, None) : name \in names}] :
                         role \in {"app", "ephemeral"}, names \in SUBSET {"a", "b", "c"}})))

VolumeMounts ==
  Local([operator : {"allAreUsed", "anyIn", "anyNotIn", "notAllAreUsed"}, volumeMountsNames : {{}, {"a"}, {"a", "b"}}],
        Objects(Specs({[EmptyContainer EXCEPT !.role = role, !.mounts = names] :
                         role \in {"app", "init"}, names \in {None} \union SUBSET {"a", "c"}})))

--------------------------------------------------------------------------------
\* Images: the short and the full name of one, another registry, other tags, a digest, and
\* a name that does not parse
Image(registry, path, tag, digest) == [registry |-> registry, path |-> path, tag |-> tag, digest |-> digest]
Nginx == Image(None, <<"nginx">>, None, None)
HubNginx == Image("docker.io", <<"library", "nginx">>, "latest", None)
OldNginx == Image(None, <<"nginx">>, "1.0", None)
PinnedNginx == Image(None, <<"nginx">>, None, d1)
App == Image("ghcr.io", <<"team", "app">>, "1.0", None)
AppInCapitals == [App EXCEPT !.registry = "GHCR.io"]
Unparsable == Image(None, <<>>, None, None)

Running(images) == {[EmptyContainer EXCEPT !.image = image] : image \in images}
InitContainer(image) == [EmptyContainer EXCEPT !.role = "init", !.image = image]

ImageLists ==
  {[allow |-> {}, reject |-> {}], [allow |-> {Exact(Nginx)}, reject |-> {}],
   [allow |-> {Exact(HubNginx), Exact(AppInCapitals)}, reject |-> {}],
   [allow |-> {}, reject |-> {Exact(OldNginx), Exact(App)}], [allow |-> {}, reject |-> {Exact(PinnedNginx)}],
   [allow |-> {Pattern(Image(None, <<"library", "nginx">>, None, None)),
               Pattern([App EXCEPT !.tag = Wildcard])}, reject |-> {}],
   [allow |-> {Exact(Nginx)}, reject |-> {Exact(App)}], [allow |-> {Exact(Unparsable)}, reject |-> {}]}

TrustedRepositories ==
  Local([registries : {[allow |-> {}, reject |-> {}], [allow |-> {"docker.io"}, reject |-> {}],
                       [allow |-> {}, reject |-> {"ghcr.io"}], [allow |-> {Wildcard}, reject |-> {Wildcard}]},
         tags : {[reject |-> {}], [reject |-> {"latest"}], [reject |-> {BadTag}]},
         images : ImageLists],
        Objects(Specs(Running({Nginx, HubNginx, OldNginx, PinnedNginx, App, AppInCapitals, Unparsable})))
          \union {Pod([EmptySpec EXCEPT !.containers = {InitContainer(App), InitContainer(None)}]),
                  Pod([EmptySpec EXCEPT !.containers = Running({Nginx}) \union {InitContainer(App)}])})

\* A tag that moves while an index is published under it, and signatures that come late
Manifest(digest, platforms) == [digest |-> digest, platforms |-> platforms]
Registry(nginx, app) == Named(Nginx) :> nginx @@ Named(App) :> app

Entry(image, glob, kind, signers) ==
  [image |-> image, glob |-> glob, kind |-> kind, signers |-> signers, chain |-> None]
Chained(entry, chain) == [entry EXCEPT !.chain = chain]
AnyApp == [App EXCEPT !.tag = None]

SignatureSettings ==
  {<<>>, <<Entry(Nginx, FALSE, "certificate", <<"one", "two">>)>>,
   <<Entry(Nginx, TRUE, "certificate", <<"one", "two">>), Entry(Nginx, TRUE, "pubKeys", <<"one">>)>>,
   <<Entry(Nginx, TRUE, "pubKeys", <<"one">>), Entry(AnyApp, TRUE, "githubActions", <<"two">>)>>,
   <<Entry(Nginx, TRUE, "pubKeys", <<"one">>), Entry(PinnedNginx, FALSE, "pubKeys", <<"two">>)>>,
   <<Entry(Unparsable, FALSE, "keylessPrefix", <<"one">>), Entry(Nginx, TRUE, "keyless", <<>>)>>,
   <<Entry(Nginx, TRUE, "pubKeys", <<"one", NoPem>>)>>, <<Entry(Nginx, TRUE, "keylessPrefix", <<>>)>>,
   <<Entry(None, FALSE, "githubActions", <<"one">>)>>, <<Entry(Nginx, FALSE, "certificate", <<Expired>>)>>,
   <<Chained(Entry(Nginx, TRUE, "certificate", <<"two">>), <<"root">>)>>,
   <<Chained(Entry(Nginx, TRUE, "certificate", <<"two">>), <<NoPem>>)>>}

Signatures ==
  [settings |-> [signatures : SignatureSettings, modify_images_with_digest : BOOLEAN],
   objects |-> {Pod(EmptySpec), [Pod(None) EXCEPT !.kind = "ConfigMap"]}
               \union {Pod([EmptySpec EXCEPT !.containers = Running(images)]) :
                         images \in {{Nginx}, {PinnedNginx}, {Nginx, App}, {None}}},
   clusters |-> [registry : {Registry(Manifest(d1, None), Manifest(d3, None)),
                             Registry(Manifest(d2, None), Manifest(d3, None))},
                 signed : {d1 :> {"one", "two"} @@ d2 :> {"one"} @@ d3 :> {"two"},
                           d1 :> {"one"} @@ d2 :> {"one", "two"} @@ d3 :> {}}],
   requests |-> 2, moves |-> 1]

\* Reports of the scanner
Report(image, digest, in, results) ==
  VulnerabilityReport([path |-> image.path, tag |-> image.tag, platform |-> host_platform], in, digest, results)

Score(number) == "redhat" :> Cvss(3) @@ "nvd" :> Cvss(number)
Grave == Vulnerability("c1", "critical", None, Score(9), FALSE)
Suppressed == Vulnerability("c2", "critical", {"1.1"}, None, TRUE)
Slight == Vulnerability("c3", "low", {}, "other" :> Cvss(2), FALSE)

BadReport == Report(HubNginx, d1, "default", <<<<Grave, Suppressed>>, <<Grave>>>>)
GoodReport == Report(HubNginx, d2, "default", <<<<>>, <<Slight>>>>)
OtherReport == Report(App, d3, "scans", <<>>)

Limit(total, totalWithoutFixes) == [total |-> total, totalWithoutFixes |-> totalWithoutFixes]
NoLimits == [severity \in Severity |-> None]
Limited(limit) == [NoLimits EXCEPT !["critical"] = limit]

CveBase ==
  [allow_always |-> {}, deny_always |-> {}, ignore_missing |-> FALSE, report_namespace |-> None,
   ignore_vex_status |-> FALSE, max_severity |-> None, cvss_score |-> None, cve_name |-> None,
   platform |-> None, strategy |-> "digest"]

ByBoth(all) == all \union {[s EXCEPT !.strategy = "tag"] : s \in all}

CveSettings ==
  ByBoth({[CveBase EXCEPT !.max_severity = Limited(Limit(1, None))],
          [CveBase EXCEPT !.max_severity = Limited(Limit(None, 2)), !.ignore_vex_status = TRUE],
          [CveBase EXCEPT !.max_severity = Limited(Limit(2, None)), !.ignore_missing = TRUE, !.ignore_vex_status = TRUE],
          [CveBase EXCEPT !.max_severity = NoLimits, !.deny_always = {"c1"}],
          [CveBase EXCEPT !.cvss_score = [threshold |-> 7, max_count |-> 1]],
          [CveBase EXCEPT !.cve_name = [criteria |-> "containsAnyOf", values |-> {"c3"}]],
          [CveBase EXCEPT !.allow_always = {"c1"}, !.max_severity = Limited(Limit(0, None)), !.report_namespace = "default"],
          [CveBase EXCEPT !.platform = "linux/arm64"]})
    \union {[CveBase EXCEPT !.allow_always = {"c1"}, !.deny_always = {"c1"}],
            [CveBase EXCEPT !.max_severity = Limited(Limit(1, 1))],
            [CveBase EXCEPT !.max_severity = Limited(Limit(None, None))],
            [CveBase EXCEPT !.cvss_score = [threshold |-> 11, max_count |-> 0]]}

Scanned(images) == [kind |-> "Pod", namespace |-> "default", spec |-> [EmptySpec EXCEPT !.containers = Running(images)]]

Scans ==
  [settings |-> CveSettings,
   objects |-> {Scanned(images) : images \in {{Nginx}, {PinnedNginx}, {HubNginx, App}, {Unparsable}, {None}}}
               \union {[Scanned({}) EXCEPT !.kind = "ConfigMap", !.spec = None]},
   clusters |-> [registry : {Registry(Manifest(d1, None), Manifest(d3, None)),
                             Registry(Manifest(d3, "linux/amd64" :> d2), Manifest(d3, None))},
                 signed : {None},
                 reports : {{}, {BadReport, GoodReport}, {BadReport, [BadReport EXCEPT !.results = <<>>], OtherReport}}],
   requests |-> 1, moves |-> 1]

--------------------------------------------------------------------------------
\* Policies that read the cluster
BlockRule(in, verbs) == Rule(in, {""}, {"secrets"}, verbs)
Right(namespace_, verb) == [namespace |-> namespace_, group |-> "", resource |-> "secrets", verb |-> verb]
Allowed(name, right) == [account |-> [namespace |-> "default", name |-> name], right |-> right]

HighRisk ==
  [settings |-> {[block_rules |-> rules] : rules \in
                   {<<>>, <<BlockRule(None, {})>>, <<BlockRule(None, {"get"})>>, <<BlockRule(None, {"escalate"})>>,
                    <<BlockRule(None, {"get", "list"}), BlockRule("kube-system", {"get"})>>}},
   objects |-> {[kind |-> "Pod", namespace |-> "default",
                 spec |-> [EmptySpec EXCEPT !.automount = automount, !.serviceAccount = account]] :
                   automount \in {None, FALSE}, account \in {None, "admin"}}
               \union {[kind |-> kind, namespace |-> "default", spec |-> None] : kind \in {"Pod", "ConfigMap"}},
   clusters |-> {[allowed |-> a] : a \in SUBSET {Allowed("admin", Right(None, "list")), Allowed("default", Right("kube-system", "get"))}},
   requests |-> 1, moves |-> 2]

Service(name, type, ports) == [namespace |-> "policies", name |-> name, type |-> type, ports |-> ports]
Backend(name, port) == [name |-> name, port |-> port]
Hook(namespace_, name, port) == [namespace |-> namespace_, name |-> name, port |-> port]

WebhookServices ==
  [settings |-> {None},
   objects |-> {[kind |-> "Pod", services |-> {}]} \union
               {[kind |-> "ValidatingWebhookConfiguration", services |-> services] :
                   services \in {{}, {Hook("policies", "hook", 443)},
                                 {Hook("policies", "hook", 443), Hook("other", "hook", 80)}}},
   clusters |-> [ingresses : {{}, {[namespace |-> "policies", backends |-> {Backend("hook", 443), Backend("web", 80)}],
                                   [namespace |-> "other", backends |-> {Backend("hook", None)}]}},
                 services : {{Service("hook", "ClusterIP", {443})}, {Service("hook", "NodePort", {443})},
                             {Service("hook", "LoadBalancer", {443, 80})}, {Service("hook", "NodePort", {80})}}],
   requests |-> 1, moves |-> 2]

\* Two namespaces of a project, one that names none and one that names it badly; limits that
\* fit once
NamespaceOf(name, project, cpu) ==
  [name |-> name, project |-> project, limits |-> [limitsCpu |-> cpu, pods |-> None]]
Member == <<"local", "p1">>

ProjectQuotas ==
  [settings |-> {None},
   objects |-> {NamespaceOf("one", Member, 1), NamespaceOf("two", Member, 1), NamespaceOf("three", Member, 2),
                NamespaceOf("four", None, 2), NamespaceOf("five", <<"p1">>, None), NamespaceOf("seven", <<"", "p1">>, None), NamespaceOf("six", Member, None)},
   clusters |-> {[quota |-> None]} \union
                {[quota |-> [limit |-> [limitsCpu |-> cpu, pods |-> None], used |-> [limitsCpu |-> 0, pods |-> 0]]] :
                   cpu \in {1, 2}},
   requests |-> 3, moves |-> 1]

\* A label both sides know, one that only one of them has
Team(v) == "team" :> v
Empty == [k \in {} |-> "x"]
OwnLabels == {Empty, Team("a"), Team("b") @@ "app" :> "web"}
GivenLabels == {Empty, Team("a"), Team("a") @@ "tier" :> "one"}

ProjectLabels ==
  [settings |-> [downstream_cluster_failure_mode : FailureMode \union {"Never"}],
   objects |-> [project : {None, Member, <<"c-1", "p1">>, <<"p1">>}, labels : OwnLabels],
   clusters |-> [labels : GivenLabels], requests |-> 2, moves |-> 1]

NamespaceLabels ==
  [settings |-> [propagatedLabels : {{}, {"team"}}],
   objects |-> [kind : {"Pod", "Deployment", "ConfigMap"}, labels : OwnLabels, template : {Empty, Team("b")}],
   clusters |-> [labels : GivenLabels], requests |-> 2, moves |-> 1]

ContextAwareDemo ==
  [settings |-> DemoSettings, objects |-> [kind : {"Pod", "Deployment"}, labels : OwnLabels],
   clusters |-> [annotations : GivenLabels], requests |-> 2, moves |-> 1]

ServerMapper ==
  [settings |-> {None}, objects |-> [spec : {None} \union [policyServer : {None, "one", "two"}]],
   clusters |-> [policyServer : {None, "one", "two"}], requests |-> 2, moves |-> 1]

--------------------------------------------------------------------------------
\* Other objects
PsaLabel(mode, field, value) == [mode |-> mode, field |-> field] :> value

PsaLabels ==
  [settings |-> [level : [Mode -> {None, "baseline"}], version : [Mode -> {None, "latest", "malformed"}]],
   objects |-> [kind : {"Namespace", "ConfigMap"},
                labels : {[k \in {} |-> "x"], PsaLabel("enforce", "level", "privileged"),
                          PsaLabel("audit", "version", "v1.25") @@ PsaLabel("enforce", "level", "baseline")}],
   clusters |-> {NoCluster}, requests |-> 2, moves |-> 0]

StorageClasses ==
  [settings |-> [allowed : {None, {}, {"fast"}, {"fast", ""}}, denied : {None, {}, {"slow"}, {""}},
                 fallback : {None, "fast", "slow"}],
   objects |-> [kind : {"PersistentVolumeClaim", "Pod"}, storageClass : {None, "fast", "slow"}],
   clusters |-> {NoCluster}, requests |-> 2, moves |-> 0]

\* Settings with every quantity, with the defaults or with bounds only, out of order, without
\* values; one resource that is only asked to be there
Config(minRequest, defaultRequest, maxRequest, minLimit, defaultLimit, maxLimit) ==
  [minRequest |-> minRequest, defaultRequest |-> defaultRequest, maxRequest |-> maxRequest,
   minLimit |-> minLimit, defaultLimit |-> defaultLimit, maxLimit |-> maxLimit, ignoreValues |-> FALSE]
NoValues == Config(0, 0, 0, 0, 0, 0)

Limits(image, l, q) ==
  [image |-> image, limits |-> [cpu |-> l[1], memory |-> l[2]], requests |-> [cpu |-> q[1], memory |-> q[2]]]
WebImage == <<"web", ":1">>

ContainerResourcesPolicy ==
  [settings |-> [cpu : {None, NoValues, Config(1, 1, 2, 2, 3, 3), Config(0, 2, 0, 0, 2, 0), Config(0, 0, 1, 2, 0, 2),
                        Config(0, 3, 2, 0, 0, 0), Config(0, 0, 0, 0, 3, 2), Config(2, 1, 0, 3, 2, 0)},
                 memory : {None, NoValues, Config(0, 2, 0, 0, 0, 0), [Config(0, 1, 0, 0, 2, 0) EXCEPT !.ignoreValues = TRUE]},
                 ignoreImages : {{}, {[glob |-> TRUE, name |-> <<"web">>]}}],
   objects |-> {[kind |-> "Pod", containers |-> cs] : cs \in
                  {{Limits(WebImage, l, q)} : l \in {<<None, None>>, <<1, None>>, <<3, 1>>},
                                                q \in {<<None, None>>, <<2, None>>, <<1, 2>>}}
                  \union {{Limits(<<"db">>, <<None, 2>>, <<1, None>>), Limits(WebImage, <<2, 2>>, <<2, 3>>)}}}
               \union {[kind |-> "ConfigMap", containers |-> {}]},
   clusters |-> {NoCluster}, requests |-> 2, moves |-> 0]

\* Rows of versions.yaml: deprecated long before it is removed, never deprecated, and the row
\* that is there twice; one is of cert-manager
MCRules ==
  <<DeprecationRule("extensions", "v1beta1", "Ingress", 14, 22, "k8s"),
    DeprecationRule("apps", "v1beta1", "ReplicaSet", None, 16, "k8s"),
    DeprecationRule("audit.k8s.io", "v1alpha1", "Policy", 21, 24, "k8s"),
    DeprecationRule("audit.k8s.io", "v1alpha1", "Policy", 21, 24, "k8s"),
    DeprecationRule("cert-manager.io", "v1alpha2", "Issuer", 4, 6, "cert-manager")>>

MCMetadata ==
  {MetadataRule({"extensions"}, {"v1beta1"}, {"CREATE"}), MetadataRule({"apps"}, {"v1beta1"}, {"CREATE"}),
   MetadataRule({"audit.k8s.io"}, {"v1alpha1"}, {"CREATE"})}

ApiVersions ==
  Local([kubernetes_version : {0, 13, 14, 16, 17, 22, 23, 24}, deny_on_deprecation : BOOLEAN],
        {[group |-> r.group, version |-> r.version, kind |-> r.kind] : r \in ToSet(MCRules)}
          \union {[group |-> "networking.k8s.io", version |-> "v1", kind |-> "Ingress"],
                  [group |-> "extensions", version |-> "v1beta1", kind |-> "ReplicaSet"]})

RawValidation ==
  Local([valid_users : {{}, {"tonio"}}, valid_actions : {{"eats"}}, valid_resources : {{"banana", "hay"}}],
        [user : {"tonio", "other"}, action : {"eats", "likes"}, resource : {"banana", "meat", None}])

\* Requests with the annotation of their operation, of another one and without annotations
EchoAnnotations == {None, {}, {annotation_key("CREATE"), annotation_key("DELETE")}, {annotation_key("UPDATE")}}

Echo ==
  Local({None}, [operation : EchoOperation \union {"PATCH"}, object : EchoAnnotations, oldObject : EchoAnnotations])

Sleeping == Local([sleep_milliseconds : {0, 1}], [sleep_duration : {None, "250", Malformed}])

--------------------------------------------------------------------------------
CveScenarios == "image-cve" :> Scans

MCScenarios ==
  "host-namespaces" :> HostNamespaces @@ "pod-privileged" :> Privileged
  @@ "readonly-root" :> ReadonlyRoot @@ "proc-mount" :> ProcMount @@ "apparmor" :> AppArmor
  @@ "flexvolume" :> FlexVolume @@ "share-pid" :> SharePid @@ "seccomp" :> Seccomp
  @@ "probes" :> Probes @@ "env-secrets" :> EnvSecrets @@ "annotations" :> Annotations
  @@ "labels" :> Labels @@ "environment-variable" :> EnvironmentVariables
  @@ "volume-mounts" :> VolumeMounts @@ "trusted-repos" :> TrustedRepositories
  @@ "verify-image-signatures" :> Signatures @@ CveScenarios
  @@ "high-risk-service-account" :> HighRisk @@ "webhook-services" :> WebhookServices
  @@ "project-quotas" :> ProjectQuotas @@ "project-labels" :> ProjectLabels
  @@ "namespace-labels" :> NamespaceLabels @@ "context-aware-demo" :> ContextAwareDemo
  @@ "policyserver-mapper" :> ServerMapper @@ "psa-label-enforcer" :> PsaLabels
  @@ "container-resources" :> ContainerResourcesPolicy
  @@ "storage-class" :> StorageClasses @@ "deprecated-api-versions" :> ApiVersions
  @@ "raw-validation" :> RawValidation @@ "echo" :> Echo @@ "sleeping" :> Sleeping
================================================================================
