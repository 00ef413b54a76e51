# TLA+ specifications of the Kubewarden policies

This directory holds TLA+ models of the policies of this repository, the TLC
configurations that check them on small instances, and theorems about them that TLAPS
checks for every instance. `PROJECT.json` lists the components, the runs, the mutants
that show each property can fail, the lines each definition models, the findings, the
hazards and the theorems.

## The system

A policy is a WebAssembly module. The API server sends each request that one of its
`metadata.yml` rules matches to the policy server, which calls the policy's `validate`
function with the request and the settings; the function accepts, rejects or mutates (it
answers with a new object). `validate_settings` is called once, when the policy is
loaded, and refuses bad settings. A policy keeps no state between calls. What is
stateful is around it: the objects that are stored, the order in which the webhooks are
called, the reads of the cluster a policy makes, and the pipeline that releases it.

| Component | State | Operations | What makes it correct |
|---|---|---|---|
| Mutating pod policies (capabilities, user-group, allowed-fsgroups, selinux, allow-privilege-escalation, pod-runtime-class, priority-class, pod-ndots) | none; the pod spec goes through them one after the other | `validate`, `validate_settings` | what they accept or write complies; they do not undo one another; they are idempotent; they keep what a user set |
| Admission (external: API server, policy server, controllers) | stored objects, the request in flight | create, update, attach, delete; call the webhooks; store | admitted templates get their Pods; no-op updates go through |
| unique-service-selector, unique-ingress | none of their own; the list they read is a cache | list, then decide | keys are unique although the list is older than the decision |
| Policies that call the host (verify-image-signatures, image-cve, high-risk-service-account, webhook exposure, project quotas, label propagation, the two demos) | the calls of one review and their answers | ask, decide | the verdict is right for something the review could see, whatever changed or failed between two calls |
| Policies that read their request only (checks of pods, criteria on names, trusted-repos, storage classes, psa labels, container-resources, deprecated versions, raw-validation, echo, sleeping) | none | pure functions of settings and request | containers are judged alike, equal names and equal settings get equal verdicts, what is mutated settles |
| `crates/` | none | the six criteria, the table of removed versions, the rules generated from it | as above |
| Release pipeline (`.github/workflows`, `updatecli`, `hack`) | tags, releases, runs, the registry, the artifacthub branch, pull requests | open the release PR, merge, tag, dispatch, build and publish, push; fail, rerun | a release never changes and is what its tag says; the latest one is the newest; what is merged gets released |
| Go policies on paths, sysctls, volumes, labels; Rego families; CEL and Kyverno engines; staging policies | none | one verdict for one object | see *Not modelled* |

What is hard: several mutating webhooks rewrite the same security contexts in an order
the administrator does not choose; a pod is evaluated again by each update although its
spec is immutable; a workload is admitted by its template and its Pods later, by other
rules; reads of the cluster race with requests in flight, and of several reads each may
fail or see another cluster; settings that are accepted have to make sense with every
request; runs of the release pipeline overlap, fail half way and are run again. The
`hazards` of `PROJECT.json` give the line of each and the properties that would catch it
going wrong.

The specifications are four, which share nothing:

| Specification | Modules | Runs |
|---|---|---|
| The mutation chain | `MutationChain`, one module per policy, `PodSpecs` | `ChainPods`, `ChainAll`, `ChainWorkload`, `CapabilitiesErase`, `ValidateOnly`, `SelinuxLevels` |
| Unique admission | `UniqueAdmission` | `UniqueKeys`, `ServiceUpdates` |
| The policy server | `PolicyServer`, one module per group of policies | `PolicyServer`, `PinnedLookups` |
| The release pipeline | `ReleasePipeline`, `PolicyReleases` | `ReleasePipeline`, `ArtifactHubRetries` |

They were written in that order: first the policies that disturb one another, then those
that race with the cluster, the other policies, and the pipeline.

## The mutation chain

| Module | Models |
|---|---|
| `PodSpecs` | the part of a pod spec the policies use, the SDK's answers, ranges of identifiers |
| `CapabilitiesPsp` | `capabilities-psp-policy`: `validate_added_caps`, `patch_object`, settings |
| `UserGroupPsp` | `user-group-psp-policy`: the user, group and supplemental group rules |
| `AllowedFsGroupsPsp` | `allowed-fsgroups-psp-policy` |
| `SelinuxPsp` | `selinux-psp-policy`, ephemeral containers included |
| `AllowPrivilegeEscalationPsp` | `allow-privilege-escalation-psp-policy` |
| `PodClassPolicies` | `pod-runtime-class-policy`, `priority-class-policy`, `pod-ndots-policy` |
| `MutationChain` | extends all of them: the requests, the webhooks, the stored objects, the properties |
| `MCMutationChain` | the instances for TLC |
| `PspPolicies_proofs`, `PolicyFrames_proofs`, `MutationChain_proofs` | the proofs |

A policy is an operator `*_validate(settings, spec)` that returns the verdict and the
spec, built from operators with the names of the functions it is made of;
`*Compliant(settings, spec)` says what its README promises of an admitted pod. Where
Rust returns `Err`, `Some(context)` or `None`, there is a predicate for the error, one
for "is mutated", and the operator that writes the fields.

`MutationChain` has five variables: the order of the webhooks and the settings (chosen
once, among all that are valid), the stored Pod and workload with the policies that ran
on them, the request in flight, the last verdict.

| Action | Stands for |
|---|---|
| `UserCreate`, `UserUpdateWorkload`, `UserUpdatePod` | a user's request; a Pod's spec is immutable, so a Pod is updated with the spec it has |
| `ControllerCreatePod` | the controller creates the missing Pod from the template |
| `AttachEphemeral` | the `pods/ephemeralcontainers` subresource, which no rule matches |
| `CallPolicy`, `SkipPolicy` | the next webhook: its `validate` runs, or its rules do not match |
| `Persist` | all webhooks answered: the object is stored, or the update of an immutable spec refused |
| `Delete` | |

One request is in flight at a time. That loses nothing here: these policies read nothing
but their request (and the registry, whose answer is chosen anew at each call), so
concurrent requests equal some sequence of them. It would not be true of the
context-aware policies, which have specifications of their own.

Abstractions: identifiers are small integers (the code only compares them), a SELinux
label stands for user, role and type, a level is equal to another up to the order of its
categories, and an absent security context is the empty one, since every policy starts
from `unwrap_or_default()`. All eight workload kinds have the same path through the
policies except for the rules: `WorkloadKind` is `Deployment` (capabilities does not
match its updates) or `ReplicationController` (it does).

### Properties

- `TypeOK`.
- `ChainInv`: at every point of the chain, and in every stored object, the pod complies
  with each policy that evaluated it, unless one that *disturbs* it was called later.
  `Disturbs` names the two that do: capabilities, which empties the context of a
  compliant container next to one that is not, and allowed-fsgroups, whose default
  replaces the pod security context. It is an inductive invariant once `TypeOK` is
  known; its first conjunct, `StoredObjectsComply`, is the part a reader cares for.
- `ExplicitFieldsKept`: what a user set survives the chain (unless a policy is
  configured to overwrite, or one that disturbs ran).
- `NoOpUpdatesAreStored`: an update that changes nothing in an admitted object goes
  through and changes nothing. It is the idempotence of the mutations, alone and
  together; without it a Pod could not even get a label.
- `TemplatePodsAreAdmitted`: a policy that admitted a template does not reject the Pod
  made from it.
- `AdmittedWorkloadsRun`: a workload all deployed policies admitted gets its Pod.

The exceptions in the properties are what the code really does, not convenience: the
runs below show what happens without the first, and the registry's answer
(`RegistryMatters`) may change between two evaluations of the same pod.

### Runs

All use `MCMutationChain`. Identifiers are 0 (root), 1 (in no range), 2 (the default)
and 3 (in a second range): below, at, between and above the bounds of the ranges. Each
container context differs from the empty or the compliant one in something one policy
looks at, so that every branch of a policy is taken.

| Run | Result | Question |
|---|---|---|
| `ChainPods` | passes | all 24 orders of the four policies that write security contexts, four settings, an app, an init and an ephemeral container, the registry answering with a good user, with root, or not at all |
| `ChainAll` | passes | all eight policies, two opposite orders, one container (so that capabilities erases nothing) and its ephemeral one |
| `ChainWorkload` | passes | a Deployment, its updates, deletions and Pods, under fairness |
| `CapabilitiesErase` | violation | are required capabilities dropped by every container? |
| `ValidateOnly` | violation | does `validate_only` accept what violates no rule? |
| `SelinuxLevels` | violation | is an admitted level the expected one? |

Two containers are enough for what one does to another (the erasing needs exactly two),
one Pod and one workload for what an object does to a later request, and a webhook's
effect on another is a matter of pairs, all of which occur in some order of `ChainPods`
or `ChainAll`. `CHECK_DEADLOCK FALSE` is set because the system may stop: in some
instances nothing is left to request once the one Pod exists.

Fairness (`FairSpec`): weak for `CallPolicy`, `SkipPolicy` and `Persist`, because the
API server answers each request; strong for `ControllerCreatePod`, because a controller
retries for ever and in reality is not held up by other requests: here they take turns,
so it is enabled again and again rather than always.

### Proofs

`tlapm` checks, for all values of the constants under the named assumptions (containers
are disjoint, settings pass `validate_settings`, requests are pods):

- `TypeCorrect`: `Spec => []TypeOK`.
- `ChainCompliance`: `Spec => []ChainInv`, and from it `StoredCompliance`: `Spec =>
  []StoredObjectsComply`.

The argument has three layers. `PspPolicies_proofs` shows for each policy that it
answers with a pod spec (`*Type`) and that what it lets through complies with it
(`*Complies`); this is where `validate_settings` is needed: the default of a rule is the
minimum of its first range, which is compliant only because the settings have a range
and its bounds are in order. `PolicyFrames_proofs` shows what each policy does not touch
(`*Frame`), and what compliance depends on (`ComplianceDependsOn`, `SelinuxDependsOn`).
`MutationChain_proofs` puts them together: `EvaluateComplies` (the policy that ran),
`EvaluatePreserves` (all others, but for the pairs in `Disturbs`), `EnforcedByNext` (one
webhook more), and the step lemmas with one step per action. `StoredObjectsComply` alone
is not inductive: `Persist` needs to know of the request in flight that it complies with
the policies called so far, and `CallPolicy` that those are the ones before its position
in the order, which is what `ChainInv` adds.

- `ExplicitKept`: `Spec => []ExplicitFieldsKept`. The property is inductive as it stands
  (`RequestKept` is the same with names for its parts): keeping is reflexive and
  transitive, and each policy keeps (`*Keep`, `SpecKeptTransitive` in
  `PolicyFrames_proofs`).
- `NoOpsAreStored`: `Spec => NoOpUpdatesAreStored`. That an object complies is not
  enough: a policy may write into a pod that complies, so `SettledInv` says more: with
  an answer of the registry that does not matter, a stored object is *settled* for each
  policy that evaluated it and was not disturbed, where `Settled` is compliance for most
  policies and a stronger condition for user-group and runtime-class. Each policy's
  output is settled for it (`*Settles`), what is settled it answers with itself
  (`*Stays`), and the other policies leave it settled (`SettledPreserved`). `NoOpKept`
  says that the request that repeats a settled object still holds what was submitted.
- `TemplatesAreAdmitted`: `Spec => TemplatePodsAreAdmitted`. Here objects need not be
  settled: allowed-fsgroups may have replaced a pod security context another policy
  filled in. `AdmittedInv` says of a stored object, and of a request, that the policies
  that ran on it, and those that vouch for it because they ran on its template, would
  let it through (`Admits`, which allows a mutation); `Unanswered`, that no answer is
  left from the request before.

The properties of steps follow from the invariants by looking at the one step that can
break them (`NoOpAnswered`, `NotVouchedStep`). Only model-checked:
`AdmittedWorkloadsRun`, which is liveness under fairness and out of the prover's reach.

## Unique admission

`UniqueAdmission` models `unique-service-selector-policy` and `unique-ingress-policy`: a
Service or an Ingress is compared with the ones in a list and rejected if one of them
has the same selector (in the namespace) or a host in common (in the cluster). The list
is the policy server's cache, other requests are between their own decision and their
own write, and both policies decide on a set of keys: the label pairs of the selector,
the hosts of the rules. `resource` is chosen once, since neither policy looks at the
objects of the other.

| Variable | Stands for |
|---|---|
| `stored`, `cache`, `watch` | the objects of the cluster, the cache's view of them, the events between the two |
| `inflight` | requests that were admitted and are not stored yet; `list` records whether an object was written since the list was current |
| `overlapped` | some object was stored with an outdated list (a history variable) |

| Action | Stands for |
|---|---|
| `Evaluate` | a create or an update reaches the policy, whose `validate` decides (`admits`, built from operators with the names of the functions); the listing may fail |
| `Persist` | the API server stores an admitted object; the requests in flight for the same object are refused, as their old version is not the stored one any more |
| `Delete` | no rule matches it |
| `Deliver` | the cache applies an event |

Properties:

- `UniqueInv`: keys are unique as long as no object was stored with an outdated list,
  because (`CurrentRequestsFit`) what was admitted on a current one fits the stored
  objects until one is written. This is the strongest promise a webhook that reads a
  snapshot can keep; without `overlapped` it would be false.
- `IngressUpdatesAreAdmitted`: an Ingress is not in conflict with itself. For Services
  the same is false (`ServiceUpdatesAreAdmitted`).
- `FreeKeysAreAdmitted`: a client that keeps asking for keys that stay free is admitted,
  whatever the list still shows of deleted objects, its own former version included.

| Run | Result | Question |
|---|---|---|
| `UniqueKeys` | passes | two requests at a time for three objects in two namespaces; no key, one key, and two keys that contain it |
| `ServiceUpdates` | violation | may a Service be updated that keeps its selector? |

Two requests are enough for one to outdate the list of the other, three objects for a
conflict within and across namespaces, and one undelivered event (`MaxLag`) for a list
that misses an object or still has a deleted one.

Fairness: weak for `Deliver` (the watch delivers); strong for `Persist`, which is only
held up when the bound of the watch is reached; strong for `Evaluate` of what a client
in `Wanted` asks for with a listing that works, because it retries and its request finds
a free slot now and then.

`UniqueAdmission_proofs` proves `IngressUpdates`, `Spec => []IngressUpdatesAreAdmitted`
(the policy leaves the Ingress itself out of the list it compares with), and
`Uniqueness`, `Spec => []UniqueInv`, for any objects, keys, slots and lag.
`UniqueUnlessOverlapped` is not inductive alone: `Persist` needs `CurrentRequestsFit`,
which `Evaluate` establishes by `AdmittedFits` (both policies find every conflict their
list shows) and each write makes vacuous (`WriteType`). `FreeKeysAreAdmitted` is
liveness and only model-checked.

## The policy server

`PolicyServer` is the host of all other policies that are modelled: one policy with one
set of settings is loaded, and answers requests one after the other, with calls to the
host in between. The policies do not call each other and keep no state, so that each
behaviour is about one of them.

| Module | Models |
|---|---|
| `PodChecks` | host-namespaces, pod-privileged, readonly-root-filesystem, allowed-proc-mount-types, apparmor, flexvolume-drivers, share-pid-namespace, seccomp, probes, env-variable-secrets-scanner |
| `CriteriaPolicies` | the criteria of `criteria_policy_base`; annotations, labels, environment-variable, volumeMounts |
| `TrustedRepos` | image references and trusted-repos |
| `ImageSignatures` | verify-image-signatures |
| `ImageCve` | image-cve: settings, manifest, report and verdict |
| `ContextPolicies` | high-risk-service-account, do-not-expose-admission-controller-webhook-services, the Rancher quotas and labels, namespace-label-propagator, context-aware-demo, ns-policyserver-mapper |
| `ObjectPolicies` | psa-label-enforcer, persistentvolumeclaim-storageclass, deprecated-api-versions with the `versions` and `policy-metadata-helper` crates, raw-validation, echo, sleeping |
| `ContainerResources` | container-resources |
| `PolicyServer` | the host and the requests, the properties |
| `MCPolicyServer` | for each policy a scenario: settings, objects, clusters and bounds |
| `PolicyServer_proofs` | the invariant of a review and what follows from it |
| `PodAnswers_proofs` | the policies that look at their object only |
| `HostReviews_proofs` | the images, the quotas, and what is stored and sent again |

A policy is given by `*_settings_valid(settings)`, by `*_questions(settings, object,
heard)`, the calls it may make next after what it has heard, and by `*_validate`, its
answer once no question is left. The code makes its calls one at a time and stops at the
first that fails; where the order of the calls follows from a hash set, `questions` has
several elements, and where the code asks on after an error, so does the model.

| Variable | Stands for |
|---|---|
| `policy`, `settings` | chosen once; the settings need not be valid |
| `server` | `new`, `loaded` or `refused` |
| `cluster`, `cache` | what can be read (registry, signatures, reports, rights, namespaces, services, ingresses, the project), and the view the policy server's cache has of it |
| `object`, `heard`, `answer` | the request under review, the calls and their answers, the verdict |
| `stored` | what was accepted |
| `views` | history: the clusters that a call of this review could see |
| `outdated` | history: some namespace was stored, or the limits lowered, while the counted use of the project was out of date |
| `requests`, `moves` | counters for the bounds of the scenario |

| Action | Stands for |
|---|---|
| `Load` | the policy is loaded if its settings are valid; verify-image-signatures may also be refused because a call its validation makes fails |
| `Submit` | a request with a new object, or one with an object that was stored before |
| `Ask` | the policy makes one of its calls: the answer is one for the cluster it sees now, or `Error` |
| `Decide` | no question is left and `validate` returns |
| `Store` | the API server stores an accepted object as the policy answered it |
| `Move` | someone changes the cluster between two steps |
| `Recount` | Rancher adds up what the namespaces of the project use |
| `Refresh` | the cache catches up |

`Source` says which policies read the cluster itself (the two Rancher policies, whose
host calls set `disable_cache`) and which the cache. The API server, the registry, the
signatures, the image scanner with its reports, Rancher and the clock are external.
`Asked` limits the requests to those that the rules of `metadata.yml` match where it
matters: quotas are checked when a namespace is created only, and
deprecated-api-versions is asked about what the rules `Metadata` match, generated from
the table of versions. (`ASSUME MetadataIsCurrent` is what the Makefile target
`check-policy-metadata` compares; no workflow runs it.)

### Abstractions

Objects have the fields their policy reads. Names of images are sequences of tokens
where a pattern or a parser looks into them, digests and labels are model values.
Containers are a set of records: the policies treat equal containers equally. What a
library decides (a text is a secret, a name is one Kubernetes takes, a pattern matches)
is an attribute of the value. Quantities of CPU and memory are integers, 0 being one
that is not set. Left out are messages, log lines and metrics.

Settings, objects and clusters come from `Scenarios`; `SettingsAssumption`,
`ObjectsAssumption`, `ClustersAssumption`, `QuotasAssumption` and `ReportsAssumption`
name the fields the proofs rely on: the types the code deserializes, that a report is
finite, that an image is not its own digest. `NoneAssumption` says that no value is
taken for an absent one, and `RulesAssumption` that the table of versions says the same
of a kind wherever it names it. TLC evaluates all of them.

### Properties

- `OppositesExclude`: a criterion and its opposite never accept the same names, an
  `allow` list and the same `reject` list never the same image; the six criteria are
  written out one by one, and so are the lists.
- `ContainersAreJudgedAlike`: a pod is accepted exactly if each of its containers would
  be as the only one. The thirteen pod policies walk app, init and ephemeral containers
  in loops of their own.
- `SeccompFormsAgree`: the two ways to write the settings of seccomp mean the same, but
  for a suffix of a path.
- `NamesAreCanonical`: `nginx` and `docker.io/library/nginx:latest` get the same
  verdict.
- `MutationsSettle`: what a policy stored it accepts unchanged, as long as the cluster
  stays and no call fails. One exception is what the code does: an entry of
  verify-image-signatures that names an image *with* its digest does not match before
  the digest is appended, and does afterwards, so that the stored pod can be rejected
  (`NamedWithDigest`).
- `VerifiedImagesAreStored`: what is stored is pinned to a digest that was signed by the
  signers of an entry, although the tag may move between two verifications.
- `VulnerableImagesAreRejected`: an accepted image had a report, found by a digest that
  it had during the review, with no more vulnerabilities than the settings allow
  (`Harmless`, written over sets, is the reference for the nested counting in the code).
- `HighRiskAccountsAreRejected`: the account of an accepted pod lacked each blocked
  right at some point of the review; a review of a right that failed counts as denied in
  the code, and the property says so.
- `WebhooksStayHidden`: a webhook's service was hidden at some point of the review. It
  cannot say more: services and ingresses are listed one after the other, and not again
  later.
- `QuotaKept`: namespaces keep within the quota of the project unless `outdated`.
- `PropagatedLabelsFollow`: what is written is what *one* view of the review showed,
  also in the template of a workload, and other labels stay.
- `StoredClassesAreAllowed`, `ResourcesFit`: what is stored obeys the settings, the
  fallback and the defaults the policy itself writes included, which only the validation
  of the settings can ensure; container-resources writes no request above its limit.
- `DeprecationIsMonotone`: what is refused for a version of Kubernetes is refused for
  all later ones, although the first matching row of the table decides alone.

### Runs

| Run | Result | Question |
|---|---|---|
| `PolicyServer` | passes | all scenarios, about 386 000 states |
| `PinnedLookups` | violation | is the report of an image with a digest looked up by that digest? |

The scenario of a policy that reads its request only has one request, but every
combination of its settings (invalid ones too) and objects; each object differs from one
that is accepted in something a branch of the code looks at. Policies that change
objects have two requests, so that the second can bring back what the first stored.
Those that call the host have one or two requests and one or two changes of the cluster:
enough for two calls of a review to see different clusters, for a call that fails after
one that worked, and for a cache that is behind. The quotas have three requests: two
namespaces that each fit alone, and one after the recount. `CHECK_DEADLOCK FALSE` is set
because requests are bounded and a refused policy is the end. There is no fairness here:
nothing waits for anything, and a host that never answers is one the code does not
handle either.

### Proofs

`PolicyServer_proofs` proves `ReviewCorrect`, `Spec => []ReviewInv`, for any scenarios
under these assumptions. `ReviewInv` says that a loaded policy has valid settings
(`ConfigOK`), that objects keep their form through mutation (`ShapesOK`), that every
view is a cluster of the scenario and the present one is among them (`ViewsOK`), that
each question heard was the policy's own and its answer is an `Error` or true of one of
the views (`HeardOK`), and that an answer is what `validate` returns when no question is
left (`AnswerOK`). The properties are not inductive alone: they speak of an answer, and
what it rests on was heard several steps ago, of a cluster that has changed since. From
it follow

- `WebhooksHidden`: with no question left, the ingresses and the services of each
  namespace were listed, and what a listing did not show no view it is true of had;
- `HighRiskRejected`: with no question left, each right was reviewed (the questions are
  asked in the order of the rules, so the proof takes the first rule that would have a
  question left);
- `LabelsFollow`, `OppositesDiffer`, `ResourcesAreFitted` (the defaults of settings in
  order are within the bounds) and `StoredClasses`, which needs one step more: what was
  stored stays.

`PodAnswers_proofs` needs `ReviewInv` only to know that the answer is `Accepts(object)`
for valid settings; the rest compares two evaluations.

- `JudgedAlike`: one lemma per policy (`*Alike`), each of which takes the loops of the
  policy apart into what holds of the pod and what holds of each container.
- `FormsAgree`: `ProfilesAgree` compares one context under both forms, `PathIsSuffix` is
  where they differ.
- `NamesCanonical`: a full name is its own full name (`FullName`), so that matching and
  the checks of registry and tag see the same.
- `DeprecationMonotone`: the first rule that includes a version may be another than the
  one that includes a later version; with `RulesAssumption` they say the same.

`HostReviews_proofs` adds to `ReviewInv` what is true between two calls.

- `ImagesAreVerified`: `OneOpen` says that at most one container is begun and not done.
  Without it a state without questions could have two open ones that wait for each
  other. From it: with nothing left to ask, every entry that matches was verified by
  each of its calls (`NothingLeftToAsk`).
- `VulnerableRejected`: `SelectorsOK` says that a report was asked for by a digest the
  image had in some view, or by its tag; with nothing left to ask each image has its
  report (`EveryImageHasReport`).
- `QuotasAreKept`: `QuotaInv` adds that what is used is a finite number. `Used` counts
  units, the pairs of a namespace and a number up to its limit, instead of adding limits
  up: a sum would need an induction, the cardinality of a union does not (`UnitsAdd`).
  Each case of `QuotaStore` and `QuotaMove` is where `outdated` is needed.
- `MutationsAreSettled`: `SettledInv` says that before the first change of the cluster
  all views are of the cluster as it is, and what is stored is `Settled`: its labels,
  class, server or containers are what the policy would write, its images are signed by
  all that would be asked. Each policy's output is settled (`*Settles`) and what is
  settled is answered with itself (`*Stays`).

Where an argument goes through a sequence or a set of numbers the proofs take the least
(`SomeIsLeast`, from the well-foundedness of the numbers in the library) or the last
element (`SomeIsLast`), which replaces the induction. Every property that the run
`PolicyServer` checks is proved.

## The release pipeline

`ReleasePipeline` follows the versions of one policy through `.github/workflows`.
Versions are numbered in the order of semver.

| Variable | Stands for |
|---|---|
| `version`, `pr` | `metadata.yml` on main, and in the open release pull request |
| `tagQueue`, `tagJob` | the release-tag job that waits (the concurrency group keeps one) and the one that runs |
| `tags` | for each tag the version in `metadata.yml` of its commit |
| `release` | the GitHub releases, with the version each file was built from |
| `run` | the latest run of release.yml for each tag: its step, its release, its count |
| `images`, `latest`, `hub`, `hubbed` | the registry, the release marked as latest, the artifacthub branch now and ever |
| `trouble`, `overlap` | history: what went wrong, and whether two releases were under way at once |

| Action | Stands for |
|---|---|
| `OpenReleasePR` | trigger-policy-release: the draft, the guard against a downgrade, the pull request |
| `Merge` | a maintainer or `merge-green-prs.sh` |
| `StartTagJob`, `CreateTag`, `Dispatch` | release-tag |
| `Check`, `PushImage`, `CreateRelease`, `UploadAsset`, `PublishRelease` | the jobs of release.yml up to the release |
| `StartHubJob`, `PushHub`, `LoseHubRace` | push-artifacthub, whose job is one at a time and retries when the branch moved |
| `TagJobFails`, `RunFails` | a job ends between two steps |
| `RerunTagJob`, `RerunFailedJobs`, `StartAgain`, `PushTagByHand`, `DeleteDraft` | what a maintainer does about it, mistakes included |

`PolicyReleases` is the abstract specification: a version is published once, with files
that were all built from its own tag, and what is listed has been released. Properties:

- `ReleaseInv`: a published release has its tag on the commit with its version, its
  image and all its files, and what is latest or listed is published.
- `ReleasesAreImmutable`: `Releases!Spec`, where `Releases` is `PolicyReleases` with
  `released <- Downloads` and `listed <- hub`: every step of the pipeline publishes,
  lists, or changes nothing users see.
- `NewestIsLatest`: with no trouble and no overlap the newest release is the latest one,
  and ArtifactHub is not ahead of it. Both exceptions are real: the jobs of two tags run
  concurrently, and a rerun of an old one marks it as latest.
- `MergedVersionsAreReleased`: what is merged is tagged, released and listed with no
  hand on it, or something failed or overlapped.

| Run | Result | Question |
|---|---|---|
| `ReleasePipeline` | passes | all of them, with two versions, six releases, three troubles, two files, two pushes |
| `ArtifactHubRetries` | violation | has a run that ended as a success pushed? |

Two versions are enough for one that overtakes another, two files for a release that is
half uploaded, three troubles for a failure, a rerun that fails again and one more; a
draft is used again, so that six releases are what two versions and three deleted drafts
can take, and one more. Five pushes and five troubles in `ArtifactHubRetries` are the
numbers of release.yml.

Fairness: weak for the release-tag steps and for the next step of each run, because
GitHub runs jobs that are due. Nothing is assumed of people: no pull request has to be
opened or merged, no job to be started again. `StartHubJob` waits for another run's
push, which ends by the same fairness.

`ReleasePipeline_proofs` proves, for any number of versions, releases, files, pushes and
troubles, `ReleasesAreConsistent` (`Spec => []ReleaseInv`) and
`PipelineImplementsReleases` (`Spec => ReleasesAreImmutable`). What users see is not
inductive: that a release gets no foreign file needs `FirstAssetIsFirst` and
`RunOwnsAssets` (two runs may share a draft, but only the one whose first file it has
goes on, the other fails since names of files are unique), and that it has its image and
tag needs `RunIsChecked`. `NewestIsMarked` is `Spec => []NewestIsLatest`, from
`ReleaseInv` and `OrderInv`: the open pull request is ahead of main, a tag is of a
merged version, and all work under way is for the version on main, so that the one
version a publication can mark is the newest there is; each exception (`trouble`,
`overlap`) is where one of these is lost. Only model-checked:
`MergedVersionsAreReleased` (liveness).

## Where the code and its documents differ

Shown by a run:

- capabilities: a compliant container loses its security context when another one is
  patched (`capabilities-psp-policy/src/mutate.rs:30`).
- user-group: `validate_only` rejects compliant pods
  (`user-group-psp-policy/src/lib.rs:151`, and 171, 230, 277).
- selinux: levels without exactly one colon are all equal
  (`selinux-psp-policy/src/settings.rs:78`).
- unique-service-selector: every update of a Service with a selector is rejected because
  of the Service's own stored version (`unique-service-selector-policy/src/lib.rs:63`).

- image-cve: the report of an image that names a digest is looked up by the whole name
  when the strategy is `tag` (`image-cve-policy/src/lib.rs:384`).
- release.yml: the loop around the push to the artifacthub branch ends as a success
  after the fifth failure (line 444).

Seen while modelling, and modelled as the code has it:

- allowed-fsgroups: the README says that the policy "defaults the `fsGroup` attribute";
  the patch replaces the whole pod security context (lib.rs 52-65).
- pod-runtime-class: the comment at lib.rs:50 says the object does not define a runtime;
  with `default_runtime_reserved` one that is defined and not reserved is replaced as
  well.
- user-group: with `MayRunAs`, the group in the pod security context is checked only
  when some container was mutated.
- capabilities: the README says Pods are evaluated only when created; the rules also
  match their updates.
- no rule matches `pods/ephemeralcontainers`: an ephemeral container is first seen by
  the selinux policy when the Pod is updated for another reason, and an update of a Pod
  whose spec it would change is refused by the API server.
- seccomp: a path is allowed if it *ends with* an entry of `localhost_profiles`.
- readonly-root-filesystem looks at app and init containers, not at ephemeral ones;
  probes demands them of init and ephemeral containers too, where Kubernetes refuses
  them (of the latter without a look at their times).
- do-not-expose: a backend of an ingress that names its port never equals a webhook's
  port.
- volumeMounts: the README speaks of `reject:`, the settings have `operator`.
- trusted-repos: an image with a digest and no tag counts as `latest`; an entry without
  a registry matches any; the registries and patterns of the settings are not
  lower-cased while those of images are; a list of init or ephemeral containers one of
  which has no image is skipped.
- image-cve: the selector of a report by tag has repository and tag, not the registry.
- annotations: the comment (settings.rs 22-24) allows names of 63 characters, the check
  longer ones.
- deprecated-api-versions: rows of cert-manager and Istio are compared with the version
  of Kubernetes (no rule of `metadata.yml` matches them, those are for Kubernetes and
  CREATE only).
- verify-image-signatures: an exact pattern does not match any more once the policy has
  appended the digest, and one that names the digest matches only then: a pod that was
  accepted and stored may be rejected when it is sent again (lib.rs:338); an image-less
  container makes this policy and image-cve trap.
- Rancher quotas: a limit that is raised by an update of a namespace is not checked.
- container-resources: a resource without values is "ignored" according to a comment
  (settings.go:135), yet its limits and requests have to be there (validate.go 36-68);
  settings with an empty `memory` alone are accepted.

## Not modelled

- hostpaths-psp, sysctl-psp, volumes-psp, safe-labels, safe-annotations, ingress,
  disallow-service: Go and Rego policies that compare one object with lists, patterns or
  prefixes, without state or calls. Their tests enumerate what a model would.
- The Rego families (`Controller*`, `Flux*`, `Istio*`, `Namespace*`, `NetworkPolicy*`,
  `PersistentVolume*`, `RBAC*`): one `violation` rule over one object each.
- The CEL and Kyverno engines are third-party interpreters; the policies wire them to
  the host.
- runtime-enforcer looks up one label; go-wasi-context-aware-test and raw-mutation are
  examples; of raw-validation the WASI and Rego variants are not read.
- Continuous integration, generators, test helpers and the policies under `staging` have
  no state that outlives a run, or are not released. Of `merge-green-prs.sh` the merge
  is modelled; which checks are green is GitHub's.

In all specifications, parsing, wording, logs and metrics are left out, and what is not
in the repository (API server, policy server, registry, scanner, Rancher, GitHub) is
modelled by what this code relies on.

What is only model-checked is liveness, which is out of the prover's reach:
`AdmittedWorkloadsRun`, `FreeKeysAreAdmitted` and `MergedVersionsAreReleased`. Every
invariant and every property of steps that a passing run checks is proved. What the
community modules' recursive operators compute is used through their definitions or not
at all: nothing is proved about a fold by induction.
