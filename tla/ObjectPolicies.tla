----------------------------- MODULE ObjectPolicies -----------------------------
(***************************************************************************)
(* The policies of other objects than pods: psa-label-enforcer writes the  *)
(* pod security labels of a Namespace, persistentvolumeclaim-storageclass  *)
(* allows or replaces the storage class of a claim, deprecated-api-versions *)
(* looks a kind up in a table of removed versions, raw-validation takes a  *)
(* request that is no Kubernetes object, echo and sleeping take any.       *)
(* Labels are written like those of ContextPolicies.                       *)
(***************************************************************************)
EXTENDS ContextPolicies

\* psa-label-enforcer.  The modes of the settings are [mode -> level or None] and
\* [mode -> version or None]; a label is [mode, field].
Mode == {"enforce", "audit", "warn"}

psa_settings_valid(settings) ==
  /\ \E mode \in Mode : settings.level[mode] # None
  /\ \A mode \in Mode : settings.version[mode] # None =>
       settings.version[mode] # "malformed" /\ settings.level[mode] # None

psa_labels(settings) ==
  [label \in {[mode |-> mode, field |-> "level"] : mode \in {m \in Mode : settings.level[m] # None}}
       \union {[mode |-> mode, field |-> "version"] : mode \in {m \in Mode : settings.version[m] # None}}
     |-> IF label.field = "level" THEN settings.level[label.mode] ELSE settings.version[label.mode]]

psa_validate(settings, object) ==
  Answer(TRUE, IF object.kind = "Namespace"
                 THEN [object EXCEPT !.labels = merge_labels(psa_labels(settings), @)] ELSE object)

--------------------------------------------------------------------------------
\* persistentvolumeclaim-storageclass.  Of the lists one is None; the default class is "".
\* Mutant: the fallback is not looked up in the lists.
any_fallback_valid(settings) ==
  /\ (settings.allowed = None) # (settings.denied = None)
  /\ {} \notin {settings.allowed, settings.denied}

storage_settings_valid(settings) ==
  LET allowed == settings.allowed
      denied == settings.denied
      fallback == settings.fallback IN
  /\ (allowed = None) # (denied = None)
  /\ denied # None => denied # {} /\ fallback \notin denied
  /\ allowed # None => allowed # {} /\ (fallback # None => fallback \in allowed)

mutate_or_reject(settings, object) ==
  IF settings.fallback = None THEN Answer(FALSE, object)
  ELSE Answer(TRUE, [object EXCEPT !.storageClass = settings.fallback])

storage_class_name(object) == IF object.storageClass = None THEN "" ELSE object.storageClass

is_allowed_class(settings, class) ==
  IF settings.allowed # None THEN class \in settings.allowed ELSE class \notin settings.denied

storage_validate(settings, object) ==
  IF object.kind # "PersistentVolumeClaim" \/ is_allowed_class(settings, storage_class_name(object))
    THEN Answer(TRUE, object)
   ELSE mutate_or_reject(settings, object)

--------------------------------------------------------------------------------
\* deprecated-api-versions.  The table of crates/versions is a sequence of rules; the versions
\* of Kubernetes are numbers, those that are not known None.
DeprecationRule(group, version, kind, deprecated_in, removed_in, component) ==
  [group |-> group, version |-> version, kind |-> kind, deprecated_in |-> deprecated_in,
   removed_in |-> removed_in, component |-> component]

IsAtLeast(version, bound) == bound # None /\ version >= bound

includes(rule, version) ==
  IsAtLeast(version, rule.removed_in) \/ IsAtLeast(version, rule.deprecated_in)

\* Mutant: only the version that removed it removes it.
is_only_removed_in(rule, version) == rule.removed_in # version

is_only_deprecated(rule, version) == ~IsAtLeast(version, rule.removed_in)

versions_settings_valid(settings) == settings.kubernetes_version # 0

deprecated_versions(rules, object) ==
  {i \in DOMAIN rules : rules[i].group = object.group /\ rules[i].version = object.version}

\* The first rule that includes the version, if there is one
check(rules, object, version) ==
  LET found == {i \in deprecated_versions(rules, object) :
                  rules[i].kind = object.kind /\ includes(rules[i], version)} IN
  {rules[i] : i \in {first \in found : \A j \in found : first <= j}}

deprecated_validate(rules, settings, object) ==
  \A rule \in check(rules, object, settings.kubernetes_version) :
    ~settings.deny_on_deprecation /\ is_only_deprecated(rule, settings.kubernetes_version)

\* crates/policy-metadata-helper: the rules of metadata.yml, which say what the API server asks
\* the policy about.  Other components of the table are no part of Kubernetes.
MetadataRule(api_groups, api_versions, operations) ==
  [api_groups |-> api_groups, api_versions |-> api_versions, operations |-> operations]

generate_metadata_rules(rules) ==
  LET relevant == {r \in ToSet(rules) : r.component = "k8s"}
      relevant_versions(group) == {r.version : r \in {known \in relevant : known.group = group}} IN
  {MetadataRule({r.group}, relevant_versions(r.group), {"CREATE"}) : r \in relevant}

\* The command check of the Makefile, which no workflow runs
check_metadata(metadata, rules) == metadata = generate_metadata_rules(rules)

--------------------------------------------------------------------------------
\* raw-validation: a request [user, action, resource]
raw_settings_valid(settings) ==
  settings.valid_users # {} /\ settings.valid_actions # {} /\ settings.valid_resources # {}

\* A request in which one of them is missing does not parse.
RawValidationRequest(request) == None \notin {request.user, request.action, request.resource}

raw_validate(settings, request) ==
  /\ RawValidationRequest(request)
  /\ request.user \in settings.valid_users
  /\ request.action \in settings.valid_actions
  /\ request.resource \in settings.valid_resources

--------------------------------------------------------------------------------
\* echo: a request [operation, object, oldObject] with the annotations of both objects, None
\* if there are none.
EchoOperation == {"CREATE", "UPDATE", "DELETE", "CONNECT"}

annotation_expr(operation, request) ==
  IF operation \in {"CREATE", "CONNECT"} THEN request.object ELSE request.oldObject

annotation_key(operation) == <<"io.kubewarden.policy.echo", operation>>

echo_validate(request) ==
  LET annotations == annotation_expr(request.operation, request) IN
  /\ request.operation \in EchoOperation
  /\ annotations # None => annotation_key(request.operation) \notin annotations

\* sleeping: an annotation of the object, None if it is not there, replaces the duration of the
\* settings; Malformed stands for a text that is no number.  The naps change nothing.
Malformed == "soon"

sleeping_settings_valid(settings) == settings.sleep_milliseconds > 0

extract_sleep_duration_from_annotation(object) ==
  IF object.sleep_duration = Malformed THEN Error ELSE object.sleep_duration

sleeping_validate(object) == extract_sleep_duration_from_annotation(object) # Error
================================================================================
