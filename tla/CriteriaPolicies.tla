---------------------------- MODULE CriteriaPolicies ----------------------------
(***************************************************************************)
(* The policies that compare the names found in an object with a list of   *)
(* names: annotations, labels and environment-variable, which share        *)
(* criteria_policy_base, and volumeMounts, which has four operators of its *)
(* own.  Settings are [criteria, values] or [operator, volumeMountsNames]. *)
(***************************************************************************)
EXTENDS PodChecks

Criteria == {"containsAnyOf", "doesNotContainAnyOf", "containsAllOf",
             "doesNotContainAllOf", "containsOtherThan", "doesNotContainOtherThan"}

base_settings_valid(settings) == settings.values # {}

contains_any_of(values, names) == values \intersect names # {}
does_not_contain_any_of(values, names) == values \intersect names = {}
contains_all_of(values, names) == values \ names = {}
does_not_contain_all_of(values, names) == ~(values \subseteq names)

\* Mutant: some value is missing instead of some name being another one.
lacks_a_value(values, names) == ~(values \subseteq names)

contains_other_than(values, names) == ~(names \subseteq values)
does_not_contain_other_than(values, names) == names \subseteq values

validate_values(settings, names) ==
  CASE settings.criteria = "containsAllOf" -> contains_all_of(settings.values, names)
    [] settings.criteria = "doesNotContainAllOf" -> does_not_contain_all_of(settings.values, names)
    [] settings.criteria = "containsAnyOf" -> contains_any_of(settings.values, names)
    [] settings.criteria = "doesNotContainAnyOf" -> does_not_contain_any_of(settings.values, names)
    [] settings.criteria = "containsOtherThan" -> contains_other_than(settings.values, names)
    [] settings.criteria = "doesNotContainOtherThan" -> does_not_contain_other_than(settings.values, names)

--------------------------------------------------------------------------------
\* A name of the settings must be one that Kubernetes takes: no policy takes BadName, a label
\* is not as long as LongName, and a variable has neither the dot nor the dash of DottedName.
BadName == "-"
LongName == "longer-than-63"
DottedName == "a.b"

labels_settings_valid(settings) ==
  base_settings_valid(settings) /\ settings.values \intersect {BadName, LongName} = {}

annotations_settings_valid(settings) == base_settings_valid(settings) /\ BadName \notin settings.values

environment_settings_valid(settings) ==
  base_settings_valid(settings) /\ settings.values \intersect {BadName, LongName, DottedName} = {}

\* annotations and labels: the keys of metadata.annotations or metadata.labels
get_resource_annotation_keys(object) == {a.key : a \in object.annotations}
get_resource_label_keys(object) == {l.key : l \in object.labels}

annotations_validate(settings, object) ==
  validate_values(settings, get_resource_annotation_keys(object))
labels_validate(settings, object) ==
  validate_values(settings, get_resource_label_keys(object))

\* environment-variable: an object without pod spec counts as a pod without containers.
get_containers_env_vars(container) == {variable.name : variable \in container.env}

environment_validate(settings, object) ==
  /\ Extracted(object)
  /\ object.spec # None =>
       \A c \in InRole(object.spec, Role) : validate_values(settings, get_containers_env_vars(c))

--------------------------------------------------------------------------------
\* volumeMounts
volume_settings_valid(settings) == settings.volumeMountsNames # {}

validate_volume_mounts(settings, names) ==
  CASE settings.operator = "allAreUsed" -> ~(settings.volumeMountsNames \subseteq names)
    [] settings.operator = "anyIn" -> settings.volumeMountsNames \intersect names = {}
    [] settings.operator = "anyNotIn" -> names \ settings.volumeMountsNames = {}
    [] settings.operator = "notAllAreUsed" -> settings.volumeMountsNames \ names = {}

\* A container without the list of mounts is not looked at.
volumes_validate(settings, object) ==
  /\ Extracted(object)
  /\ object.spec # None =>
       \A c \in InRole(object.spec, Role) :
         c.mounts # None => validate_volume_mounts(settings, c.mounts)
================================================================================
