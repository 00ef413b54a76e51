------------------------------- MODULE PodChecks -------------------------------
(***************************************************************************)
(* The policies that look at one pod and change nothing: host-namespaces,  *)
(* pod-privileged, readonly-root-filesystem, allowed-proc-mount-types,     *)
(* apparmor, flexvolume-drivers, share-pid-namespace, seccomp, probes and  *)
(* env-variable-secrets-scanner.  An error of the guest rejects.           *)
(*                                                                         *)
(* An object is [kind, annotations, spec]; the spec is None if the object, *)
(* its template or the template's spec is missing.  A container has a role *)
(* instead of a list it is in: each of these policies asks the same of     *)
(* every container of a list.                                              *)
(***************************************************************************)
EXTENDS Integers, Sequences, SequencesExt

CONSTANTS
  None,      \* an optional field that is not set
  Error      \* the answer of a host call that failed

\* The answer to a request: it may be another object than the one that was sent.
Answer(allowed, object) == [allowed |-> allowed, object |-> object]

WorkloadKinds == {"Deployment", "ReplicaSet", "StatefulSet", "DaemonSet",
                  "ReplicationController", "Job", "CronJob"}
PodKinds == WorkloadKinds \union {"Pod"}
Role == {"app", "init", "ephemeral"}

\* extract_pod_spec_from_object of the SDK
Extracted(object) == object.kind \in PodKinds

\* from_value::<Pod>
IsPod(object) == object.kind = "Pod"

EmptyContainer ==
  [role |-> "app", privileged |-> None, readOnly |-> None, procMount |-> None,
   seccomp |-> None, ports |-> {}, liveness |-> None, readiness |-> None,
   env |-> {}, mounts |-> None, image |-> None]

EmptySpec ==
  [containers |-> {}, hostIPC |-> None, hostNetwork |-> None, hostPID |-> None,
   sharePID |-> None, flexDrivers |-> {}, seccomp |-> None,
   automount |-> None, serviceAccount |-> None]

InRole(spec, roles) == {c \in spec.containers : c.role \in roles}

--------------------------------------------------------------------------------
\* host-namespaces-psp
in_range(port, range) == port >= range.min /\ port <= range.max

host_settings_valid(settings) ==
  \A range \in settings.allow_host_ports : range.min <= range.max

all_containers_allowed(containers, allowed_host_ports) ==
  \A c \in containers : \A port \in c.ports :
    \E range \in allowed_host_ports : in_range(port, range)

host_namespaces_validate(settings, object) ==
  Extracted(object) /\ object.spec # None =>
    /\ object.spec.hostIPC = TRUE => settings.allow_host_ipc
    /\ object.spec.hostNetwork = TRUE => settings.allow_host_network
    /\ object.spec.hostPID = TRUE => settings.allow_host_pid
    /\ all_containers_allowed(InRole(object.spec, {"init"}), settings.allow_host_ports)
    /\ all_containers_allowed(InRole(object.spec, {"app"}), settings.allow_host_ports)

--------------------------------------------------------------------------------
\* pod-privileged
privileged_validate_container(container) == container.privileged # TRUE

validate_roles(settings) ==
  {"app"} \union (IF settings.skip_init_containers THEN {} ELSE {"init"})
          \union (IF settings.skip_ephemeral_containers THEN {} ELSE {"ephemeral"})

pod_privileged_validate(settings, object) ==
  /\ Extracted(object)
  /\ object.spec # None =>
       \A c \in InRole(object.spec, validate_roles(settings)) : privileged_validate_container(c)

--------------------------------------------------------------------------------
\* readonly-root-filesystem-psp: the ephemeral containers are not looked at
does_not_have_readonly_root_filesystem(containers) ==
  \E c \in containers : c.readOnly # TRUE

readonly_validate(object) ==
  IsPod(object) /\ object.spec # None =>
    /\ ~does_not_have_readonly_root_filesystem(InRole(object.spec, {"init"}))
    /\ ~does_not_have_readonly_root_filesystem(InRole(object.spec, {"app"}))

\* Mutant: the other lists are forgotten.
app_proc_mount_unmasked(spec) == \E c \in InRole(spec, {"app"}) : c.procMount = "Unmasked"

\* allowed-proc-mount-types-psp: validate_settings accepts all that parse
ProcMountSettings == [allow_unmasked_proc_mount_type : BOOLEAN]

any_proc_mount_type_unmasked(spec) ==
  \E c \in InRole(spec, Role) : c.procMount = "Unmasked"

proc_mount_validate(settings, object) ==
  IsPod(object) =>
    /\ object.spec # None
    /\ ~settings.allow_unmasked_proc_mount_type => ~any_proc_mount_type_unmasked(object.spec)

\* apparmor-psp: annotations are [key, value]; all settings that parse are valid
ApparmorSettings(lists) == [allowed_profiles : lists]

get_apparmor_profiles(object) ==
  {a.value : a \in {b \in object.annotations : b.key = "apparmor"}}

apparmor_validate(settings, object) ==
  IsPod(object) /\ get_apparmor_profiles(object) \subseteq settings.allowed_profiles

\* flexvolume-drivers-psp: an entry of the settings has to name its driver.
Driver(name) == [driver |-> name]

flexvolume_settings_valid(settings) == Driver(None) \notin settings.allowed_flex_volumes

flexvolume_validate(settings, object) ==
  IsPod(object) =>
    object.spec # None /\ object.spec.flexDrivers \subseteq {d.driver : d \in settings.allowed_flex_volumes}

\* share-pid-namespace: an object without pod spec shares nothing
share_pid_validate(object) ==
  Extracted(object) /\ (object.spec # None => object.spec.sharePID # TRUE)

--------------------------------------------------------------------------------
\* seccomp-psp.  A profile of the settings is [type, path]: runtime/default,
\* docker/default, unconfined or localhost/ followed by a path.
ProfileType == {"Localhost", "RuntimeDefault", "Unconfined"}

seccomp_settings_valid(settings) ==
  /\ settings.profile_types \subseteq ProfileType
  /\ "Localhost" \in settings.profile_types => settings.localhost_profiles # {}

do_validate_annotations(settings, object) ==
  \A a \in object.annotations : a.key = "seccomp" => a.value \in settings.allowed_profiles

TypeOfProfile(profile) ==
  CASE profile.type \in {"runtime", "docker"} -> "RuntimeDefault"
    [] profile.type = "localhost" -> "Localhost"
    [] profile.type = "unconfined" -> "Unconfined"

\* Mutant: docker/default is not known as the default of the runtime.
runtime_profiles_only(settings, seccomp_profile) ==
  \E profile \in settings.allowed_profiles :
    profile.type # "docker" /\ TypeOfProfile(profile) = seccomp_profile.type

allowed_profiles_has_profile_type(settings, seccomp_profile) ==
  \E profile \in settings.allowed_profiles : TypeOfProfile(profile) = seccomp_profile.type

\* The path of the pod is compared with the end of localhost/<path>.
localhost_profile_defined_in_allowed_profiles(settings, seccomp_profile) ==
  \E profile \in settings.allowed_profiles :
    /\ profile.type = "localhost"
    /\ IsSuffix(seccomp_profile.path, <<"localhost/">> \o profile.path)

profile_is_allowed(settings, seccomp_profile) ==
  /\ \/ seccomp_profile.type \in settings.profile_types
     \/ allowed_profiles_has_profile_type(settings, seccomp_profile)
  /\ seccomp_profile.type = "Localhost" =>
       /\ seccomp_profile.path # None
       /\ \/ seccomp_profile.path \in settings.localhost_profiles
          \/ localhost_profile_defined_in_allowed_profiles(settings, seccomp_profile)

do_validate_pod_security_context(settings, spec) ==
  spec.seccomp # None => profile_is_allowed(settings, spec.seccomp)

do_validate_containers(settings, containers) ==
  \A c \in containers : c.seccomp # None => profile_is_allowed(settings, c.seccomp)

seccomp_validate(settings, object) ==
  /\ IsPod(object)
  /\ do_validate_annotations(settings, object)
  /\ object.spec # None =>
       /\ do_validate_pod_security_context(settings, object.spec)
       /\ do_validate_containers(settings, InRole(object.spec, Role))

--------------------------------------------------------------------------------
\* probes.  A probe is [field -> value or None], its settings [enforce, times] with
\* [field -> [minimum, limit] or None].
ProbeField == {"periodSeconds", "failureThreshold", "successThreshold",
               "terminationGracePeriodSeconds", "timeoutSeconds", "initialDelaySeconds"}

time_configuration_valid(time) ==
  /\ time.minimum # None \/ time.limit # None
  /\ time.minimum # None => time.minimum > 0
  /\ time.limit # None => time.limit > 0
  /\ time.minimum # None /\ time.limit # None => time.minimum <= time.limit

probe_configuration_valid(probe) ==
  \A field \in ProbeField : probe.times[field] # None => time_configuration_valid(probe.times[field])

probes_settings_valid(settings) ==
  /\ settings.liveness.enforce \/ settings.readiness.enforce
  /\ probe_configuration_valid(settings.liveness)
  /\ probe_configuration_valid(settings.readiness)

validate_time_configuration(value, time) ==
  time # None =>
    /\ value # None
    /\ time.minimum # None => value >= time.minimum
    /\ time.limit # None => value <= time.limit

validate_probe(probe, configuration) ==
  \A field \in ProbeField :
    validate_time_configuration(probe[field], configuration.times[field])

probes_validate_container(settings, c) ==
  /\ settings.liveness.enforce => c.liveness # None /\ validate_probe(c.liveness, settings.liveness)
  /\ settings.readiness.enforce => c.readiness # None /\ validate_probe(c.readiness, settings.readiness)

\* Of an ephemeral container the probes are only asked for.
validate_ephemeral_container(settings, c) ==
  /\ settings.liveness.enforce => c.liveness # None
  /\ settings.readiness.enforce => c.readiness # None

probes_validate(settings, object) ==
  /\ Extracted(object)
  /\ object.spec # None =>
       /\ \A c \in InRole(object.spec, {"app", "init"}) : probes_validate_container(settings, c)
       /\ \A c \in InRole(object.spec, {"ephemeral"}) : validate_ephemeral_container(settings, c)

--------------------------------------------------------------------------------
\* env-variable-secrets-scanner.  A variable is [name, value]; a value is None or
\* [text, decoded]: what the scanner finds in it, and in its base64 decoding, which is
\* None if there is none.
scan_env_var(value) ==
  IF value.text # {} \/ value.decoded = None THEN value.text ELSE value.decoded

scan_env_vars(container) ==
  UNION {scan_env_var(variable.value) :
           variable \in {known \in container.env : known.value # None}}

secrets_validate(object) ==
  /\ Extracted(object)
  /\ object.spec # None => \A c \in InRole(object.spec, Role) : scan_env_vars(c) = {}
================================================================================
