--------------------------- MODULE PodAnswers_proofs ---------------------------
(***************************************************************************)
(* What the policies answer that only look at an object, whatever their    *)
(* settings: how one answer relates to the answer to another object or     *)
(* under other settings.  ReviewInv says that an answer is what the policy *)
(* computes from its settings and the object; the rest is about the        *)
(* operators that compute it.                                              *)
(***************************************************************************)
EXTENDS PolicyServer_proofs

\* A container as the only one has its fields but for the list it is in.
LEMMA AsAppFields ==
  ASSUME NEW c, c = [field \in DOMAIN EmptyContainer |-> c[field]]
  PROVE  LET d == AsApp(c) IN
         /\ d.role = "app"
         /\ d.privileged = c.privileged /\ d.readOnly = c.readOnly /\ d.procMount = c.procMount
         /\ d.seccomp = c.seccomp /\ d.ports = c.ports /\ d.liveness = c.liveness
         /\ d.readiness = c.readiness /\ d.env = c.env /\ d.mounts = c.mounts /\ d.image = c.image
<1>1. DOMAIN c = DOMAIN EmptyContainer
  OBVIOUS
<1>2. {"role", "privileged", "readOnly", "procMount", "seccomp", "ports", "liveness", "readiness",
       "env", "mounts", "image"} \subseteq DOMAIN EmptyContainer
  BY DEF EmptyContainer
<1>3. \A field \in DOMAIN c : AsApp(c)[field] = IF field = "role" THEN "app" ELSE c[field]
  BY <1>1, <1>2 DEF AsApp
<1> QED BY <1>1, <1>2, <1>3

\* The pod around it is the same otherwise.
LEMMA AloneFields ==
  ASSUME NEW o, CheckedPod(o), o.spec # None, NEW c \in o.spec.containers
  PROVE  LET a == Alone(o, c) IN
         /\ a.kind = o.kind /\ a.annotations = o.annotations /\ a.spec # None
         /\ a.spec.containers = {AsApp(c)}
         /\ a.spec.hostIPC = o.spec.hostIPC /\ a.spec.hostNetwork = o.spec.hostNetwork
         /\ a.spec.hostPID = o.spec.hostPID /\ a.spec.sharePID = o.spec.sharePID
         /\ a.spec.flexDrivers = o.spec.flexDrivers /\ a.spec.seccomp = o.spec.seccomp
<1> DEFINE spec == [o.spec EXCEPT !.containers = {AsApp(c)}]
<1>1. /\ o = [kind |-> o.kind, annotations |-> o.annotations, spec |-> o.spec]
      /\ DOMAIN o.spec = DOMAIN EmptySpec /\ Alone(o, c).spec # None
  BY DEF CheckedPod, PodObject, ContainersOf
<1>2. {"containers", "hostIPC", "hostNetwork", "hostPID", "sharePID", "flexDrivers", "seccomp"} \subseteq DOMAIN EmptySpec
  BY DEF EmptySpec
<1>3. Alone(o, c) = [kind |-> o.kind, annotations |-> o.annotations, spec |-> spec]
  BY <1>1 DEF Alone
<1>4. \A field \in DOMAIN EmptySpec : spec[field] = IF field = "containers" THEN {AsApp(c)} ELSE o.spec[field]
  BY <1>1
<1> HIDE DEF spec
<1>5. spec = Alone(o, c).spec
  BY <1>3
<1>6. /\ spec.containers = {AsApp(c)}
      /\ spec.hostIPC = o.spec.hostIPC /\ spec.hostNetwork = o.spec.hostNetwork
      /\ spec.hostPID = o.spec.hostPID /\ spec.sharePID = o.spec.sharePID
      /\ spec.flexDrivers = o.spec.flexDrivers /\ spec.seccomp = o.spec.seccomp
  BY <1>2, <1>4
<1> QED BY <1>1, <1>3, <1>5, <1>6

LEMMA ContainerFields ==
  ASSUME NEW o, CheckedPod(o), o.spec # None, NEW c \in o.spec.containers
  PROVE  c = [field \in DOMAIN EmptyContainer |-> c[field]]
  BY DEF CheckedPod, PodObject, ContainersOf

\* The list of the only container
LEMMA AloneInRole ==
  ASSUME NEW o, CheckedPod(o), o.spec # None, NEW c \in o.spec.containers, NEW roles
  PROVE  InRole(Alone(o, c).spec, roles) = IF "app" \in roles THEN {AsApp(c)} ELSE {}
<1>1. Alone(o, c).spec.containers = {AsApp(c)}
  BY AloneFields
<1>2. AsApp(c).role = "app"
  BY ContainerFields, AsAppFields
<1> QED BY <1>1, <1>2 DEF InRole

\* One proof for each policy: its check is one of the pod and one of each container.
LEMMA HostNamespacesAlike ==
  ASSUME NEW s, NEW o, CheckedPod(o), o.spec # None, o.spec.containers # {},
         \A c \in o.spec.containers : c.role \in {"app", "init"}
  PROVE  host_namespaces_validate(s, o) <=> \A c \in o.spec.containers : host_namespaces_validate(s, Alone(o, c))
<1> DEFINE ports(c) == \A port \in c.ports : \E range \in s.allow_host_ports : in_range(port, range)
           host == /\ o.spec.hostIPC = TRUE => s.allow_host_ipc
                   /\ o.spec.hostNetwork = TRUE => s.allow_host_network
                   /\ o.spec.hostPID = TRUE => s.allow_host_pid
<1>1. host_namespaces_validate(s, o) <=> (Extracted(o) => host /\ \A c \in o.spec.containers : ports(c))
  <2>1. o.spec.containers = InRole(o.spec, {"init"}) \union InRole(o.spec, {"app"})
    BY DEF InRole
  <2> QED BY <2>1 DEF host_namespaces_validate, all_containers_allowed
<1>2. ASSUME NEW c \in o.spec.containers
      PROVE  host_namespaces_validate(s, Alone(o, c)) <=> (Extracted(o) => host /\ ports(c))
  <2>1. InRole(Alone(o, c).spec, {"init"}) = {} /\ InRole(Alone(o, c).spec, {"app"}) = {AsApp(c)}
    BY AloneInRole
  <2>2. all_containers_allowed({}, s.allow_host_ports)
    BY DEF all_containers_allowed
  <2>3. all_containers_allowed({AsApp(c)}, s.allow_host_ports) <=> ports(c)
    BY ContainerFields, AsAppFields DEF all_containers_allowed
  <2>4. (Extracted(Alone(o, c)) <=> Extracted(o)) /\ Alone(o, c).spec # None
    BY AloneFields DEF Extracted
  <2>5. host <=> /\ Alone(o, c).spec.hostIPC = TRUE => s.allow_host_ipc
                 /\ Alone(o, c).spec.hostNetwork = TRUE => s.allow_host_network
                 /\ Alone(o, c).spec.hostPID = TRUE => s.allow_host_pid
    BY AloneFields
  <2> HIDE DEF ports, host
  <2> QED BY <2>1, <2>2, <2>3, <2>4, <2>5 DEF host_namespaces_validate
<1> HIDE DEF ports, host
<1> QED BY <1>1, <1>2

\* The others ask one thing of each container they look at, and some the same of the pod.
LEMMA Lists ==
  ASSUME NEW o, CheckedPod(o), o.spec # None, NEW roles, \A c \in o.spec.containers : c.role \in roles
  PROVE  /\ InRole(o.spec, roles) = o.spec.containers
         /\ \A c \in o.spec.containers : /\ "app" \in roles => InRole(Alone(o, c).spec, roles) = {AsApp(c)}
                                         /\ Alone(o, c).spec # None /\ Alone(o, c).kind = o.kind
<1>1. InRole(o.spec, roles) = o.spec.containers
  BY DEF InRole
<1>2. ASSUME NEW c \in o.spec.containers
      PROVE  /\ "app" \in roles => InRole(Alone(o, c).spec, roles) = {AsApp(c)}
             /\ Alone(o, c).spec # None /\ Alone(o, c).kind = o.kind
  <2>1. InRole(Alone(o, c).spec, roles) = IF "app" \in roles THEN {AsApp(c)} ELSE {}
    BY AloneInRole
  <2>2. Alone(o, c).spec # None /\ Alone(o, c).kind = o.kind
    BY AloneFields
  <2> QED BY <2>1, <2>2
<1> QED BY <1>1, <1>2

LEMMA PrivilegedAlike ==
  ASSUME NEW s, NEW o, CheckedPod(o), o.spec # None, o.spec.containers # {},
         \A c \in o.spec.containers : c.role \in validate_roles(s)
  PROVE  pod_privileged_validate(s, o) <=> \A c \in o.spec.containers : pod_privileged_validate(s, Alone(o, c))
<1>1. "app" \in validate_roles(s)
  BY DEF validate_roles
<1>2. \A c \in o.spec.containers : AsApp(c).privileged = c.privileged
  BY ContainerFields, AsAppFields
<1>3. pod_privileged_validate(s, o) <=> Extracted(o) /\ \A c \in o.spec.containers : c.privileged # TRUE
  BY Lists DEF pod_privileged_validate, privileged_validate_container
<1>4. ASSUME NEW c \in o.spec.containers
      PROVE  pod_privileged_validate(s, Alone(o, c)) <=> Extracted(o) /\ c.privileged # TRUE
  <2>1. InRole(Alone(o, c).spec, validate_roles(s)) = {AsApp(c)} /\ Alone(o, c).spec # None /\ Alone(o, c).kind = o.kind
    BY <1>1, Lists
  <2> QED BY <1>2, <2>1 DEF pod_privileged_validate, privileged_validate_container, Extracted
<1> QED BY <1>3, <1>4

LEMMA ReadonlyAlike ==
  ASSUME NEW o, CheckedPod(o), o.spec # None, o.spec.containers # {},
         \A c \in o.spec.containers : c.role \in {"app", "init"}
  PROVE  readonly_validate(o) <=> \A c \in o.spec.containers : readonly_validate(Alone(o, c))
<1>1. readonly_validate(o) <=> (IsPod(o) => \A c \in o.spec.containers : c.readOnly = TRUE)
  <2>1. o.spec.containers = InRole(o.spec, {"init"}) \union InRole(o.spec, {"app"})
    BY DEF InRole
  <2> QED BY <2>1 DEF readonly_validate, does_not_have_readonly_root_filesystem
<1>2. ASSUME NEW c \in o.spec.containers
      PROVE  readonly_validate(Alone(o, c)) <=> (IsPod(o) => c.readOnly = TRUE)
  <2>1. InRole(Alone(o, c).spec, {"init"}) = {} /\ InRole(Alone(o, c).spec, {"app"}) = {AsApp(c)}
    BY AloneInRole
  <2>2. Alone(o, c).spec # None /\ (IsPod(Alone(o, c)) <=> IsPod(o))
    BY AloneFields DEF IsPod
  <2>3. AsApp(c).readOnly = c.readOnly
    BY ContainerFields, AsAppFields
  <2> QED BY <2>1, <2>2, <2>3 DEF readonly_validate, does_not_have_readonly_root_filesystem
<1> QED BY <1>1, <1>2

LEMMA ProcMountAlike ==
  ASSUME NEW s, NEW o, CheckedPod(o), o.spec # None, o.spec.containers # {},
         \A c \in o.spec.containers : c.role \in Role
  PROVE  proc_mount_validate(s, o) <=> \A c \in o.spec.containers : proc_mount_validate(s, Alone(o, c))
<1>1. "app" \in Role /\ \A c \in o.spec.containers : AsApp(c).procMount = c.procMount
  BY ContainerFields, AsAppFields DEF Role
<1>2. any_proc_mount_type_unmasked(o.spec) <=> \E c \in o.spec.containers : c.procMount = "Unmasked"
  BY Lists DEF any_proc_mount_type_unmasked
<1>3. \A c \in o.spec.containers :
        any_proc_mount_type_unmasked(Alone(o, c).spec) <=> c.procMount = "Unmasked"
  BY <1>1, Lists DEF any_proc_mount_type_unmasked
<1>4. \A c \in o.spec.containers : Alone(o, c).spec # None /\ Alone(o, c).kind = o.kind
  BY Lists
<1> QED BY <1>2, <1>3, <1>4 DEF proc_mount_validate, IsPod

\* These three do not look at containers.
LEMMA PodFieldsAlike ==
  ASSUME NEW s, NEW o, CheckedPod(o), o.spec # None, NEW c \in o.spec.containers
  PROVE  /\ apparmor_validate(s, Alone(o, c)) <=> apparmor_validate(s, o)
         /\ flexvolume_validate(s, Alone(o, c)) <=> flexvolume_validate(s, o)
         /\ share_pid_validate(Alone(o, c)) <=> share_pid_validate(o)
<1>1. /\ Alone(o, c).kind = o.kind /\ Alone(o, c).annotations = o.annotations /\ Alone(o, c).spec # None
      /\ Alone(o, c).spec.flexDrivers = o.spec.flexDrivers /\ Alone(o, c).spec.sharePID = o.spec.sharePID
  BY AloneFields
<1>2. apparmor_validate(s, Alone(o, c)) <=> apparmor_validate(s, o)
  BY <1>1 DEF apparmor_validate, get_apparmor_profiles, IsPod
<1>3. flexvolume_validate(s, Alone(o, c)) <=> flexvolume_validate(s, o)
  BY <1>1 DEF flexvolume_validate, IsPod
<1>4. share_pid_validate(Alone(o, c)) <=> share_pid_validate(o)
  BY <1>1 DEF share_pid_validate, Extracted
<1> QED BY <1>2, <1>3, <1>4

LEMMA SeccompAlike ==
  ASSUME NEW s, NEW o, CheckedPod(o), o.spec # None, o.spec.containers # {},
         \A c \in o.spec.containers : c.role \in Role
  PROVE  seccomp_validate(s, o) <=> \A c \in o.spec.containers : seccomp_validate(s, Alone(o, c))
<1> DEFINE ok(c) == c.seccomp # None => profile_is_allowed(s, c.seccomp)
           pod == /\ IsPod(o) /\ do_validate_annotations(s, o)
                  /\ do_validate_pod_security_context(s, o.spec)
<1>1. "app" \in Role
  BY DEF Role
<1>2. seccomp_validate(s, o) <=> pod /\ \A c \in o.spec.containers : ok(c)
  BY Lists DEF seccomp_validate, do_validate_containers
<1>3. ASSUME NEW c \in o.spec.containers
      PROVE  seccomp_validate(s, Alone(o, c)) <=> pod /\ ok(c)
  <2>1. InRole(Alone(o, c).spec, Role) = {AsApp(c)} /\ Alone(o, c).spec # None /\ AsApp(c).seccomp = c.seccomp
    BY <1>1, Lists, ContainerFields, AsAppFields
  <2>2. do_validate_containers(s, {AsApp(c)}) <=> ok(c)
    BY <2>1 DEF do_validate_containers
  <2>3. /\ IsPod(Alone(o, c)) <=> IsPod(o)
        /\ do_validate_annotations(s, Alone(o, c)) <=> do_validate_annotations(s, o)
        /\ do_validate_pod_security_context(s, Alone(o, c).spec) <=> do_validate_pod_security_context(s, o.spec)
    BY AloneFields DEF IsPod, do_validate_annotations, do_validate_pod_security_context
  <2> HIDE DEF ok
  <2> QED BY <2>1, <2>2, <2>3 DEF seccomp_validate
<1> HIDE DEF ok, pod
<1> QED BY <1>2, <1>3

LEMMA ProbesAlike ==
  ASSUME NEW s, NEW o, CheckedPod(o), o.spec # None, o.spec.containers # {},
         \A c \in o.spec.containers : c.role \in {"app", "init"}
  PROVE  probes_validate(s, o) <=> \A c \in o.spec.containers : probes_validate(s, Alone(o, c))
<1>1. InRole(o.spec, {"ephemeral"}) = {}
  BY DEF InRole
<1>2. probes_validate(s, o) <=> Extracted(o) /\ \A c \in o.spec.containers : probes_validate_container(s, c)
  BY <1>1, Lists DEF probes_validate
<1>3. ASSUME NEW c \in o.spec.containers
      PROVE  probes_validate(s, Alone(o, c)) <=> Extracted(o) /\ probes_validate_container(s, c)
  <2>1. /\ InRole(Alone(o, c).spec, {"ephemeral"}) = {}
        /\ InRole(Alone(o, c).spec, {"app", "init"}) = {AsApp(c)}
    BY AloneInRole
  <2>2. probes_validate_container(s, AsApp(c)) <=> probes_validate_container(s, c)
    <3>1. AsApp(c).liveness = c.liveness /\ AsApp(c).readiness = c.readiness
      BY ContainerFields, AsAppFields
    <3> QED BY <3>1 DEF probes_validate_container
  <2>3. Alone(o, c).spec # None /\ (Extracted(Alone(o, c)) <=> Extracted(o))
    BY AloneFields DEF Extracted
  <2> QED BY <2>1, <2>2, <2>3 DEF probes_validate
<1> QED BY <1>2, <1>3

LEMMA SecretsAlike ==
  ASSUME NEW o, CheckedPod(o), o.spec # None, o.spec.containers # {},
         \A c \in o.spec.containers : c.role \in Role
  PROVE  secrets_validate(o) <=> \A c \in o.spec.containers : secrets_validate(Alone(o, c))
<1>1. "app" \in Role /\ \A c \in o.spec.containers : scan_env_vars(AsApp(c)) = scan_env_vars(c)
  BY ContainerFields, AsAppFields DEF Role, scan_env_vars
<1>2. secrets_validate(o) <=> Extracted(o) /\ \A c \in o.spec.containers : scan_env_vars(c) = {}
  BY Lists DEF secrets_validate
<1>3. \A c \in o.spec.containers : secrets_validate(Alone(o, c)) <=> Extracted(o) /\ scan_env_vars(c) = {}
  BY <1>1, Lists DEF secrets_validate, Extracted
<1> QED BY <1>2, <1>3

LEMMA VariablesAlike ==
  ASSUME NEW s, NEW o, CheckedPod(o), o.spec # None, o.spec.containers # {},
         \A c \in o.spec.containers : c.role \in Role
  PROVE  environment_validate(s, o) <=> \A c \in o.spec.containers : environment_validate(s, Alone(o, c))
<1> DEFINE ok(c) == validate_values(s, get_containers_env_vars(c))
<1>1. "app" \in Role /\ \A c \in o.spec.containers : get_containers_env_vars(AsApp(c)) = get_containers_env_vars(c)
  BY ContainerFields, AsAppFields DEF Role, get_containers_env_vars
<1>2. environment_validate(s, o) <=> Extracted(o) /\ \A c \in o.spec.containers : ok(c)
  BY Lists DEF environment_validate
<1>3. \A c \in o.spec.containers : environment_validate(s, Alone(o, c)) <=> Extracted(o) /\ ok(c)
  BY <1>1, Lists DEF environment_validate, Extracted
<1> HIDE DEF ok
<1> QED BY <1>2, <1>3

LEMMA MountsAlike ==
  ASSUME NEW s, NEW o, CheckedPod(o), o.spec # None, o.spec.containers # {},
         \A c \in o.spec.containers : c.role \in Role
  PROVE  volumes_validate(s, o) <=> \A c \in o.spec.containers : volumes_validate(s, Alone(o, c))
<1> DEFINE ok(c) == c.mounts # None => validate_volume_mounts(s, c.mounts)
<1>1. "app" \in Role /\ \A c \in o.spec.containers : AsApp(c).mounts = c.mounts
  BY ContainerFields, AsAppFields DEF Role
<1>2. volumes_validate(s, o) <=> Extracted(o) /\ \A c \in o.spec.containers : ok(c)
  BY Lists DEF volumes_validate
<1>3. \A c \in o.spec.containers : volumes_validate(s, Alone(o, c)) <=> Extracted(o) /\ ok(c)
  BY <1>1, Lists DEF volumes_validate, Extracted
<1> HIDE DEF ok
<1> QED BY <1>2, <1>3

\* trusted-repos judges image by image.
LEMMA ImageByImage ==
  ASSUME NEW s, NEW images
  PROVE  is_empty(validate_images(images, s)) <=>
           \A image \in images : Parses(image) =>
             /\ is_allowed_registry(ImageRef(image).registry, s)
             /\ is_allowed_tag(IF ImageRef(image).tag = None THEN "latest" ELSE ImageRef(image).tag, s)
             /\ is_allowed_image(ImageRef(image), s)
<1> DEFINE known == {image \in images : Parses(image)}
           tag(image) == IF ImageRef(image).tag = None THEN "latest" ELSE ImageRef(image).tag
           R == {r \in {ImageRef(image).registry : image \in known} : ~is_allowed_registry(r, s)}
           T == {t \in {tag(image) : image \in known} : ~is_allowed_tag(t, s)}
           I == {image \in known : ~is_allowed_image(ImageRef(image), s)}
<1>1. validate_images(images, s) = RejectionReasons(R, T, I)
  BY DEF validate_images
<1>2. is_empty(RejectionReasons(R, T, I)) <=> R = {} /\ T = {} /\ I = {}
  <2> HIDE DEF R, T, I
  <2> QED BY DEF is_empty, RejectionReasons
<1>3. R = {} <=> \A image \in known : is_allowed_registry(ImageRef(image).registry, s)
  OBVIOUS
<1>4. T = {} <=> \A image \in known : is_allowed_tag(tag(image), s)
  OBVIOUS
<1>5. I = {} <=> \A image \in known : is_allowed_image(ImageRef(image), s)
  OBVIOUS
<1> HIDE DEF R, T, I, tag
<1>6. is_empty(validate_images(images, s)) <=>
        \A image \in images : Parses(image) =>
          /\ is_allowed_registry(ImageRef(image).registry, s) /\ is_allowed_tag(tag(image), s)
          /\ is_allowed_image(ImageRef(image), s)
  BY <1>1, <1>2, <1>3, <1>4, <1>5
<1> QED BY <1>6 DEF tag

LEMMA ReposAlike ==
  ASSUME NEW s, NEW o, CheckedPod(o), o.spec # None, o.spec.containers # {},
         \A c \in o.spec.containers : c.role \in Role /\ c.image # None
  PROVE  repos_validate(s, o) <=> \A c \in o.spec.containers : repos_validate(s, Alone(o, c))
<1> DEFINE ok(image) == Parses(image) =>
             /\ is_allowed_registry(ImageRef(image).registry, s)
             /\ is_allowed_tag(IF ImageRef(image).tag = None THEN "latest" ELSE ImageRef(image).tag, s)
             /\ is_allowed_image(ImageRef(image), s)
<1>1. discover_images(o.spec) = {c.image : c \in o.spec.containers}
  <2> DEFINE images(role) == {c.image : c \in InRole(o.spec, {role})}
  <2>1. \A role : None \notin images(role)
    BY DEF InRole
  <2>2. {c.image : c \in o.spec.containers} = images("app") \union images("init") \union images("ephemeral")
    BY DEF InRole, Role
  <2>3. discover_images(o.spec) = (images("app") \ {None})
          \union UNION {images(role) : role \in {r \in {"init", "ephemeral"} : None \notin images(r)}}
    BY DEF discover_images
  <2> HIDE DEF images
  <2> QED BY <2>1, <2>2, <2>3
<1>2. ASSUME NEW c \in o.spec.containers PROVE discover_images(Alone(o, c).spec) = {c.image}
  <2> DEFINE images(role) == {d.image : d \in InRole(Alone(o, c).spec, {role})}
  <2>1. AsApp(c).image = c.image /\ c.image # None
    BY ContainerFields, AsAppFields
  <2>2. images("app") = {c.image} /\ images("init") = {} /\ images("ephemeral") = {}
    <3>1. /\ InRole(Alone(o, c).spec, {"app"}) = {AsApp(c)}
          /\ InRole(Alone(o, c).spec, {"init"}) = {} /\ InRole(Alone(o, c).spec, {"ephemeral"}) = {}
      BY AloneInRole
    <3> QED BY <2>1, <3>1
  <2>3. discover_images(Alone(o, c).spec) = (images("app") \ {None})
          \union UNION {images(role) : role \in {r \in {"init", "ephemeral"} : None \notin images(r)}}
    BY DEF discover_images
  <2> HIDE DEF images
  <2> QED BY <2>1, <2>2, <2>3
<1>3. repos_validate(s, o) <=> (Extracted(o) => \A c \in o.spec.containers : ok(c.image))
  <2>1. is_empty(validate_images(discover_images(o.spec), s)) <=> \A image \in discover_images(o.spec) : ok(image)
    BY ImageByImage
  <2> HIDE DEF ok
  <2> QED BY <1>1, <2>1 DEF repos_validate, response, validate_pod_spec
<1>4. ASSUME NEW c \in o.spec.containers
      PROVE  repos_validate(s, Alone(o, c)) <=> (Extracted(o) => ok(c.image))
  <2>1. is_empty(validate_images({c.image}, s)) <=> ok(c.image)
    <3>1. is_empty(validate_images({c.image}, s)) <=> \A image \in {c.image} : ok(image)
      BY ImageByImage
    <3> HIDE DEF ok
    <3> QED BY <3>1
  <2>2. Alone(o, c).spec # None /\ (Extracted(Alone(o, c)) <=> Extracted(o))
    BY AloneFields DEF Extracted
  <2> HIDE DEF ok
  <2> QED BY <1>2, <2>1, <2>2 DEF repos_validate, response, validate_pod_spec
<1> HIDE DEF ok
<1> QED BY <1>3, <1>4

\* The answer of a policy that looks at one pod
LEMMA PodAnswer ==
  ASSUME ReviewInv, Answered, policy \in PodPolicies
  PROVE  CheckedPod(object) /\ answer.allowed = Accepts(object)
<1>1. answer = Answer(Accepts(object), object)
  BY DEF ReviewInv, AnswerOK, Answered, Validate, PodPolicies
<1>2. Shaped(policy, object)
  BY DEF ReviewInv, AnswerOK, ShapesOK, Answered
<1> QED BY <1>1, <1>2 DEF Answer, Shaped

\* Whether a pod is accepted is decided container by container, whichever list a container is
\* in and whatever the other containers are: none is forgotten and none excuses another one.
THEOREM JudgedAlike == Spec => []ContainersAreJudgedAlike
<1>1. ReviewInv => ContainersAreJudgedAlike
  <2> SUFFICES ASSUME ReviewInv, Answered, policy \in PodPolicies,
                      \E c \in ContainersOf(object) : c.role \in LookedAt,
                      \A c \in ContainersOf(object) : c.role \in LookedAt,
                      policy = "trusted-repos" => \A c \in ContainersOf(object) : c.image # None
               PROVE  answer.allowed <=> \A c \in ContainersOf(object) : Accepts(Alone(object, c))
    BY DEF ContainersAreJudgedAlike
  <2>1. CheckedPod(object) /\ answer.allowed = Accepts(object)
    BY PodAnswer
  <2>2. object.spec # None /\ ContainersOf(object) = object.spec.containers /\ object.spec.containers # {}
    BY DEF ContainersOf
  <2>3. CASE policy = "host-namespaces"
    BY <2>1, <2>2, <2>3, HostNamespacesAlike DEF Accepts, LookedAt
  <2>4. CASE policy = "pod-privileged"
    BY <2>1, <2>2, <2>4, PrivilegedAlike DEF Accepts, LookedAt
  <2>5. CASE policy = "readonly-root"
    BY <2>1, <2>2, <2>5, ReadonlyAlike DEF Accepts, LookedAt
  <2>6. CASE policy = "proc-mount"
    BY <2>1, <2>2, <2>6, ProcMountAlike DEF Accepts, LookedAt
  <2>7. CASE policy \in {"apparmor", "flexvolume", "share-pid"}
    BY <2>1, <2>2, <2>7, PodFieldsAlike DEF Accepts
  <2>8. CASE policy = "seccomp"
    BY <2>1, <2>2, <2>8, SeccompAlike DEF Accepts, LookedAt
  <2>9. CASE policy = "probes"
    BY <2>1, <2>2, <2>9, ProbesAlike DEF Accepts, LookedAt
  <2>10. CASE policy = "env-secrets"
    BY <2>1, <2>2, <2>10, SecretsAlike DEF Accepts, LookedAt
  <2>11. CASE policy = "environment-variable"
    BY <2>1, <2>2, <2>11, VariablesAlike DEF Accepts, LookedAt
  <2>12. CASE policy = "volume-mounts"
    BY <2>1, <2>2, <2>12, MountsAlike DEF Accepts, LookedAt
  <2>13. CASE policy = "trusted-repos"
    BY <2>1, <2>2, <2>13, ReposAlike DEF Accepts, LookedAt
  <2> QED BY <2>3, <2>4, <2>5, <2>6, <2>7, <2>8, <2>9, <2>10, <2>11, <2>12, <2>13 DEF PodPolicies
<1> QED BY <1>1, ReviewCorrect, PTL
--------------------------------------------------------------------------------
\* seccomp.  A path ends with itself after localhost/.
LEMMA PathIsSuffix ==
  ASSUME NEW S, NEW path \in Seq(S), NEW x PROVE IsSuffix(path, <<x>> \o path)
<1> DEFINE whole == <<x>> \o path
           n == Len(path)
<1>1. /\ n \in Nat /\ Len(whole) = n + 1 /\ path = [i \in 1..n |-> path[i]]
      /\ \A i \in 1..n : whole[i + 1] = path[i]
  OBVIOUS
<1> HIDE DEF whole, n
<1>2. /\ Len(Reverse(path)) = n /\ Len(Reverse(whole)) = n + 1
      /\ \A i \in 1..n : Reverse(path)[i] = path[n - i + 1]
      /\ \A i \in 1..(n + 1) : Reverse(whole)[i] = whole[n + 1 - i + 1]
  BY <1>1 DEF Reverse, n
<1>3. \A i \in 1..n : Reverse(whole)[i] = Reverse(path)[i]
  <2> SUFFICES ASSUME NEW i \in 1..n PROVE Reverse(whole)[i] = Reverse(path)[i]
    OBVIOUS
  <2>1. n - i + 1 \in 1..n /\ n + 1 - i + 1 = (n - i + 1) + 1 /\ i \in 1..(n + 1)
    BY <1>1
  <2>2. Reverse(path)[i] = path[n - i + 1] /\ Reverse(whole)[i] = whole[(n - i + 1) + 1]
    BY <1>2, <2>1
  <2>3. whole[(n - i + 1) + 1] = path[n - i + 1]
    BY <1>1, <2>1
  <2> QED BY <2>2, <2>3
<1>4. SubSeq(Reverse(path), 1, n) = SubSeq(Reverse(whole), 1, n)
  BY <1>1, <1>2, <1>3
<1>5. IsPrefix(Reverse(path), Reverse(whole))
  <2>1. n <= n + 1
    BY <1>1
  <2> QED BY <1>2, <1>4, <2>1 DEF IsPrefix
<1> QED BY <1>5 DEF IsSuffix, whole

LEMMA TypesOfProfiles ==
  ASSUME NEW s, NEW p, NEW types, types.allowed_profiles = {},
         types.profile_types = s.profile_types \union {TypeOfProfile(q) : q \in s.allowed_profiles}
  PROVE  (p.type \in s.profile_types \/ allowed_profiles_has_profile_type(s, p)) <=>
         (p.type \in types.profile_types \/ allowed_profiles_has_profile_type(types, p))
  BY DEF allowed_profiles_has_profile_type

\* The settings s, their profiles of localhost, and the same in the form of types and paths
TwoForms(s, localhost, types) ==
  /\ localhost = {q.path : q \in {r \in s.allowed_profiles : r.type = "localhost"}}
  /\ \A q \in s.allowed_profiles : q.type = "localhost" => q.path \in Seq(STRING)
  /\ types.allowed_profiles = {}
  /\ types.profile_types = s.profile_types \union {TypeOfProfile(q) : q \in s.allowed_profiles}
  /\ types.localhost_profiles = s.localhost_profiles \union localhost

LEMMA ProfilesAgree ==
  ASSUME NEW s, NEW p, NEW localhost, NEW types, TwoForms(s, localhost, types)
  PROVE  /\ profile_is_allowed(types, p) => profile_is_allowed(s, p)
         /\ profile_is_allowed(s, p)
            /\ (p.path # None =>
                  \A path \in localhost : p.path # path => ~IsSuffix(p.path, <<"localhost/">> \o path))
              => profile_is_allowed(types, p)
<1> USE DEF TwoForms
<1>1. (p.type \in s.profile_types \/ allowed_profiles_has_profile_type(s, p)) <=>
      (p.type \in types.profile_types \/ allowed_profiles_has_profile_type(types, p))
  BY TypesOfProfiles
<1>2. ~localhost_profile_defined_in_allowed_profiles(types, p)
  BY DEF localhost_profile_defined_in_allowed_profiles
<1>3. \A path \in localhost : IsSuffix(path, <<"localhost/">> \o path)
  BY PathIsSuffix
<1>4. localhost_profile_defined_in_allowed_profiles(s, p) <=>
        \E path \in localhost : IsSuffix(p.path, <<"localhost/">> \o path)
  BY DEF localhost_profile_defined_in_allowed_profiles
<1>5. p.path \in types.localhost_profiles
        => p.path \in s.localhost_profiles \/ localhost_profile_defined_in_allowed_profiles(s, p)
  BY <1>3, <1>4
<1>6. ASSUME p.path # None, p.path \in s.localhost_profiles \/ localhost_profile_defined_in_allowed_profiles(s, p),
             \A path \in localhost : p.path # path => ~IsSuffix(p.path, <<"localhost/">> \o path)
      PROVE  p.path \in types.localhost_profiles
  BY <1>4, <1>6
<1> HIDE DEF IsSuffix
<1> QED BY <1>1, <1>2, <1>5, <1>6 DEF profile_is_allowed

\* The two forms of the settings of seccomp-psp agree for every profile that a pod can ask
\* for, but for paths that only end like an allowed one: there the list of profiles accepts
\* more.
THEOREM FormsAgree == Spec => []SeccompFormsAgree
<1>1. ReviewInv => SeccompFormsAgree
  <2> SUFFICES ASSUME ReviewInv, Answered, policy = "seccomp", object.annotations = {}, object.spec # None
               PROVE  SeccompFormsAgree
    BY DEF SeccompFormsAgree
  <2> DEFINE localhost == {p.path : p \in {q \in settings.allowed_profiles : q.type = "localhost"}}
             types == [allowed_profiles |-> {},
                       profile_types |-> settings.profile_types
                                         \union {TypeOfProfile(p) : p \in settings.allowed_profiles},
                       localhost_profiles |-> settings.localhost_profiles \union localhost]
             contexts == {object.spec.seccomp} \union {c.seccomp : c \in ContainersOf(object)}
             paths == {context.path : context \in contexts \ {None}} \ {None}
             asked == {object.spec.seccomp} \union {c.seccomp : c \in InRole(object.spec, Role)}
  <2>1. answer.allowed = seccomp_validate(settings, object)
    BY PodAnswer DEF PodPolicies, Accepts
  <2>2. \A q \in settings.allowed_profiles : q.type = "localhost" => q.path \in Seq(STRING)
    BY SettingsAssumption DEF ReviewInv, ConfigOK
  <2>3. asked \subseteq contexts
    BY DEF ContainersOf, InRole
  <2>4. \A s : seccomp_validate(s, object) <=>
                 IsPod(object) /\ \A p \in asked \ {None} : profile_is_allowed(s, p)
    BY DEF seccomp_validate, do_validate_annotations, do_validate_pod_security_context, do_validate_containers
  <2>5. ASSUME NEW p \in asked \ {None}
        PROVE  /\ profile_is_allowed(types, p) => profile_is_allowed(settings, p)
               /\ profile_is_allowed(settings, p)
                  /\ (\A path \in paths, q \in localhost : path # q => ~IsSuffix(path, <<"localhost/">> \o q))
                    => profile_is_allowed(types, p)
    <3>1. TwoForms(settings, localhost, types)
      BY <2>2 DEF TwoForms
    <3>2. p.path # None => p.path \in paths
      BY <2>3
    <3> HIDE DEF types, paths, localhost, contexts, asked
    <3>3. /\ profile_is_allowed(types, p) => profile_is_allowed(settings, p)
          /\ profile_is_allowed(settings, p)
             /\ (p.path # None =>
                   \A path \in localhost : p.path # path => ~IsSuffix(p.path, <<"localhost/">> \o path))
               => profile_is_allowed(types, p)
      BY <3>1, ProfilesAgree
    <3> QED BY <3>2, <3>3
  <2> HIDE DEF types, paths, asked, contexts, localhost
  <2>6. /\ seccomp_validate(types, object) => answer.allowed
        /\ answer.allowed
           /\ (\A path \in paths, p \in localhost : path # p => ~IsSuffix(path, <<"localhost/">> \o p)) =>
             seccomp_validate(types, object)
    BY <2>1, <2>4, <2>5
  <2> QED BY <2>6 DEF SeccompFormsAgree, types, paths, contexts, localhost
<1> QED BY <1>1, ReviewCorrect, PTL

--------------------------------------------------------------------------------
\* trusted-repos.  The full name of an image is its own full name.
LEMMA LibraryIsAdded ==
  ASSUME NEW S, NEW path \in Seq(S), NEW x, Len(path) = 1
  PROVE  Len(<<x>> \o path) # 1 /\ <<x>> \o path # <<>>
<1>1. Len(<<x>> \o path) = 2
  OBVIOUS
<1>2. Len(<<>>) = 0
  OBVIOUS
<1> QED BY <1>1, <1>2

LEMMA FullName ==
  ASSUME NEW image, image.path \in Seq(STRING)
  PROVE  /\ ImageRef(ImageRef(image)) = ImageRef(image)
         /\ Parses(image) => Parses(ImageRef(image))
<1> DEFINE hub == image.registry \in {None, "docker.io", "index.docker.io"}
<1>1. PICK r : r = reference(image)
  OBVIOUS
<1>2. /\ r.registry = IF hub THEN "docker.io" ELSE image.registry
      /\ r.path = IF hub /\ Len(image.path) = 1 THEN <<"library">> \o image.path ELSE image.path
      /\ r.tag = IF image.tag = None /\ image.digest = None THEN "latest" ELSE image.tag
      /\ r.digest = image.digest
      /\ r = [registry |-> r.registry, path |-> r.path, tag |-> r.tag, digest |-> r.digest]
  BY <1>1 DEF reference
<1>3. ImageRef(image) = [registry |-> to_lowercase(r.registry), path |-> r.path, tag |-> r.tag, digest |-> r.digest]
  <2>1. ImageRef(image) = [r EXCEPT !.registry = to_lowercase(r.registry)]
    BY <1>1 DEF ImageRef
  <2> QED BY <1>2, <2>1
<1>4. PICK full : full = ImageRef(image)
  OBVIOUS
<1>5. /\ full.registry = to_lowercase(r.registry) /\ full.path = r.path /\ full.tag = r.tag /\ full.digest = r.digest
      /\ full = [registry |-> full.registry, path |-> full.path, tag |-> full.tag, digest |-> full.digest]
  BY <1>3, <1>4
<1>6. Parses(image) => Parses(full)
  <2>1. CASE hub /\ Len(image.path) = 1
    BY <1>2, <1>5, <2>1, LibraryIsAdded DEF Parses
  <2>2. CASE ~(hub /\ Len(image.path) = 1)
    BY <1>2, <1>5, <2>2 DEF Parses
  <2> QED BY <2>1, <2>2
<1>7. to_lowercase(full.registry) = full.registry
  BY <1>5 DEF to_lowercase
<1>8. (IF full.tag = None /\ full.digest = None THEN "latest" ELSE full.tag) = full.tag
  BY <1>2, <1>5
<1>9. reference(full) = full
  <2>1. CASE hub
    <3>1. full.registry = "docker.io"
      BY <1>2, <1>5, <2>1 DEF to_lowercase
    <3>2. Len(full.path) # 1
      <4>1. CASE Len(image.path) = 1
        BY <1>2, <1>5, <2>1, <4>1, LibraryIsAdded
      <4>2. CASE Len(image.path) # 1
        BY <1>2, <1>5, <4>2
      <4> QED BY <4>1, <4>2
    <3> QED BY <1>5, <1>8, <3>1, <3>2 DEF reference
  <2>2. CASE ~hub
    <3>1. full.registry \notin {None, "docker.io", "index.docker.io"}
      BY <1>2, <1>5, <2>2, NoneAssumption DEF to_lowercase
    <3> QED BY <1>5, <1>8, <3>1 DEF reference
  <2> QED BY <2>1, <2>2
<1>10. ImageRef(full) = full
  BY <1>5, <1>7, <1>9 DEF ImageRef
<1> QED BY <1>4, <1>6, <1>10

Full(matchers) == {IF m.glob THEN m ELSE Exact(ImageRef(m.image)) : m \in matchers}

LEMMA FullMatchers ==
  ASSUME NEW matchers, \A m \in matchers : m.glob \in BOOLEAN /\ m.image.path \in Seq(STRING), NEW ref
  PROVE  /\ image_matches_any(ref, Full(matchers)) <=> image_matches_any(ref, matchers)
         /\ Full(matchers) = {} <=> matchers = {}
<1> DEFINE full(m) == IF m.glob THEN m ELSE Exact(ImageRef(m.image))
           registry_repo == [ref EXCEPT !.tag = None, !.digest = None]
           repository == [registry_repo EXCEPT !.registry = None]
           matched(m) ==
             \/ ~m.glob /\ ImageRef(m.image) \in {ref, ImageRef(repository), ImageRef(registry_repo)}
             \/ m.glob /\ pattern_matches(m.image, ref)
             \/ /\ m.glob /\ m.image.tag = None
                /\ pattern_matches(m.image, registry_repo) \/ pattern_matches(m.image, repository)
<1>1. \A ms : image_matches_any(ref, ms) <=> \E m \in ms : matched(m)
  BY DEF image_matches_any
<1>2. ASSUME NEW m \in matchers PROVE matched(full(m)) <=> matched(m)
  <2>1. CASE m.glob
    BY <2>1
  <2>2. CASE ~m.glob
    <3>1. full(m).glob = FALSE /\ full(m).image = ImageRef(m.image)
      BY <2>2 DEF Exact
    <3>2. ImageRef(full(m).image) = ImageRef(m.image)
      BY <3>1, FullName
    <3> HIDE DEF full, registry_repo, repository
    <3> QED BY <2>2, <3>1, <3>2
  <2> QED BY <2>1, <2>2
<1>3. Full(matchers) = {full(m) : m \in matchers}
  BY DEF Full
<1> HIDE DEF full, matched
<1> QED BY <1>1, <1>2, <1>3

\* In whichever way the settings and a pod write the name of an image, with or without the
\* registry, the library and the tag that stand for its absence, the answer is the same.
THEOREM NamesCanonical == Spec => []NamesAreCanonical
<1>1. ReviewInv => NamesAreCanonical
  <2> SUFFICES ASSUME ReviewInv, Answered, policy = "trusted-repos", object.spec # None
               PROVE  answer.allowed =
                        is_empty(validate_images(
                          Canonical(discover_images(object.spec)),
                          [settings EXCEPT !.images = [allow |-> Full(@.allow), reject |-> Full(@.reject)]]))
    BY DEF NamesAreCanonical, Full
  <2> DEFINE other == [settings EXCEPT !.images = [allow |-> Full(@.allow), reject |-> Full(@.reject)]]
             images == discover_images(object.spec)
             allowed(s, ref) == /\ is_allowed_registry(ref.registry, s)
                                /\ is_allowed_tag(IF ref.tag = None THEN "latest" ELSE ref.tag, s)
                                /\ is_allowed_image(ref, s)
  <2>1. answer.allowed = is_empty(validate_images(images, settings))
    <3>1. answer.allowed = repos_validate(settings, object) /\ Extracted(object)
      BY PodAnswer DEF PodPolicies, Accepts, ReviewInv, AnswerOK, ShapesOK, Shaped, Answered
    <3>2. repos_validate(settings, object) <=> is_empty(validate_images(images, settings))
      BY <3>1 DEF repos_validate, response, validate_pod_spec
    <3> QED BY <3>1, <3>2 DEF repos_validate, response, is_empty
  <2>2. /\ settings = [registries |-> settings.registries, tags |-> settings.tags, images |-> settings.images]
        /\ settings.images = [allow |-> settings.images.allow, reject |-> settings.images.reject]
        /\ \A m \in settings.images.allow \union settings.images.reject :
             m.glob \in BOOLEAN /\ m.image.path \in Seq(STRING)
    BY SettingsAssumption DEF ReviewInv, ConfigOK
  <2>3. /\ other.registries = settings.registries /\ other.tags = settings.tags
        /\ other.images.allow = Full(settings.images.allow)
        /\ other.images.reject = Full(settings.images.reject)
    BY <2>2
  <2>4. \A image \in images : image.path \in Seq(STRING)
    <3>1. object # None /\ \A c \in object.spec.containers : c.image # None => c.image.path \in Seq(STRING)
      BY DEF ReviewInv, AnswerOK, ShapesOK, Shaped, Answered, ContainersOf
    <3>2. \A image \in images : image # None /\ \E c \in object.spec.containers : image = c.image
      BY DEF discover_images, InRole
    <3> QED BY <3>1, <3>2
  <2> HIDE DEF other, images
  <2>5. \A ref : allowed(other, ref) <=> allowed(settings, ref)
    <3>1. \A ref : is_allowed_image(ref, other) <=> is_allowed_image(ref, settings)
      <4>1. \A ref : /\ image_matches_any(ref, other.images.allow) <=> image_matches_any(ref, settings.images.allow)
                     /\ image_matches_any(ref, other.images.reject) <=> image_matches_any(ref, settings.images.reject)
        BY <2>2, <2>3, FullMatchers
      <4>2. other.images.allow = {} <=> settings.images.allow = {}
        BY <2>2, <2>3, FullMatchers
      <4> QED BY <4>1, <4>2 DEF is_allowed_image
    <3>2. \A r : is_allowed_registry(r, other) <=> is_allowed_registry(r, settings)
      BY <2>3 DEF is_allowed_registry
    <3>3. \A tag : is_allowed_tag(tag, other) <=> is_allowed_tag(tag, settings)
      BY <2>3 DEF is_allowed_tag
    <3> QED BY <3>1, <3>2, <3>3
  <2>6. \A s, all : is_empty(validate_images(all, s)) <=>
                      \A image \in all : Parses(image) => allowed(s, ImageRef(image))
    BY ImageByImage
  <2> HIDE DEF allowed
  <2>7. (\A image \in Canonical(images) : Parses(image) => allowed(settings, ImageRef(image)))
          <=> \A image \in images : Parses(image) => allowed(settings, ImageRef(image))
    BY <2>4, FullName DEF Canonical
  <2>8. is_empty(validate_images(Canonical(images), other)) <=> is_empty(validate_images(images, settings))
    BY <2>5, <2>6, <2>7
  <2>9. is_empty(validate_images(Canonical(images), other)) = is_empty(validate_images(images, settings))
    BY <2>8 DEF is_empty
  <2> QED BY <2>1, <2>9 DEF other, images
<1> QED BY <1>1, ReviewCorrect, PTL

--------------------------------------------------------------------------------
\* deprecated-api-versions.  A rule that includes a version includes the later ones.
LEMMA IncludesLater ==
  ASSUME NEW rule, {rule.deprecated_in, rule.removed_in} \subseteq Nat \union {None},
         NEW v \in Nat, NEW w \in Nat, v <= w
  PROVE  /\ includes(rule, v) => includes(rule, w)
         /\ is_only_deprecated(rule, w) => is_only_deprecated(rule, v)
  BY NoneAssumption DEF includes, is_only_deprecated, IsAtLeast

LEMMA FirstRule ==
  ASSUME NEW o, NEW v,
         NEW i \in deprecated_versions(Rules, o), Rules[i].kind = o.kind, includes(Rules[i], v)
  PROVE  \E rule \in check(Rules, o, v) : rule.deprecated_in = Rules[i].deprecated_in
                                          /\ rule.removed_in = Rules[i].removed_in
<1> DEFINE included == {j \in deprecated_versions(Rules, o) : Rules[j].kind = o.kind /\ includes(Rules[j], v)}
<1>1. included \subseteq Nat /\ included # {}
  BY RulesAssumption DEF deprecated_versions
<1>2. PICK first \in included : \A j \in included : first <= j
  <2> HIDE DEF included
  <2> QED BY <1>1, SomeIsLeast
<1>3. Rules[first] \in check(Rules, o, v)
  BY <1>2 DEF check
<1>4. Rules[first].deprecated_in = Rules[i].deprecated_in /\ Rules[first].removed_in = Rules[i].removed_in
  BY RulesAssumption DEF deprecated_versions
<1> QED BY <1>3, <1>4

\* A kind that one version of Kubernetes refuses is refused by every later one, although only
\* the first of its rules is read.
THEOREM DeprecationMonotone == Spec => []DeprecationIsMonotone
<1>1. ReviewInv => DeprecationIsMonotone
  <2> SUFFICES ASSUME ReviewInv, Answered, policy = "deprecated-api-versions", ~answer.allowed,
                      NEW later \in Scenarios[policy].settings,
                      later.kubernetes_version >= settings.kubernetes_version,
                      later.deny_on_deprecation = settings.deny_on_deprecation
               PROVE  ~deprecated_validate(Rules, later, object)
    BY DEF DeprecationIsMonotone
  <2> DEFINE v == settings.kubernetes_version
             w == later.kubernetes_version
  <2>1. v \in Nat /\ w \in Nat /\ v <= w
    BY SettingsAssumption DEF ReviewInv, ConfigOK, SettingsOf
  <2>2. ~deprecated_validate(Rules, settings, object)
    BY DEF ReviewInv, AnswerOK, Answered, Validate, Accepts, Answer
  <2>3. PICK rule \in check(Rules, object, v) :
          ~(~settings.deny_on_deprecation /\ is_only_deprecated(rule, v))
    BY <2>2 DEF deprecated_validate
  <2>4. PICK i \in deprecated_versions(Rules, object) :
          rule = Rules[i] /\ Rules[i].kind = object.kind /\ includes(Rules[i], v)
    BY <2>3 DEF check
  <2>5. {rule.deprecated_in, rule.removed_in} \subseteq Nat \union {None}
    BY <2>4, RulesAssumption DEF deprecated_versions
  <2>6. includes(Rules[i], w) /\ (is_only_deprecated(rule, w) => is_only_deprecated(rule, v))
    BY <2>1, <2>4, <2>5, IncludesLater
  <2>7. PICK first \in check(Rules, object, w) : first.deprecated_in = rule.deprecated_in
                                                 /\ first.removed_in = rule.removed_in
    BY <2>4, <2>6, FirstRule
  <2>8. ~(~later.deny_on_deprecation /\ is_only_deprecated(first, w))
    BY <2>3, <2>6, <2>7 DEF is_only_deprecated
  <2> QED BY <2>7, <2>8 DEF deprecated_validate
<1> QED BY <1>1, ReviewCorrect, PTL
================================================================================
