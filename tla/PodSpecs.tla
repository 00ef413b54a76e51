------------------------------- MODULE PodSpecs -------------------------------
(***************************************************************************)
(* The part of a Kubernetes PodSpec that the mutating policies of the      *)
(* repository read and write.  The types come from the k8s_openapi crate   *)
(* and the pod spec of a workload is its template: both are external code, *)
(* modelled from the fields the policies use.                              *)
(*                                                                         *)
(* An absent security context and one with no field set are the same       *)
(* value here: every policy starts from unwrap_or_default(), so it cannot  *)
(* tell them apart.                                                        *)
(***************************************************************************)
EXTENDS Integers, Sequences

CONSTANTS
  None,                \* the value of an Option that is not set
  AppContainers,       \* names in spec.containers
  InitContainers,      \* names in spec.initContainers
  EphemeralContainers, \* names in spec.ephemeralContainers
  Id,                  \* user and group identifiers (i64 in the code)
  Capability,          \* names of Linux capabilities, without "*"
  SELinuxLabel,        \* (user, role, type) triples of seLinuxOptions
  SELinuxLevelText,    \* levels, equal up to the order of their categories
  ClassName,           \* runtime classes and priority classes
  Ndots                \* values of the ndots DNS option

ASSUME IdAssumption == Id \subseteq Int /\ None \notin Id
ASSUME ContainersAssumption ==
  /\ AppContainers # {}
  /\ AppContainers \intersect EphemeralContainers = {}
  /\ InitContainers \intersect EphemeralContainers = {}

\* Containers of a workload's template: the ones the API server accepts when
\* the object is created.
TemplateContainers == AppContainers \union InitContainers
Containers == TemplateContainers \union EphemeralContainers

\* An optional boolean field.
Tri == {"unset", "no", "yes"}

SELinuxOptions == [label : SELinuxLabel, level : SELinuxLevelText \union {None}]
OptSELinux == SELinuxOptions \union {None}

\* None stands for "absent": it is no identifier, level, class name and so on.
ASSUME NoneAssumption ==
  /\ \A S \in SUBSET Id : None # S
  /\ None \notin SELinuxLevelText
  /\ None \notin SELinuxOptions
  /\ None \notin ClassName
  /\ None \notin Ndots

\* container.securityContext
SecurityContext ==
  [user    : Id \union {None},
   group   : Id \union {None},
   nonRoot : Tri,
   ape     : Tri,                \* allowPrivilegeEscalation
   add     : SUBSET Capability,  \* capabilities.add
   drop    : SUBSET Capability,  \* capabilities.drop
   selinux : OptSELinux]

EmptySecurityContext ==
  [user |-> None, group |-> None, nonRoot |-> "unset", ape |-> "unset",
   add |-> {}, drop |-> {}, selinux |-> None]

\* spec.securityContext.  supplementalGroups may be set to an empty list,
\* which is not the same as absent.
PodSecurityContext ==
  [user    : Id \union {None},
   group   : Id \union {None},
   nonRoot : Tri,
   fsGroup : Id \union {None},
   supplemental : {None} \union SUBSET Id,
   selinux : OptSELinux]

EmptyPodSecurityContext ==
  [user |-> None, group |-> None, nonRoot |-> "unset", fsGroup |-> None,
   supplemental |-> None, selinux |-> None]

PodSpec ==
  [psc      : PodSecurityContext,
   ctr      : [Containers -> SecurityContext],
   ephemeral : SUBSET EphemeralContainers,   \* the ones that are attached
   runtime  : ClassName \union {None},   \* runtimeClassName
   priority : ClassName \union {None},   \* priorityClassName
   ndots    : Ndots \union {None}]       \* the ndots entry of dnsConfig

\* The containers a pod has: an ephemeral one only once it is attached.
PresentContainers(spec) == TemplateContainers \union spec.ephemeral

\* What a policy answers: accept, reject, or mutate with a new pod spec.  An
\* accepted or rejected request leaves the pod spec as it was.
Response == [verdict : {"accept", "reject", "mutate"}, spec : PodSpec]
accept_request(spec) == [verdict |-> "accept", spec |-> spec]
reject_request(spec) == [verdict |-> "reject", spec |-> spec]
mutate_request(spec) == [verdict |-> "mutate", spec |-> spec]

\* Ranges of identifiers, as the settings of the PSP policies list them.
IdRange == [min : Id, max : Id]
\* Mutant: the minimum of a range, which is the default value, is outside of it.
InRangesAboveMin(id, ranges) ==
  \E i \in DOMAIN ranges : ranges[i].min < id /\ id <= ranges[i].max
InRanges(id, ranges) ==
  \E i \in DOMAIN ranges : ranges[i].min <= id /\ id <= ranges[i].max
ValidRanges(ranges) ==
  /\ ranges # << >>
  /\ \A i \in DOMAIN ranges : ranges[i].min <= ranges[i].max
================================================================================
