--------------------------- MODULE PspPolicies_proofs ---------------------------
(***************************************************************************)
(* Lemmas about the policies, for every settings their validate_settings   *)
(* accepts.  Each policy has a lemma Type (its answer is a Response), a    *)
(* lemma Complies (a pod it does not reject complies, as the policy leaves *)
(* it, with the settings) and a lemma Frame (the fields it leaves alone).  *)
(***************************************************************************)
EXTENDS CapabilitiesPsp, UserGroupPsp, AllowedFsGroupsPsp, SelinuxPsp,
        AllowPrivilegeEscalationPsp, PodClassPolicies, TLAPS

LEMMA EmptyContextsType ==
  /\ EmptySecurityContext \in SecurityContext
  /\ EmptyPodSecurityContext \in PodSecurityContext
BY DEF EmptySecurityContext, SecurityContext, EmptyPodSecurityContext,
       PodSecurityContext, Tri, OptSELinux

LEMMA CapabilitiesPatchType ==
  ASSUME NEW s \in CapabilitiesSettings, NEW sc \in SecurityContext
  PROVE  patch_container_security_context(s, sc) \in SecurityContext
<1>1. CASE needs_patch(s, sc)
  <2>1. s.default_add \subseteq Capability /\ s.required_drop \subseteq Capability
    BY DEF CapabilitiesSettings
  <2>2. sc.add \union s.default_add \in SUBSET Capability
    BY <2>1 DEF SecurityContext
  <2>3. sc.drop \union s.required_drop \in SUBSET Capability
    BY <2>1 DEF SecurityContext
  <2> QED
    BY <1>1, <2>2, <2>3 DEF patch_container_security_context, SecurityContext
<1>2. CASE ~needs_patch(s, sc)
  BY <1>2, EmptyContextsType DEF patch_container_security_context
<1> QED BY <1>1, <1>2

LEMMA CapabilitiesType ==
  ASSUME NEW s \in CapabilitiesSettings, NEW spec \in PodSpec
  PROVE  capabilities_validate(s, spec) \in Response
<1>1. \A c \in Containers : spec.ctr[c] \in SecurityContext
  BY DEF PodSpec
<1>2. patch_object(s, spec) \in PodSpec
  BY <1>1, CapabilitiesPatchType DEF patch_object, PodSpec
<1>3. QED
  BY <1>2 DEF capabilities_validate, Response, accept_request, reject_request,
              mutate_request

LEMMA DefaultId ==
  ASSUME NEW ranges \in Seq(IdRange), ValidRanges(ranges)
  PROVE  /\ ranges[1].min \in Id
         /\ ranges[1].min # None
         /\ InRanges(ranges[1].min, ranges)
<1>1. 1 \in DOMAIN ranges
  BY DEF ValidRanges
<1>2. ranges[1] \in IdRange
  BY <1>1
<1>3. ranges[1].min \in Id /\ ranges[1].max \in Id /\ ranges[1].min <= ranges[1].max
  BY <1>1, <1>2 DEF IdRange, ValidRanges
<1>4. \A i \in Int : i <= i
  OBVIOUS
<1>5. ranges[1].min <= ranges[1].min
  BY <1>3, <1>4, IdAssumption
<1> QED
  BY <1>1, <1>3, <1>5, IdAssumption DEF InRanges

LEMMA UserGroupDefaults ==
  ASSUME NEW s \in UserGroupSettings, valid_user_group_settings(s)
  PROVE  /\ \A r \in {s.run_as_user, s.run_as_group, s.supplemental_groups} :
              r.rule = "MustRunAs" =>
                /\ r.ranges[1].min \in Id
                /\ r.ranges[1].min # None
                /\ InRanges(r.ranges[1].min, r.ranges)
<1> SUFFICES ASSUME NEW r \in {s.run_as_user, s.run_as_group, s.supplemental_groups},
                    r.rule = "MustRunAs"
             PROVE  /\ r.ranges[1].min \in Id
                    /\ r.ranges[1].min # None
                    /\ InRanges(r.ranges[1].min, r.ranges)
  OBVIOUS
<1>1. r.ranges \in Seq(IdRange)
  BY DEF UserGroupSettings, RuleStrategy
<1>2. ValidRanges(r.ranges)
  BY DEF valid_user_group_settings, valid_rule_settings
<1> QED
  BY <1>1, <1>2, DefaultId

LEMMA UserGroupSetType ==
  ASSUME NEW s \in UserGroupSettings, valid_user_group_settings(s)
  PROVE  /\ \A sc \in SecurityContext : set_context(s, sc) \in SecurityContext
         /\ \A psc \in PodSecurityContext : set_context(s, psc) \in PodSecurityContext
         /\ \A psc \in PodSecurityContext : set_supplemental(s, psc) \in PodSecurityContext
<1>1. \A sc \in SecurityContext : set_run_as_user(s, sc) \in SecurityContext
  BY UserGroupDefaults DEF set_run_as_user, run_as_user_mutated, SecurityContext, Tri
<1>2. \A sc \in SecurityContext : set_run_as_group(s, sc) \in SecurityContext
  BY UserGroupDefaults DEF set_run_as_group, run_as_group_mutated, SecurityContext
<1>3. \A sc \in PodSecurityContext : set_run_as_user(s, sc) \in PodSecurityContext
  BY UserGroupDefaults DEF set_run_as_user, run_as_user_mutated, PodSecurityContext, Tri
<1>4. \A sc \in PodSecurityContext : set_run_as_group(s, sc) \in PodSecurityContext
  BY UserGroupDefaults DEF set_run_as_group, run_as_group_mutated, PodSecurityContext
<1>5. \A psc \in PodSecurityContext : set_supplemental(s, psc) \in PodSecurityContext
  <2> TAKE psc \in PodSecurityContext
  <2>1. CASE supplemental_mutated(s, psc)
    <3>1. {s.supplemental_groups.ranges[1].min} \in SUBSET Id
      BY <2>1, UserGroupDefaults DEF supplemental_mutated
    <3> QED
      BY <3>1, <2>1 DEF set_supplemental, PodSecurityContext
  <2>2. CASE ~supplemental_mutated(s, psc)
    BY <2>2 DEF set_supplemental
  <2> QED BY <2>1, <2>2
<1> QED
  BY <1>1, <1>2, <1>3, <1>4, <1>5 DEF set_context

LEMMA UserGroupType ==
  ASSUME NEW s \in UserGroupSettings, valid_user_group_settings(s),
         NEW spec \in PodSpec, NEW images
  PROVE  user_group_validate(s, spec, images) \in Response
<1>1. spec.psc \in PodSecurityContext /\ \A c \in Containers : spec.ctr[c] \in SecurityContext
  BY DEF PodSpec
<1>2. user_group_patch(s, spec) \in PodSpec
  <2>1. set_supplemental(s, IF some_context_mutated(s, spec)
                               THEN set_context(s, spec.psc) ELSE spec.psc)
          \in PodSecurityContext
    BY <1>1, UserGroupSetType
  <2>2. [c \in Containers |->
           IF c \in TemplateContainers THEN set_context(s, spec.ctr[c]) ELSE spec.ctr[c]]
          \in [Containers -> SecurityContext]
    BY <1>1, UserGroupSetType
  <2> QED
    BY <2>1, <2>2 DEF user_group_patch, PodSpec
<1> QED
  BY <1>2 DEF user_group_validate, Response, accept_request, reject_request,
              mutate_request

\* set_context writes what the rules ask for, and what it leaves as it is in a
\* container that is not rejected already complies.
LEMMA UserGroupContextComplies ==
  ASSUME NEW s \in UserGroupSettings, valid_user_group_settings(s),
         NEW sc \in SecurityContext, NEW image, ~context_rejected(s, sc, image)
  PROVE  UserCompliant(s, set_context(s, sc)) /\ GroupCompliant(s, set_context(s, sc))
<1> DEFINE su == set_run_as_user(s, sc)
           sg == set_run_as_group(s, su)
<1>1. su \in SecurityContext /\ sg \in SecurityContext
  BY UserGroupDefaults DEF set_run_as_user, run_as_user_mutated, set_run_as_group,
     run_as_group_mutated, SecurityContext, Tri
<1>2. sg.user = su.user /\ sg.nonRoot = su.nonRoot
  BY <1>1 DEF set_run_as_group, SecurityContext
<1>3. su.group = sc.group
  BY DEF set_run_as_user, SecurityContext
<1>4. UserCompliant(s, su)
  <2>1. CASE s.run_as_user.rule = "MustRunAs"
    <3>1. CASE defaults(s, s.run_as_user, sc.user)
      <4>1. su.user = s.run_as_user.ranges[1].min
        BY <2>1, <3>1 DEF set_run_as_user, run_as_user_mutated, SecurityContext
      <4> QED
        BY <2>1, <4>1, UserGroupDefaults DEF UserCompliant
    <3>2. CASE ~defaults(s, s.run_as_user, sc.user)
      <4>1. su = sc
        BY <2>1, <3>2 DEF set_run_as_user, run_as_user_mutated
      <4>2. ~s.validate_only /\ (sc.user # None => InRanges(sc.user, s.run_as_user.ranges))
        BY <2>1, <3>2 DEF context_rejected, run_as_user_rejected
      <4>3. sc.user # None
        BY <3>2, <4>2 DEF defaults
      <4> QED
        BY <2>1, <4>1, <4>2, <4>3 DEF UserCompliant
    <3> QED BY <3>1, <3>2
  <2>2. CASE s.run_as_user.rule = "MustRunAsNonRoot"
    <3>1. su = [sc EXCEPT !.nonRoot = "yes"]
      BY <2>2 DEF set_run_as_user, run_as_user_mutated
    <3>2. sc.user # 0
      BY <2>2 DEF context_rejected, run_as_user_rejected
    <3> QED
      BY <2>2, <3>1, <3>2 DEF UserCompliant, SecurityContext
  <2>3. CASE s.run_as_user.rule \notin {"MustRunAs", "MustRunAsNonRoot"}
    BY <2>3 DEF UserCompliant
  <2> QED BY <2>1, <2>2, <2>3
<1>5. GroupCompliant(s, sg)
  <2>1. CASE run_as_group_mutated(s, su)
    <3>1. sg.group = s.run_as_group.ranges[1].min
      BY <2>1, <1>1 DEF set_run_as_group, SecurityContext
    <3> QED
      BY <2>1, <3>1, UserGroupDefaults DEF GroupCompliant, run_as_group_mutated
  <2>2. CASE ~run_as_group_mutated(s, su)
    <3>1. sg.group = sc.group
      BY <2>2, <1>3 DEF set_run_as_group
    <3>2. s.run_as_group.rule \in {"MustRunAs", "MayRunAs"} =>
            (sc.group # None => InRanges(sc.group, s.run_as_group.ranges))
      BY <2>2, <1>3 DEF context_rejected, run_as_group_rejected, run_as_group_mutated
    <3>3. s.run_as_group.rule = "MustRunAs" => sc.group # None
      BY <2>2, <1>3 DEF context_rejected, run_as_group_rejected, run_as_group_mutated,
                        defaults
    <3> QED
      BY <3>1, <3>2, <3>3 DEF GroupCompliant
  <2> QED BY <2>1, <2>2
<1> QED
  BY <1>2, <1>4, <1>5 DEF set_context, UserCompliant

LEMMA SupplementalComplies ==
  ASSUME NEW s \in UserGroupSettings, valid_user_group_settings(s),
         NEW psc \in PodSecurityContext, ~supplemental_rejected(s, psc)
  PROVE  SupplementalCompliant(s, set_supplemental(s, psc))
<1> DEFINE r == s.supplemental_groups
<1>1. CASE supplemental_mutated(s, psc)
  <2>1. set_supplemental(s, psc).supplemental = {r.ranges[1].min}
    BY <1>1 DEF set_supplemental, PodSecurityContext
  <2>2. {r.ranges[1].min} # None
    BY <1>1, UserGroupDefaults, NoneAssumption DEF supplemental_mutated
  <2> QED
    BY <1>1, <2>1, <2>2, UserGroupDefaults DEF SupplementalCompliant, supplemental_mutated
<1>2. CASE ~supplemental_mutated(s, psc)
  <2>1. set_supplemental(s, psc) = psc
    BY <1>2 DEF set_supplemental
  <2> QED
    BY <1>2, <2>1 DEF SupplementalCompliant, supplemental_rejected, supplemental_mutated,
                      defaults
<1> QED BY <1>1, <1>2

\* The patched or accepted pod complies with the user, group and supplemental
\* group rules.
LEMMA UserGroupComplies ==
  ASSUME NEW s \in UserGroupSettings, valid_user_group_settings(s),
         NEW spec \in PodSpec, NEW images,
         user_group_validate(s, spec, images).verdict # "reject"
  PROVE  UserGroupCompliant(s, user_group_validate(s, spec, images).spec)
<1> DEFINE image(c) == IF s.validate_image THEN images[c] ELSE NoImageConfig
           r == user_group_validate(s, spec, images)
           mutated == some_context_mutated(s, spec) \/ supplemental_mutated(s, spec.psc)
           psc == IF some_context_mutated(s, spec)
                    THEN set_context(s, spec.psc) ELSE spec.psc
<1>1. ~user_group_rejected(s, spec, images)
  BY DEF user_group_validate, reject_request
<1>2. /\ \A c \in TemplateContainers : ~context_rejected(s, spec.ctr[c], image(c))
      /\ ~supplemental_rejected(s, spec.psc)
  BY <1>1 DEF user_group_rejected
<1>3. spec.psc \in PodSecurityContext /\ \A c \in Containers : spec.ctr[c] \in SecurityContext
  BY DEF PodSpec
<1>4. psc \in PodSecurityContext /\ psc.supplemental = spec.psc.supplemental
  <2>1. \A x \in PodSecurityContext :
          /\ set_run_as_user(s, x).supplemental = x.supplemental
          /\ set_run_as_group(s, x).supplemental = x.supplemental
    BY DEF set_run_as_user, set_run_as_group, PodSecurityContext
  <2>2. set_run_as_user(s, spec.psc) \in PodSecurityContext
    BY <1>3, UserGroupDefaults DEF set_run_as_user, run_as_user_mutated,
       PodSecurityContext, Tri
  <2> QED
    BY <1>3, <2>1, <2>2, UserGroupSetType DEF set_context
<1>5. ~supplemental_rejected(s, psc)
  BY <1>2, <1>4 DEF supplemental_rejected, defaults
<1>6. CASE mutated
  <2>1. r.spec = user_group_patch(s, spec)
    BY <1>1, <1>6 DEF user_group_validate, mutate_request
  <2>2. r.spec.psc = set_supplemental(s, psc)
    BY <2>1 DEF user_group_patch, PodSpec
  <2>3. \A c \in TemplateContainers : r.spec.ctr[c] = set_context(s, spec.ctr[c])
    BY <2>1 DEF user_group_patch, PodSpec, Containers
  <2>4. \A c \in TemplateContainers :
          /\ UserCompliant(s, set_context(s, spec.ctr[c]))
          /\ GroupCompliant(s, set_context(s, spec.ctr[c]))
    <3> TAKE c \in TemplateContainers
    <3>1. spec.ctr[c] \in SecurityContext
      BY <1>3 DEF Containers
    <3>2. ~context_rejected(s, spec.ctr[c], image(c))
      BY <1>2
    <3> HIDE DEF image
    <3> QED
      BY <3>1, <3>2, UserGroupContextComplies
  <2>5. SupplementalCompliant(s, set_supplemental(s, psc))
    BY <1>4, <1>5, SupplementalComplies
  <2> QED
    BY <2>2, <2>3, <2>4, <2>5 DEF UserGroupCompliant
<1>7. CASE ~mutated
  <2>1. r.spec = spec
    BY <1>1, <1>7 DEF user_group_validate, accept_request
  <2>2. \A c \in TemplateContainers : set_context(s, spec.ctr[c]) = spec.ctr[c]
    <3> TAKE c \in TemplateContainers
    <3>1. ~run_as_user_mutated(s, spec.ctr[c]) /\ ~run_as_group_mutated(s, spec.ctr[c])
      BY <1>7 DEF some_context_mutated, context_mutated
    <3> QED
      BY <3>1 DEF set_context, set_run_as_user, set_run_as_group
  <2>3. \A c \in TemplateContainers :
          UserCompliant(s, spec.ctr[c]) /\ GroupCompliant(s, spec.ctr[c])
    <3> TAKE c \in TemplateContainers
    <3>1. spec.ctr[c] \in SecurityContext
      BY <1>3 DEF Containers
    <3>2. ~context_rejected(s, spec.ctr[c], image(c))
      BY <1>2
    <3> HIDE DEF image
    <3> QED
      BY <2>2, <3>1, <3>2, UserGroupContextComplies
  <2>4. set_supplemental(s, spec.psc) = spec.psc
    BY <1>7 DEF set_supplemental
  <2>5. SupplementalCompliant(s, spec.psc)
    BY <1>2, <1>3, <2>4, SupplementalComplies
  <2> QED
    BY <2>1, <2>3, <2>5 DEF UserGroupCompliant
<1> QED
  BY <1>6, <1>7

(***************************************************************************)
(* allowed-fsgroups                                                        *)
(***************************************************************************)

LEMMA FsGroupsType ==
  ASSUME NEW s \in FsGroupsSettings, valid_fsgroups_settings(s), NEW spec \in PodSpec
  PROVE  fsgroups_validate(s, spec) \in Response
<1>1. ASSUME s.rule = "MustRunAs"
      PROVE  pod_with_defaulted_fs_group(s, spec) \in PodSpec
  <2>1. s.ranges \in Seq(IdRange) /\ ValidRanges(s.ranges)
    BY <1>1 DEF FsGroupsSettings, valid_fsgroups_settings
  <2>2. s.ranges[1].min \in Id
    BY <2>1, DefaultId
  <2>3. [EmptyPodSecurityContext EXCEPT !.fsGroup = s.ranges[1].min] \in PodSecurityContext
    BY <2>2, EmptyContextsType DEF PodSecurityContext
  <2> QED
    BY <2>3 DEF pod_with_defaulted_fs_group, PodSpec
<1> QED
  BY <1>1 DEF fsgroups_validate, validate_fs_group, Response, accept_request,
     reject_request, mutate_request

LEMMA FsGroupsComplies ==
  ASSUME NEW s \in FsGroupsSettings, valid_fsgroups_settings(s), NEW spec \in PodSpec,
         fsgroups_validate(s, spec).verdict # "reject"
  PROVE  FsGroupsCompliant(s, fsgroups_validate(s, spec).spec)
<1>1. CASE s.rule = "MustRunAs" /\ spec.psc.fsGroup = None
  <2>1. s.ranges \in Seq(IdRange) /\ ValidRanges(s.ranges)
    BY <1>1 DEF FsGroupsSettings, valid_fsgroups_settings
  <2>2. fsgroups_validate(s, spec).spec.psc.fsGroup = s.ranges[1].min
    BY <1>1 DEF fsgroups_validate, mutate_request, pod_with_defaulted_fs_group, PodSpec,
       EmptyPodSecurityContext
  <2> QED
    BY <2>1, <2>2, DefaultId DEF FsGroupsCompliant
<1>2. CASE ~(s.rule = "MustRunAs" /\ spec.psc.fsGroup = None)
  BY <1>2 DEF fsgroups_validate, validate_fs_group, accept_request, reject_request,
     FsGroupsCompliant
<1> QED BY <1>1, <1>2

(***************************************************************************)
(* allow-privilege-escalation                                              *)
(***************************************************************************)

LEMMA EscalationType ==
  ASSUME NEW s, NEW spec \in PodSpec
  PROVE  escalation_validate(s, spec) \in Response
<1>1. \A c \in Containers : [spec.ctr[c] EXCEPT !.ape = "no"] \in SecurityContext
  BY DEF PodSpec, SecurityContext, Tri
<1>2. patch_containers(spec) \in PodSpec
  BY <1>1 DEF patch_containers, PodSpec
<1> QED
  BY <1>2 DEF escalation_validate, Response, accept_request, reject_request, mutate_request

LEMMA EscalationComplies ==
  ASSUME NEW s \in EscalationSettings, NEW spec \in PodSpec,
         escalation_validate(s, spec).verdict # "reject"
  PROVE  EscalationCompliant(s, escalation_validate(s, spec).spec)
<1>1. \A c \in TemplateContainers : spec.ctr[c].ape # "yes"
  BY DEF escalation_validate, reject_request, has_allowed_privilege_escalation_container
<1>2. \A c \in TemplateContainers : patch_containers(spec).ctr[c].ape = "no"
  BY DEF patch_containers, PodSpec, Containers, SecurityContext
<1>3. CASE ~s.default_allow
  <2>1. escalation_validate(s, spec).spec = patch_containers(spec)
    BY <1>3 DEF escalation_validate, accept_request, reject_request, mutate_request
  <2> QED
    BY <1>2, <2>1 DEF EscalationCompliant
<1>4. CASE s.default_allow
  <2>1. escalation_validate(s, spec).spec = spec
    BY <1>4 DEF escalation_validate, accept_request, reject_request
  <2> QED
    BY <1>1, <1>4, <2>1 DEF EscalationCompliant
<1> QED BY <1>3, <1>4

(***************************************************************************)
(* pod-runtime-class, priority-class and pod-ndots                         *)
(***************************************************************************)

LEMMA ClassesType ==
  ASSUME NEW spec \in PodSpec
  PROVE  /\ \A s \in RuntimeSettings : runtime_validate(s, spec) \in Response
         /\ \A s \in PrioritySettings : priority_validate(s, spec) \in Response
         /\ \A s \in NdotsSettings : ndots_validate(s, spec) \in Response
<1>1. ASSUME NEW s \in RuntimeSettings
      PROVE  runtime_validate(s, spec) \in Response
  <2>1. s.fallback # None => [spec EXCEPT !.runtime = s.fallback] \in PodSpec
    BY DEF RuntimeSettings, PodSpec
  <2> QED
    BY <2>1 DEF runtime_validate, mutate_or_reject, Response, accept_request,
       reject_request, mutate_request
<1>2. ASSUME NEW s \in PrioritySettings
      PROVE  priority_validate(s, spec) \in Response
  <2>1. s.default # None => [spec EXCEPT !.priority = s.default] \in PodSpec
    BY DEF PrioritySettings, PodSpec
  <2> QED
    BY <2>1 DEF priority_validate, Response, accept_request, reject_request, mutate_request
<1>3. ASSUME NEW s \in NdotsSettings
      PROVE  ndots_validate(s, spec) \in Response
  <2>1. enforce_ndots(s, spec) \in PodSpec
    BY DEF NdotsSettings, PodSpec, enforce_ndots
  <2> QED
    BY <2>1 DEF ndots_validate, Response, accept_request, mutate_request
<1> QED BY <1>1, <1>2, <1>3

LEMMA RuntimeComplies ==
  ASSUME NEW s \in RuntimeSettings, valid_runtime_settings(s), NEW spec \in PodSpec,
         runtime_validate(s, spec).verdict # "reject"
  PROVE  RuntimeCompliant(s, runtime_validate(s, spec).spec)
<1> DEFINE r == runtime_validate(s, spec)
<1>1. None \notin s.reserved
  BY NoneAssumption DEF RuntimeSettings
<1>2. CASE s.fallback # None
  <2>1. s.fallback \notin s.reserved
    BY <1>2 DEF valid_runtime_settings
  <2>2. r.spec.runtime = s.fallback
    BY <1>2 DEF runtime_validate, mutate_or_reject, mutate_request, PodSpec
  <2> QED
    BY <1>2, <2>1, <2>2 DEF RuntimeCompliant
<1>3. CASE s.fallback = None
  <2>1. r.spec = spec /\ ~s.default_reserved
    BY <1>3 DEF runtime_validate, mutate_or_reject, accept_request, reject_request
  <2>2. spec.runtime \notin s.reserved
    BY <1>1, <1>3 DEF runtime_validate, mutate_or_reject, reject_request
  <2> QED
    BY <2>1, <2>2 DEF RuntimeCompliant
<1> QED BY <1>2, <1>3

LEMMA PriorityComplies ==
  ASSUME NEW s \in PrioritySettings, valid_priority_settings(s), NEW spec \in PodSpec,
         priority_validate(s, spec).verdict # "reject"
  PROVE  PriorityCompliant(s, priority_validate(s, spec).spec)
<1> DEFINE r == priority_validate(s, spec)
<1>1. None \notin s.denied
  BY NoneAssumption DEF PrioritySettings
<1>2. CASE spec.priority = None /\ s.default # None
  <2>1. r.spec.priority = s.default
    BY <1>2 DEF priority_validate, mutate_request, PodSpec
  <2> QED
    BY <1>2, <2>1 DEF PriorityCompliant, valid_priority_settings
<1>3. CASE spec.priority # None \/ s.default = None
  <2>1. r.spec = spec
    BY <1>3 DEF priority_validate, accept_request, reject_request
  <2>2. /\ spec.priority \notin s.denied
        /\ s.allowed # {} => spec.priority = None \/ spec.priority \in s.allowed
        /\ s.default # None => spec.priority # None
    BY <1>1, <1>3 DEF priority_validate, reject_request
  <2> QED
    BY <2>1, <2>2 DEF PriorityCompliant
<1> QED BY <1>2, <1>3

LEMMA NdotsComplies ==
  ASSUME NEW s \in NdotsSettings, NEW spec \in PodSpec
  PROVE  NdotsCompliant(s, ndots_validate(s, spec).spec)
<1>1. enforce_ndots(s, spec).ndots = s.ndots
  BY DEF enforce_ndots, PodSpec
<1>2. ndots_validate(s, spec).spec = enforce_ndots(s, spec)
  BY DEF ndots_validate, accept_request, mutate_request
<1> QED
  BY <1>1, <1>2 DEF NdotsCompliant

(***************************************************************************)
(* selinux                                                                 *)
(***************************************************************************)

\* The pod with the missing options filled in, as do_validate patches it.
DefaultedOptions(s, spec) ==
  [spec EXCEPT
     !.psc = default_options(s.options, @),
     !.ctr = [c \in Containers |->
       IF c \in PresentContainers(spec) THEN default_options(s.options, @[c]) ELSE @[c]]]

\* Whatever selinux admits is the defaulted pod, and no option in it disagrees
\* with the expected ones.
LEMMA SelinuxAnswer ==
  ASSUME NEW s \in SelinuxSettings, NEW spec \in PodSpec, s.rule = "MustRunAs",
         selinux_validate(s, spec).verdict # "reject"
  PROVE  /\ selinux_validate(s, spec).spec = DefaultedOptions(s, spec)
         /\ spec.psc.selinux # None => is_selinux_compliant(spec.psc.selinux, s.options)
         /\ \A c \in PresentContainers(spec) :
              spec.ctr[c].selinux # None =>
                is_selinux_compliant(spec.ctr[c].selinux, s.options)
<1> HIDE DEF is_selinux_compliant
<1> DEFINE compliant(context) == context.selinux = None
                              \/ is_selinux_compliant(context.selinux, s.options)
<1>1. compliant(spec.psc) /\ \A c \in PresentContainers(spec) : compliant(spec.ctr[c])
  BY DEF selinux_validate, reject_request
<1>2. selinux_validate(s, spec) = IF DefaultedOptions(s, spec) # spec
                                    THEN mutate_request(DefaultedOptions(s, spec))
                                    ELSE accept_request(spec)
  BY <1>1 DEF selinux_validate, DefaultedOptions
<1> QED
  BY <1>1, <1>2 DEF accept_request, mutate_request

LEMMA SelinuxType ==
  ASSUME NEW s \in SelinuxSettings, NEW spec \in PodSpec
  PROVE  selinux_validate(s, spec) \in Response
<1>1. DefaultedOptions(s, spec) \in PodSpec
  <2>1. default_options(s.options, spec.psc) \in PodSecurityContext
    BY DEF default_options, SelinuxSettings, PodSpec, PodSecurityContext, OptSELinux
  <2>2. \A c \in Containers : default_options(s.options, spec.ctr[c]) \in SecurityContext
    BY DEF default_options, SelinuxSettings, PodSpec, SecurityContext, OptSELinux
  <2>3. \A c \in Containers : spec.ctr[c] \in SecurityContext
    BY DEF PodSpec
  <2> QED
    BY <2>1, <2>2, <2>3 DEF DefaultedOptions, PodSpec
<1>2. \/ selinux_validate(s, spec) = accept_request(spec)
      \/ selinux_validate(s, spec) = reject_request(spec)
      \/ selinux_validate(s, spec) = mutate_request(DefaultedOptions(s, spec))
  BY DEF selinux_validate, DefaultedOptions
<1> QED
  BY <1>1, <1>2 DEF Response, accept_request, reject_request, mutate_request

LEMMA SelinuxComplies ==
  ASSUME NEW s \in SelinuxSettings, NEW spec \in PodSpec,
         selinux_validate(s, spec).verdict # "reject"
  PROVE  SelinuxCompliant(s, selinux_validate(s, spec).spec)
<1> SUFFICES ASSUME s.rule = "MustRunAs"
             PROVE  SelinuxCompliant(s, selinux_validate(s, spec).spec)
  BY DEF SelinuxCompliant
<1> DEFINE new == DefaultedOptions(s, spec)
<1>1. selinux_validate(s, spec).spec = new
  BY SelinuxAnswer
<1>2. is_selinux_compliant(s.options, s.options) /\ s.options # None
  BY NoneAssumption DEF is_selinux_compliant, same_level, SelinuxSettings
<1>3. new.psc = default_options(s.options, spec.psc)
  BY DEF DefaultedOptions, PodSpec
<1>4. PresentContainers(new) = PresentContainers(spec)
  BY DEF DefaultedOptions, PodSpec, PresentContainers
<1>5. PresentContainers(spec) \subseteq Containers
  BY DEF PresentContainers, PodSpec, Containers
<1>6. \A c \in PresentContainers(spec) :
        new.ctr[c] = default_options(s.options, spec.ctr[c])
  BY <1>5 DEF DefaultedOptions, PodSpec
<1>7. ContextIsCompliant(s, new.psc)
  <2>1. CASE spec.psc.selinux = None
    BY <1>2, <1>3, <2>1 DEF default_options, ContextIsCompliant, PodSpec, PodSecurityContext
  <2>2. CASE spec.psc.selinux # None
    BY <1>3, <2>2, SelinuxAnswer DEF default_options, ContextIsCompliant
  <2> QED BY <2>1, <2>2
<1>8. ASSUME NEW c \in PresentContainers(spec)
      PROVE  ContextIsCompliant(s, new.ctr[c])
  <2>1. spec.ctr[c] \in SecurityContext
    BY <1>5 DEF PodSpec
  <2>2. CASE spec.ctr[c].selinux = None
    BY <1>2, <1>6, <2>1, <2>2 DEF default_options, ContextIsCompliant, SecurityContext
  <2>3. CASE spec.ctr[c].selinux # None
    BY <1>6, <2>3, SelinuxAnswer DEF default_options, ContextIsCompliant
  <2> QED BY <2>2, <2>3
<1> HIDE DEF new
<1> QED
  BY <1>1, <1>4, <1>7, <1>8 DEF SelinuxCompliant

(***************************************************************************)
(* capabilities, for pods of a single container: with more, the patch of   *)
(* one empties the security context of the others.                         *)
(***************************************************************************)
LEMMA CapabilitiesComplies ==
  ASSUME NEW s \in CapabilitiesSettings, valid_capabilities_settings(s),
         NEW spec \in PodSpec,
         \A c, d \in TemplateContainers : c = d,
         capabilities_validate(s, spec).verdict # "reject"
  PROVE  CapabilitiesCompliant(s, capabilities_validate(s, spec).spec)
<1> DEFINE r == capabilities_validate(s, spec)
<1>1. validate_added_caps(s, spec)
  BY DEF capabilities_validate, reject_request
<1>2. \A c \in TemplateContainers : spec.ctr[c].add \subseteq get_caps(spec)
  BY DEF get_caps
<1>3. SUFFICES ASSUME NEW c \in TemplateContainers
               PROVE  ContainerHasCapabilities(s, r.spec.ctr[c])
  BY DEF CapabilitiesCompliant
<1>4. c \in Containers /\ spec.ctr[c] \in SecurityContext
  BY DEF PodSpec, Containers
<1>5. /\ s.allow_all \/ spec.ctr[c].add \subseteq s.allowed
      /\ spec.ctr[c].add \intersect s.required_drop = {}
  BY <1>1, <1>2 DEF validate_added_caps
<1>6. CASE needs_patch(s, spec.ctr[c])
  <2>1. r.spec = patch_object(s, spec)
    BY <1>1, <1>6 DEF capabilities_validate, mutate_request
  <2>2. r.spec.ctr[c] = [spec.ctr[c] EXCEPT !.add = @ \union s.default_add,
                                            !.drop = @ \union s.required_drop]
    BY <2>1, <1>4, <1>6 DEF patch_object, patch_container_security_context, PodSpec
  <2>3. /\ r.spec.ctr[c].add = spec.ctr[c].add \union s.default_add
        /\ r.spec.ctr[c].drop = spec.ctr[c].drop \union s.required_drop
    BY <2>2, <1>4 DEF SecurityContext
  <2>4. s.allow_all \/ spec.ctr[c].add \union s.default_add \subseteq s.allowed
    BY <1>5 DEF valid_capabilities_settings
  <2>5. (spec.ctr[c].add \union s.default_add) \intersect s.required_drop = {}
    BY <1>5 DEF valid_capabilities_settings
  <2> QED
    BY <2>3, <2>4, <2>5 DEF ContainerHasCapabilities
<1>7. CASE ~needs_patch(s, spec.ctr[c])
  <2>1. r.spec = spec
    BY <1>1, <1>7 DEF capabilities_validate, accept_request
  <2> QED
    BY <2>1, <1>5, <1>7 DEF ContainerHasCapabilities, needs_patch
<1> QED BY <1>6, <1>7
================================================================================
