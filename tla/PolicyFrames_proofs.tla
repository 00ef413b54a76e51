-------------------------- MODULE PolicyFrames_proofs --------------------------
(***************************************************************************)
(* Which parts of a pod spec each policy leaves alone, and that compliance *)
(* with a policy depends on its own part only: together, that a policy     *)
(* does not undo what another enforced.  That the policies keep the fields *)
(* that are set, and that their mutations are idempotent.                  *)
(***************************************************************************)
EXTENDS PspPolicies_proofs

\* The parts of the pod spec that the policies are about.
SameCapabilities(a, b) == \A c \in TemplateContainers :
  a.ctr[c].add = b.ctr[c].add /\ a.ctr[c].drop = b.ctr[c].drop
SameUsers(a, b) == \A c \in TemplateContainers :
  /\ a.ctr[c].user = b.ctr[c].user
  /\ a.ctr[c].group = b.ctr[c].group
  /\ a.ctr[c].nonRoot = b.ctr[c].nonRoot
SameSupplemental(a, b) == a.psc.supplemental = b.psc.supplemental
SameFsGroup(a, b) == a.psc.fsGroup = b.psc.fsGroup
SameSelinux(a, b) ==
  /\ a.psc.selinux = b.psc.selinux
  /\ a.ephemeral = b.ephemeral
  /\ \A c \in Containers : a.ctr[c].selinux = b.ctr[c].selinux
SameEscalation(a, b) == \A c \in TemplateContainers : a.ctr[c].ape = b.ctr[c].ape
SameClasses(a, b) == a.runtime = b.runtime /\ a.priority = b.priority /\ a.ndots = b.ndots

\* Compliance depends on these parts only.
LEMMA ComplianceDependsOn ==
  ASSUME NEW a, NEW b
  PROVE  /\ \A s : SameCapabilities(a, b) /\ CapabilitiesCompliant(s, a)
                     => CapabilitiesCompliant(s, b)
         /\ \A s : SameUsers(a, b) /\ SameSupplemental(a, b) /\ UserGroupCompliant(s, a)
                     => UserGroupCompliant(s, b)
         /\ \A s : SameFsGroup(a, b) /\ FsGroupsCompliant(s, a) => FsGroupsCompliant(s, b)
         /\ \A s : SameEscalation(a, b) /\ EscalationCompliant(s, a)
                     => EscalationCompliant(s, b)
<1>1. \A s : SameCapabilities(a, b) /\ CapabilitiesCompliant(s, a)
               => CapabilitiesCompliant(s, b)
  BY DEF SameCapabilities, CapabilitiesCompliant, ContainerHasCapabilities
<1>2. \A s : SameUsers(a, b) /\ SameSupplemental(a, b) /\ UserGroupCompliant(s, a)
               => UserGroupCompliant(s, b)
  BY DEF SameUsers, SameSupplemental, UserGroupCompliant, UserCompliant, GroupCompliant,
         SupplementalCompliant
<1>3. \A s : SameFsGroup(a, b) /\ FsGroupsCompliant(s, a) => FsGroupsCompliant(s, b)
  BY DEF SameFsGroup, FsGroupsCompliant
<1>4. \A s : SameEscalation(a, b) /\ EscalationCompliant(s, a) => EscalationCompliant(s, b)
  BY DEF SameEscalation, EscalationCompliant
<1> QED BY <1>1, <1>2, <1>3, <1>4

LEMMA SelinuxDependsOn ==
  ASSUME NEW s, NEW a, NEW b \in PodSpec, SameSelinux(a, b), SelinuxCompliant(s, a)
  PROVE  SelinuxCompliant(s, b)
<1>1. PresentContainers(a) = PresentContainers(b)
  BY DEF SameSelinux, PresentContainers
<1>2. PresentContainers(b) \subseteq Containers
  BY DEF PresentContainers, PodSpec, Containers
<1>3. \A c \in PresentContainers(b) : a.ctr[c].selinux = b.ctr[c].selinux
  BY <1>2 DEF SameSelinux
<1>4. a.psc.selinux = b.psc.selinux
  BY DEF SameSelinux
<1> QED
  BY <1>1, <1>3, <1>4 DEF SelinuxCompliant, ContextIsCompliant

LEMMA CapabilitiesFrame ==
  ASSUME NEW s \in CapabilitiesSettings, NEW spec \in PodSpec
  PROVE  LET new == capabilities_validate(s, spec).spec IN
         /\ SameSupplemental(spec, new) /\ SameFsGroup(spec, new) /\ SameClasses(spec, new)
         /\ (\A c, d \in TemplateContainers : c = d) =>
              SameUsers(spec, new) /\ SameSelinux(spec, new) /\ SameEscalation(spec, new)
<1> DEFINE new == capabilities_validate(s, spec).spec
<1>1. CASE new = spec
  BY <1>1 DEF SameSupplemental, SameFsGroup, SameClasses, SameUsers, SameSelinux,
              SameEscalation
<1>2. CASE new # spec
  <2>1. new = patch_object(s, spec) /\ \E c \in TemplateContainers : needs_patch(s, spec.ctr[c])
    BY <1>2 DEF capabilities_validate, accept_request, reject_request, mutate_request
  <2>2. /\ new.psc = spec.psc /\ new.ephemeral = spec.ephemeral
        /\ SameClasses(spec, new)
    BY <2>1 DEF patch_object, PodSpec, SameClasses
  <2>3. ASSUME \A c, d \in TemplateContainers : c = d, NEW c \in Containers
        PROVE  /\ new.ctr[c].user = spec.ctr[c].user
               /\ new.ctr[c].group = spec.ctr[c].group
               /\ new.ctr[c].nonRoot = spec.ctr[c].nonRoot
               /\ new.ctr[c].ape = spec.ctr[c].ape
               /\ new.ctr[c].selinux = spec.ctr[c].selinux
    <3>1. spec.ctr[c] \in SecurityContext
      BY DEF PodSpec
    <3>2. CASE c \in TemplateContainers
      <4>1. needs_patch(s, spec.ctr[c])
        BY <2>1, <2>3, <3>2
      <4>2. new.ctr[c] = [spec.ctr[c] EXCEPT !.add = @ \union s.default_add,
                                             !.drop = @ \union s.required_drop]
        BY <2>1, <3>2, <4>1 DEF patch_object, patch_container_security_context, PodSpec
      <4> QED
        BY <3>1, <4>2 DEF SecurityContext
    <3>3. CASE c \notin TemplateContainers
      BY <2>1, <3>3 DEF patch_object, PodSpec
    <3> QED BY <3>2, <3>3
  <2> HIDE DEF new
  <2>4. /\ SameSupplemental(spec, new) /\ SameFsGroup(spec, new)
        /\ (\A c, d \in TemplateContainers : c = d) =>
             SameUsers(spec, new) /\ SameSelinux(spec, new) /\ SameEscalation(spec, new)
    BY <2>2, <2>3 DEF SameSupplemental, SameFsGroup, SameUsers, SameSelinux, SameEscalation,
       Containers
  <2> QED
    BY <2>2, <2>4 DEF new
<1> QED BY <1>1, <1>2

\* What the user and group rules write in a context.
LEMMA SetContextFrame ==
  ASSUME NEW s \in UserGroupSettings, valid_user_group_settings(s)
  PROVE  /\ \A sc \in SecurityContext :
              LET new == set_context(s, sc) IN
              /\ new.ape = sc.ape /\ new.add = sc.add /\ new.drop = sc.drop
              /\ new.selinux = sc.selinux
         /\ \A psc \in PodSecurityContext :
              LET new == set_context(s, psc) IN
              new.fsGroup = psc.fsGroup /\ new.selinux = psc.selinux
         /\ \A psc \in PodSecurityContext :
              LET new == set_supplemental(s, psc) IN
              new.fsGroup = psc.fsGroup /\ new.selinux = psc.selinux
<1>1. ASSUME NEW sc \in SecurityContext
      PROVE  LET new == set_context(s, sc) IN
             /\ new.ape = sc.ape /\ new.add = sc.add /\ new.drop = sc.drop
             /\ new.selinux = sc.selinux
  <2> DEFINE su == set_run_as_user(s, sc)
  <2>1. /\ su \in SecurityContext
        /\ su.ape = sc.ape /\ su.add = sc.add /\ su.drop = sc.drop
        /\ su.selinux = sc.selinux
    BY UserGroupDefaults DEF set_run_as_user, run_as_user_mutated, SecurityContext, Tri
  <2> HIDE DEF su
  <2>2. LET new == set_run_as_group(s, su) IN
        /\ new.ape = su.ape /\ new.add = su.add /\ new.drop = su.drop
        /\ new.selinux = su.selinux
    BY <2>1 DEF set_run_as_group, SecurityContext
  <2> QED
    BY <2>1, <2>2 DEF set_context, su
<1>2. ASSUME NEW psc \in PodSecurityContext
      PROVE  LET new == set_context(s, psc) IN
             new.fsGroup = psc.fsGroup /\ new.selinux = psc.selinux
  <2> DEFINE su == set_run_as_user(s, psc)
  <2>1. /\ su \in PodSecurityContext
        /\ su.fsGroup = psc.fsGroup /\ su.selinux = psc.selinux
    BY UserGroupDefaults DEF set_run_as_user, run_as_user_mutated, PodSecurityContext, Tri
  <2> HIDE DEF su
  <2>2. LET new == set_run_as_group(s, su) IN
        new.fsGroup = su.fsGroup /\ new.selinux = su.selinux
    BY <2>1 DEF set_run_as_group, PodSecurityContext
  <2> QED
    BY <2>1, <2>2 DEF set_context, su
<1>3. ASSUME NEW psc \in PodSecurityContext
      PROVE  LET new == set_supplemental(s, psc) IN
             new.fsGroup = psc.fsGroup /\ new.selinux = psc.selinux
  BY DEF set_supplemental, PodSecurityContext
<1> QED BY <1>1, <1>2, <1>3

LEMMA UserGroupFrame ==
  ASSUME NEW s \in UserGroupSettings, valid_user_group_settings(s),
         NEW spec \in PodSpec, NEW images
  PROVE  LET new == user_group_validate(s, spec, images).spec IN
         /\ SameCapabilities(spec, new) /\ SameFsGroup(spec, new)
         /\ SameSelinux(spec, new) /\ SameEscalation(spec, new) /\ SameClasses(spec, new)
<1> DEFINE new == user_group_validate(s, spec, images).spec
           psc == IF some_context_mutated(s, spec)
                    THEN set_context(s, spec.psc) ELSE spec.psc
<1>1. CASE new = spec
  BY <1>1 DEF SameCapabilities, SameFsGroup, SameClasses, SameSelinux, SameEscalation
<1>2. CASE new # spec
  <2>1. new = user_group_patch(s, spec)
    BY <1>2 DEF user_group_validate, accept_request, reject_request, mutate_request
  <2>2. /\ new.psc = set_supplemental(s, psc) /\ new.ephemeral = spec.ephemeral
        /\ SameClasses(spec, new)
    BY <2>1 DEF user_group_patch, PodSpec, SameClasses
  <2>3. spec.psc \in PodSecurityContext /\ \A c \in Containers : spec.ctr[c] \in SecurityContext
    BY DEF PodSpec
  <2>4. /\ psc \in PodSecurityContext
        /\ psc.fsGroup = spec.psc.fsGroup /\ psc.selinux = spec.psc.selinux
    BY <2>3, UserGroupSetType, SetContextFrame
  <2>5. new.psc.fsGroup = spec.psc.fsGroup /\ new.psc.selinux = spec.psc.selinux
    BY <2>2, <2>4, SetContextFrame
  <2>6. \A c \in Containers :
          new.ctr[c] = IF c \in TemplateContainers THEN set_context(s, spec.ctr[c])
                                                   ELSE spec.ctr[c]
    BY <2>1 DEF user_group_patch, PodSpec
  <2>7. \A c \in Containers :
          /\ new.ctr[c].ape = spec.ctr[c].ape
          /\ new.ctr[c].add = spec.ctr[c].add /\ new.ctr[c].drop = spec.ctr[c].drop
          /\ new.ctr[c].selinux = spec.ctr[c].selinux
    BY <2>3, <2>6, SetContextFrame
  <2> HIDE DEF new
  <2>8. /\ SameCapabilities(spec, new) /\ SameFsGroup(spec, new)
        /\ SameSelinux(spec, new) /\ SameEscalation(spec, new)
    BY <2>2, <2>5, <2>7 DEF SameCapabilities, SameFsGroup, SameSelinux, SameEscalation,
       Containers
  <2> QED
    BY <2>2, <2>8 DEF new
<1> QED BY <1>1, <1>2

LEMMA FsGroupsFrame ==
  ASSUME NEW s, NEW spec \in PodSpec
  PROVE  LET new == fsgroups_validate(s, spec).spec IN
         /\ SameCapabilities(spec, new) /\ SameUsers(spec, new)
         /\ SameEscalation(spec, new) /\ SameClasses(spec, new)
<1> DEFINE new == fsgroups_validate(s, spec).spec
<1>1. new = spec \/ new = pod_with_defaulted_fs_group(s, spec)
  BY DEF fsgroups_validate, validate_fs_group, accept_request, reject_request, mutate_request
<1>2. new.ctr = spec.ctr /\ SameClasses(spec, new)
  BY <1>1 DEF pod_with_defaulted_fs_group, PodSpec, SameClasses
<1> QED
  BY <1>2 DEF SameCapabilities, SameUsers, SameEscalation

LEMMA SelinuxFrame ==
  ASSUME NEW s, NEW spec \in PodSpec
  PROVE  LET new == selinux_validate(s, spec).spec IN
         /\ SameCapabilities(spec, new) /\ SameUsers(spec, new) /\ SameSupplemental(spec, new)
         /\ SameFsGroup(spec, new) /\ SameEscalation(spec, new) /\ SameClasses(spec, new)
<1> DEFINE new == selinux_validate(s, spec).spec
<1>1. new = spec \/ new = DefaultedOptions(s, spec)
  BY DEF selinux_validate, DefaultedOptions, accept_request, reject_request, mutate_request
<1>2. CASE new = spec
  BY <1>2 DEF SameSupplemental, SameFsGroup, SameClasses, SameUsers, SameCapabilities,
              SameEscalation
<1>3. CASE new = DefaultedOptions(s, spec)
  <2>1. new.psc = default_options(s.options, spec.psc) /\ SameClasses(spec, new)
    BY <1>3 DEF DefaultedOptions, PodSpec, SameClasses
  <2>2. /\ new.psc.supplemental = spec.psc.supplemental
        /\ new.psc.fsGroup = spec.psc.fsGroup
    BY <2>1 DEF default_options, PodSpec, PodSecurityContext
  <2>3. ASSUME NEW c \in Containers
        PROVE  /\ new.ctr[c].user = spec.ctr[c].user
               /\ new.ctr[c].group = spec.ctr[c].group
               /\ new.ctr[c].nonRoot = spec.ctr[c].nonRoot
               /\ new.ctr[c].ape = spec.ctr[c].ape
               /\ new.ctr[c].add = spec.ctr[c].add
               /\ new.ctr[c].drop = spec.ctr[c].drop
    <3>1. spec.ctr[c] \in SecurityContext
      BY DEF PodSpec
    <3>2. \/ new.ctr[c] = spec.ctr[c]
          \/ new.ctr[c] = [spec.ctr[c] EXCEPT !.selinux = s.options]
      BY <1>3 DEF DefaultedOptions, default_options, PodSpec
    <3> HIDE DEF new
    <3> QED
      BY <3>1, <3>2 DEF SecurityContext
  <2> HIDE DEF new
  <2>4. /\ SameCapabilities(spec, new) /\ SameUsers(spec, new)
        /\ SameSupplemental(spec, new) /\ SameFsGroup(spec, new)
        /\ SameEscalation(spec, new)
    BY <2>2, <2>3 DEF SameCapabilities, SameUsers, SameSupplemental, SameFsGroup,
       SameEscalation, Containers
  <2> QED
    BY <2>1, <2>4 DEF new
<1> QED BY <1>1, <1>2, <1>3

LEMMA EscalationFrame ==
  ASSUME NEW s, NEW spec \in PodSpec
  PROVE  LET new == escalation_validate(s, spec).spec IN
         /\ SameCapabilities(spec, new) /\ SameUsers(spec, new) /\ SameSupplemental(spec, new)
         /\ SameFsGroup(spec, new) /\ SameSelinux(spec, new) /\ SameClasses(spec, new)
<1> DEFINE new == escalation_validate(s, spec).spec
<1>1. new = spec \/ new = patch_containers(spec)
  BY DEF escalation_validate, accept_request, reject_request, mutate_request
<1>2. new.psc = spec.psc /\ new.ephemeral = spec.ephemeral /\ SameClasses(spec, new)
  BY <1>1 DEF patch_containers, PodSpec, SameClasses
<1>3. ASSUME NEW c \in Containers
      PROVE  /\ new.ctr[c].user = spec.ctr[c].user
             /\ new.ctr[c].group = spec.ctr[c].group
             /\ new.ctr[c].nonRoot = spec.ctr[c].nonRoot
             /\ new.ctr[c].add = spec.ctr[c].add
             /\ new.ctr[c].drop = spec.ctr[c].drop
             /\ new.ctr[c].selinux = spec.ctr[c].selinux
  <2>1. spec.ctr[c] \in SecurityContext
    BY DEF PodSpec
  <2>2. new.ctr[c] = spec.ctr[c] \/ new.ctr[c] = [spec.ctr[c] EXCEPT !.ape = "no"]
    BY <1>1 DEF patch_containers, PodSpec
  <2> HIDE DEF new
  <2> QED
    BY <2>1, <2>2 DEF SecurityContext
<1> HIDE DEF new
<1>4. /\ SameCapabilities(spec, new) /\ SameUsers(spec, new) /\ SameSupplemental(spec, new)
      /\ SameFsGroup(spec, new) /\ SameSelinux(spec, new)
  BY <1>2, <1>3 DEF SameCapabilities, SameUsers, SameSupplemental, SameFsGroup, SameSelinux,
     Containers
<1> QED
  BY <1>2, <1>4 DEF new

\* runtime-class, priority-class and ndots write one field each.
LEMMA ClassesFrame ==
  ASSUME NEW s, NEW spec \in PodSpec
  PROVE  /\ LET new == runtime_validate(s, spec).spec IN
              /\ new.priority = spec.priority /\ new.ndots = spec.ndots
              /\ new.psc = spec.psc /\ new.ctr = spec.ctr /\ new.ephemeral = spec.ephemeral
         /\ LET new == priority_validate(s, spec).spec IN
              /\ new.runtime = spec.runtime /\ new.ndots = spec.ndots
              /\ new.psc = spec.psc /\ new.ctr = spec.ctr /\ new.ephemeral = spec.ephemeral
         /\ LET new == ndots_validate(s, spec).spec IN
              /\ new.runtime = spec.runtime /\ new.priority = spec.priority
              /\ new.psc = spec.psc /\ new.ctr = spec.ctr /\ new.ephemeral = spec.ephemeral
<1>1. LET new == runtime_validate(s, spec).spec IN
      new = spec \/ new = [spec EXCEPT !.runtime = s.fallback]
  BY DEF runtime_validate, mutate_or_reject, accept_request, reject_request, mutate_request
<1>2. LET new == priority_validate(s, spec).spec IN
      new = spec \/ new = [spec EXCEPT !.priority = s.default]
  BY DEF priority_validate, accept_request, reject_request, mutate_request
<1>3. LET new == ndots_validate(s, spec).spec IN
      new = spec \/ new = [spec EXCEPT !.ndots = s.ndots]
  BY DEF ndots_validate, enforce_ndots, accept_request, mutate_request
<1> QED
  BY <1>1, <1>2, <1>3 DEF PodSpec

(***************************************************************************)
(* Explicit fields: the policies fill in what is missing                   *)
(***************************************************************************)

\* What a security context sets is what it is changed to: a relation that holds
\* across any number of changes.
ContextKept(a, b) ==
  /\ a.user = None \/ b.user = a.user
  /\ a.group = None \/ b.group = a.group
  /\ a.nonRoot = "unset" \/ b.nonRoot = a.nonRoot
  /\ a.ape = "unset" \/ b.ape = a.ape
  /\ a.selinux = None \/ b.selinux = a.selinux
  /\ a.add \subseteq b.add /\ a.drop \subseteq b.drop

PodContextKept(a, b) ==
  /\ a.user = None \/ b.user = a.user
  /\ a.group = None \/ b.group = a.group
  /\ a.nonRoot = "unset" \/ b.nonRoot = a.nonRoot
  /\ a.fsGroup = None \/ b.fsGroup = a.fsGroup
  /\ a.supplemental = None \/ b.supplemental = a.supplemental
  /\ a.selinux = None \/ b.selinux = a.selinux

SpecKept(a, b) ==
  /\ a.priority = None \/ b.priority = a.priority
  /\ PodContextKept(a.psc, b.psc)
  /\ \A c \in Containers : ContextKept(a.ctr[c], b.ctr[c])

LEMMA SpecKeptReflexive ==
  ASSUME NEW a
  PROVE  SpecKept(a, a)
BY DEF SpecKept, PodContextKept, ContextKept

LEMMA SpecKeptTransitive ==
  ASSUME NEW a, NEW b, NEW d, SpecKept(a, b), SpecKept(b, d)
  PROVE  SpecKept(a, d)
<1>1. a.priority = None \/ d.priority = a.priority
  BY DEF SpecKept
<1>2. PodContextKept(a.psc, d.psc)
  <2>1. PodContextKept(a.psc, b.psc) /\ PodContextKept(b.psc, d.psc)
    BY DEF SpecKept
  <2> QED
    BY <2>1 DEF PodContextKept
<1>3. ASSUME NEW c \in Containers
      PROVE  ContextKept(a.ctr[c], d.ctr[c])
  <2>1. ContextKept(a.ctr[c], b.ctr[c]) /\ ContextKept(b.ctr[c], d.ctr[c])
    BY DEF SpecKept
  <2> QED
    BY <2>1 DEF ContextKept
<1> QED
  BY <1>1, <1>2, <1>3 DEF SpecKept

\* The capabilities policy extends the lists of the one container there is.
LEMMA CapabilitiesKeep ==
  ASSUME NEW s, NEW spec \in PodSpec, \A c, d \in TemplateContainers : c = d
  PROVE  SpecKept(spec, capabilities_validate(s, spec).spec)
<1> DEFINE new == capabilities_validate(s, spec).spec
<1>1. CASE new = spec
  BY <1>1, SpecKeptReflexive
<1>2. CASE new # spec
  <2>1. new = patch_object(s, spec) /\ \E c \in TemplateContainers : needs_patch(s, spec.ctr[c])
    BY <1>2 DEF capabilities_validate, accept_request, reject_request, mutate_request
  <2>2. new.psc = spec.psc /\ new.priority = spec.priority
    BY <2>1 DEF patch_object, PodSpec
  <2>3. ASSUME NEW c \in Containers
        PROVE  ContextKept(spec.ctr[c], new.ctr[c])
    <3>1. spec.ctr[c] \in SecurityContext
      BY DEF PodSpec
    <3>2. CASE c \in TemplateContainers
      <4>1. needs_patch(s, spec.ctr[c])
        BY <2>1, <3>2
      <4>2. new.ctr[c] = [spec.ctr[c] EXCEPT !.add = @ \union s.default_add,
                                             !.drop = @ \union s.required_drop]
        BY <2>1, <3>2, <4>1 DEF patch_object, patch_container_security_context, PodSpec
      <4> HIDE DEF new
      <4> QED
        BY <3>1, <4>2 DEF SecurityContext, ContextKept
    <3>3. CASE c \notin TemplateContainers
      <4>1. new.ctr[c] = spec.ctr[c]
        BY <2>1, <3>3 DEF patch_object, PodSpec
      <4> QED
        BY <4>1 DEF ContextKept
    <3> QED BY <3>2, <3>3
  <2> HIDE DEF new
  <2>4. SpecKept(spec, new)
    BY <2>2, <2>3 DEF SpecKept, PodContextKept
  <2> QED
    BY <2>4 DEF new
<1> QED BY <1>1, <1>2

\* The user and group rules set what is missing, and reject a context that asks
\* for root where nonRoot would be forced.
LEMMA SetContextKeeps ==
  ASSUME NEW s \in UserGroupSettings, valid_user_group_settings(s),
         ~s.run_as_user.overwrite, ~s.run_as_group.overwrite
  PROVE  /\ \A sc \in SecurityContext : \A image :
              ~context_rejected(s, sc, image) => ContextKept(sc, set_context(s, sc))
         /\ \A psc \in PodSecurityContext : \A image :
              ~context_rejected(s, psc, image) => PodContextKept(psc, set_context(s, psc))
<1>1. ASSUME NEW sc \in SecurityContext, NEW image, ~context_rejected(s, sc, image)
      PROVE  ContextKept(sc, set_context(s, sc))
  <2> DEFINE su == set_run_as_user(s, sc)
             sg == set_run_as_group(s, su)
  <2>1. s.run_as_user.rule = "MustRunAsNonRoot" => sc.nonRoot # "no"
    BY <1>1 DEF context_rejected, run_as_user_rejected
  <2>2. \/ su = sc
        \/ su = [sc EXCEPT !.user = s.run_as_user.ranges[1].min] /\ sc.user = None
        \/ su = [sc EXCEPT !.nonRoot = "yes"] /\ s.run_as_user.rule = "MustRunAsNonRoot"
    BY DEF set_run_as_user, run_as_user_mutated, defaults
  <2>3. sc.nonRoot \in Tri /\ su \in SecurityContext
    BY UserGroupDefaults DEF set_run_as_user, run_as_user_mutated, SecurityContext, Tri
  <2>4. /\ sc.user = None \/ su.user = sc.user
        /\ su.group = sc.group
        /\ sc.nonRoot = "unset" \/ su.nonRoot = sc.nonRoot
        /\ su.ape = sc.ape /\ su.selinux = sc.selinux
        /\ su.add = sc.add /\ su.drop = sc.drop
    <3> HIDE DEF su
    <3> QED
      BY <2>1, <2>2, <2>3 DEF SecurityContext, Tri
  <2>5. sg = su \/ (sg = [su EXCEPT !.group = s.run_as_group.ranges[1].min] /\ su.group = None)
    BY DEF set_run_as_group, run_as_group_mutated, defaults
  <2> HIDE DEF su
  <2>6. /\ sc.group = None \/ sg.group = sc.group
        /\ sg.user = su.user /\ sg.nonRoot = su.nonRoot /\ sg.ape = su.ape
        /\ sg.selinux = su.selinux /\ sg.add = su.add /\ sg.drop = su.drop
    <3> HIDE DEF sg
    <3> QED
      BY <2>3, <2>4, <2>5 DEF SecurityContext
  <2> HIDE DEF sg
  <2>7. ContextKept(sc, sg)
    BY <2>4, <2>6 DEF ContextKept
  <2> QED
    BY <2>7 DEF su, sg, set_context
<1>2. ASSUME NEW psc \in PodSecurityContext, NEW image, ~context_rejected(s, psc, image)
      PROVE  PodContextKept(psc, set_context(s, psc))
  <2> DEFINE su == set_run_as_user(s, psc)
             sg == set_run_as_group(s, su)
  <2>1. s.run_as_user.rule = "MustRunAsNonRoot" => psc.nonRoot # "no"
    BY <1>2 DEF context_rejected, run_as_user_rejected
  <2>2. \/ su = psc
        \/ su = [psc EXCEPT !.user = s.run_as_user.ranges[1].min] /\ psc.user = None
        \/ su = [psc EXCEPT !.nonRoot = "yes"] /\ s.run_as_user.rule = "MustRunAsNonRoot"
    BY DEF set_run_as_user, run_as_user_mutated, defaults
  <2>3. psc.nonRoot \in Tri /\ su \in PodSecurityContext
    BY UserGroupDefaults DEF set_run_as_user, run_as_user_mutated, PodSecurityContext, Tri
  <2>4. /\ psc.user = None \/ su.user = psc.user
        /\ su.group = psc.group
        /\ psc.nonRoot = "unset" \/ su.nonRoot = psc.nonRoot
        /\ su.fsGroup = psc.fsGroup /\ su.selinux = psc.selinux
        /\ su.supplemental = psc.supplemental
    <3> HIDE DEF su
    <3> QED
      BY <2>1, <2>2, <2>3 DEF PodSecurityContext, Tri
  <2>5. sg = su \/ (sg = [su EXCEPT !.group = s.run_as_group.ranges[1].min] /\ su.group = None)
    BY DEF set_run_as_group, run_as_group_mutated, defaults
  <2> HIDE DEF su
  <2>6. /\ psc.group = None \/ sg.group = psc.group
        /\ sg.user = su.user /\ sg.nonRoot = su.nonRoot /\ sg.fsGroup = su.fsGroup
        /\ sg.selinux = su.selinux /\ sg.supplemental = su.supplemental
    <3> HIDE DEF sg
    <3> QED
      BY <2>3, <2>4, <2>5 DEF PodSecurityContext
  <2> HIDE DEF sg
  <2>7. PodContextKept(psc, sg)
    BY <2>4, <2>6 DEF PodContextKept
  <2> QED
    BY <2>7 DEF su, sg, set_context
<1> QED BY <1>1, <1>2

LEMMA UserGroupKeeps ==
  ASSUME NEW s \in UserGroupSettings, valid_user_group_settings(s),
         ~s.run_as_user.overwrite, ~s.run_as_group.overwrite,
         ~s.supplemental_groups.overwrite,
         NEW spec \in PodSpec, NEW images,
         user_group_validate(s, spec, images).verdict # "reject"
  PROVE  SpecKept(spec, user_group_validate(s, spec, images).spec)
<1> DEFINE new == user_group_validate(s, spec, images).spec
           image(c) == IF s.validate_image THEN images[c] ELSE NoImageConfig
           psc == IF some_context_mutated(s, spec)
                    THEN set_context(s, spec.psc) ELSE spec.psc
<1>1. CASE new = spec
  BY <1>1, SpecKeptReflexive
<1>2. CASE new # spec
  <2>1. new = user_group_patch(s, spec)
    BY <1>2 DEF user_group_validate, accept_request, reject_request, mutate_request
  <2>2. ~user_group_rejected(s, spec, images)
    BY DEF user_group_validate, reject_request
  <2>3. /\ \A c \in TemplateContainers : ~context_rejected(s, spec.ctr[c], image(c))
        /\ some_context_mutated(s, spec) => ~context_rejected(s, spec.psc, NoImageConfig)
    BY <2>2 DEF user_group_rejected
  <2> HIDE DEF image
  <2>4. spec.psc \in PodSecurityContext /\ \A c \in Containers : spec.ctr[c] \in SecurityContext
    BY DEF PodSpec
  <2>5. new.priority = spec.priority /\ new.psc = set_supplemental(s, psc)
    BY <2>1 DEF user_group_patch, PodSpec
  <2>6. \A c \in Containers :
          new.ctr[c] = IF c \in TemplateContainers THEN set_context(s, spec.ctr[c])
                                                   ELSE spec.ctr[c]
    BY <2>1 DEF user_group_patch, PodSpec
  <2> HIDE DEF new
  <2>7. psc \in PodSecurityContext /\ PodContextKept(spec.psc, psc)
    <3>1. CASE some_context_mutated(s, spec)
      BY <2>3, <2>4, <3>1, UserGroupSetType, SetContextKeeps
    <3>2. CASE ~some_context_mutated(s, spec)
      BY <2>4, <3>2 DEF PodContextKept
    <3> QED BY <3>1, <3>2
  <2> HIDE DEF psc
  <2>8. /\ new.psc.user = psc.user /\ new.psc.group = psc.group
        /\ new.psc.nonRoot = psc.nonRoot /\ new.psc.fsGroup = psc.fsGroup
        /\ new.psc.selinux = psc.selinux
        /\ psc.supplemental = None \/ new.psc.supplemental = psc.supplemental
    <3>1. \/ new.psc = psc
          \/ /\ new.psc = [psc EXCEPT !.supplemental = {s.supplemental_groups.ranges[1].min}]
             /\ psc.supplemental = None
      BY <2>5 DEF set_supplemental, supplemental_mutated, defaults
    <3> QED
      BY <2>7, <3>1 DEF PodSecurityContext
  <2>9. PodContextKept(spec.psc, new.psc)
    BY <2>7, <2>8 DEF PodContextKept
  <2>10. ASSUME NEW c \in Containers
         PROVE  ContextKept(spec.ctr[c], new.ctr[c])
    <3>1. CASE c \in TemplateContainers
      BY <2>3, <2>4, <2>6, <3>1, SetContextKeeps
    <3>2. CASE c \notin TemplateContainers
      BY <2>6, <3>2 DEF ContextKept
    <3> QED BY <3>1, <3>2
  <2>11. SpecKept(spec, new)
    BY <2>5, <2>9, <2>10 DEF SpecKept
  <2> QED
    BY <2>11 DEF new
<1> QED BY <1>1, <1>2

\* Only missing SELinux options are filled in.
LEMMA SelinuxKeeps ==
  ASSUME NEW s, NEW spec \in PodSpec
  PROVE  SpecKept(spec, selinux_validate(s, spec).spec)
<1> DEFINE new == selinux_validate(s, spec).spec
<1>1. new = spec \/ new = DefaultedOptions(s, spec)
  BY DEF selinux_validate, DefaultedOptions, accept_request, reject_request, mutate_request
<1>2. CASE new = spec
  BY <1>2, SpecKeptReflexive
<1>3. CASE new = DefaultedOptions(s, spec)
  <2>1. new.psc = default_options(s.options, spec.psc) /\ new.priority = spec.priority
    BY <1>3 DEF DefaultedOptions, PodSpec
  <2>2. \A c \in Containers :
          \/ new.ctr[c] = spec.ctr[c]
          \/ new.ctr[c] = default_options(s.options, spec.ctr[c])
    BY <1>3 DEF DefaultedOptions, PodSpec
  <2> HIDE DEF new
  <2>3. PodContextKept(spec.psc, new.psc)
    BY <2>1 DEF default_options, PodSpec, PodSecurityContext, PodContextKept
  <2>4. ASSUME NEW c \in Containers
        PROVE  ContextKept(spec.ctr[c], new.ctr[c])
    <3>1. spec.ctr[c] \in SecurityContext
      BY DEF PodSpec
    <3>2. \/ new.ctr[c] = spec.ctr[c]
          \/ new.ctr[c] = [spec.ctr[c] EXCEPT !.selinux = s.options]
             /\ spec.ctr[c].selinux = None
      BY <2>2 DEF default_options
    <3> QED
      BY <3>1, <3>2 DEF SecurityContext, ContextKept
  <2>5. SpecKept(spec, new)
    BY <2>1, <2>3, <2>4 DEF SpecKept
  <2> QED
    BY <2>5 DEF new
<1> QED BY <1>1, <1>2, <1>3

\* A container that asks for privilege escalation is rejected, not overruled.
LEMMA EscalationKeeps ==
  ASSUME NEW s, NEW spec \in PodSpec, escalation_validate(s, spec).verdict # "reject"
  PROVE  SpecKept(spec, escalation_validate(s, spec).spec)
<1> DEFINE new == escalation_validate(s, spec).spec
<1>1. new = spec \/ new = patch_containers(spec)
  BY DEF escalation_validate, accept_request, reject_request, mutate_request
<1>2. \A c \in TemplateContainers : spec.ctr[c].ape # "yes"
  BY DEF escalation_validate, reject_request, has_allowed_privilege_escalation_container
<1>3. new.psc = spec.psc /\ new.priority = spec.priority
  BY <1>1 DEF patch_containers, PodSpec
<1>4. \A c \in Containers :
        \/ new.ctr[c] = spec.ctr[c]
        \/ new.ctr[c] = [spec.ctr[c] EXCEPT !.ape = "no"] /\ c \in TemplateContainers
  BY <1>1 DEF patch_containers, PodSpec
<1> HIDE DEF new
<1>5. ASSUME NEW c \in Containers
      PROVE  ContextKept(spec.ctr[c], new.ctr[c])
  <2>1. spec.ctr[c] \in SecurityContext
    BY DEF PodSpec
  <2>2. c \in TemplateContainers => spec.ctr[c].ape \in {"unset", "no"}
    BY <1>2, <2>1 DEF SecurityContext, Tri
  <2> QED
    BY <1>4, <2>1, <2>2 DEF SecurityContext, ContextKept
<1>6. SpecKept(spec, new)
  BY <1>3, <1>5 DEF SpecKept, PodContextKept
<1> QED
  BY <1>6 DEF new

LEMMA ClassesKeep ==
  ASSUME NEW s, NEW spec \in PodSpec
  PROVE  /\ SpecKept(spec, runtime_validate(s, spec).spec)
         /\ SpecKept(spec, priority_validate(s, spec).spec)
         /\ SpecKept(spec, ndots_validate(s, spec).spec)
<1>1. LET new == priority_validate(s, spec).spec IN
      spec.priority = None \/ new.priority = spec.priority
  BY DEF priority_validate, accept_request, reject_request, mutate_request
<1> QED
  BY <1>1, ClassesFrame DEF SpecKept, PodContextKept, ContextKept

(***************************************************************************)
(* Idempotence: a pod that a policy admitted is admitted again, as it is   *)
(***************************************************************************)

\* The user and group rules find nothing to reject or to change in a context,
\* and the user-group policy nothing in a pod.
ContextSettled(s, sc) ==
  /\ ~context_rejected(s, sc, NoImageConfig)
  /\ s.run_as_user.rule = "MustRunAs" /\ defaults(s, s.run_as_user, sc.user) =>
       sc.user = s.run_as_user.ranges[1].min
  /\ s.run_as_user.rule = "MustRunAsNonRoot" => sc.nonRoot = "yes"
  /\ run_as_group_mutated(s, sc) => sc.group = s.run_as_group.ranges[1].min

SupplementalSettled(s, psc) ==
  /\ ~supplemental_rejected(s, psc)
  /\ supplemental_mutated(s, psc) =>
       psc.supplemental = {s.supplemental_groups.ranges[1].min}

UserGroupSettled(s, spec) ==
  /\ \A c \in TemplateContainers : ContextSettled(s, spec.ctr[c])
  /\ some_context_mutated(s, spec) => ContextSettled(s, spec.psc)
  /\ SupplementalSettled(s, spec.psc)

\* runtime-class goes back to its fallback in every pod.
RuntimeSettled(s, spec) ==
  IF s.fallback # None THEN spec.runtime = s.fallback
                       ELSE spec.runtime \notin s.reserved /\ ~s.default_reserved

\* The user and the groups of the pod's own context.
SamePodUsers(a, b) ==
  a.psc.user = b.psc.user /\ a.psc.group = b.psc.group /\ a.psc.nonRoot = b.psc.nonRoot

\* The fields that the user and group rules write, one by one.
UserField(s, sc) ==
  IF s.run_as_user.rule = "MustRunAs" /\ defaults(s, s.run_as_user, sc.user)
    THEN s.run_as_user.ranges[1].min ELSE sc.user
NonRootField(s, sc) ==
  IF s.run_as_user.rule = "MustRunAsNonRoot" THEN "yes" ELSE sc.nonRoot
GroupField(s, sc) ==
  IF run_as_group_mutated(s, sc) THEN s.run_as_group.ranges[1].min ELSE sc.group

LEMMA SetContextFields ==
  ASSUME NEW s \in UserGroupSettings, valid_user_group_settings(s),
         NEW sc \in SecurityContext \union PodSecurityContext
  PROVE  LET new == set_context(s, sc) IN
         /\ new.user = UserField(s, sc)
         /\ new.nonRoot = NonRootField(s, sc)
         /\ new.group = GroupField(s, sc)
<1> DEFINE su == set_run_as_user(s, sc)
           sg == set_run_as_group(s, su)
<1>1. su \in SecurityContext \union PodSecurityContext
  <2>1. CASE sc \in SecurityContext
    BY <2>1, UserGroupDefaults DEF set_run_as_user, run_as_user_mutated, SecurityContext, Tri
  <2>2. CASE sc \in PodSecurityContext
    BY <2>2, UserGroupDefaults DEF set_run_as_user, run_as_user_mutated,
       PodSecurityContext, Tri
  <2> QED BY <2>1, <2>2
<1>2. su.user = UserField(s, sc) /\ su.nonRoot = NonRootField(s, sc) /\ su.group = sc.group
  BY DEF set_run_as_user, run_as_user_mutated, UserField, NonRootField, SecurityContext,
     PodSecurityContext
<1> HIDE DEF su
<1>3. /\ sg.user = su.user /\ sg.nonRoot = su.nonRoot
      /\ sg.group = IF run_as_group_mutated(s, su)
                      THEN s.run_as_group.ranges[1].min ELSE su.group
  BY <1>1 DEF set_run_as_group, SecurityContext, PodSecurityContext
<1>4. sg.group = GroupField(s, sc)
  BY <1>2, <1>3 DEF GroupField, run_as_group_mutated, defaults
<1> HIDE DEF sg
<1>5. sg.user = UserField(s, sc) /\ sg.nonRoot = NonRootField(s, sc)
  BY <1>2, <1>3
<1> QED
  BY <1>4, <1>5 DEF set_context, sg, su

\* A context that the rules wrote is settled, and is not written again unless it
\* was written before.
LEMMA FieldsSettle ==
  ASSUME NEW s \in UserGroupSettings, valid_user_group_settings(s),
         NEW sc, NEW new, ~context_rejected(s, sc, NoImageConfig),
         new.user = UserField(s, sc), new.nonRoot = NonRootField(s, sc),
         new.group = GroupField(s, sc)
  PROVE  /\ ContextSettled(s, new)
         /\ context_mutated(s, new) => context_mutated(s, sc)
<1> DEFINE u == s.run_as_user
           g == s.run_as_group
<1>0. u.rule = "MustRunAsNonRoot" => ~s.validate_only /\ sc.user # 0
  BY DEF context_rejected, run_as_user_rejected
<1>1. /\ u.rule = "MustRunAs" /\ defaults(s, u, sc.user) =>
           u.ranges[1].min # None /\ InRanges(u.ranges[1].min, u.ranges) /\ ~s.validate_only
      /\ g.rule = "MustRunAs" /\ defaults(s, g, sc.group) =>
           g.ranges[1].min # None /\ InRanges(g.ranges[1].min, g.ranges) /\ ~s.validate_only
  BY UserGroupDefaults DEF defaults, valid_user_group_settings
<1>2. ~run_as_user_rejected(s, new, NoImageConfig)
  <2>1. CASE u.rule = "MustRunAs"
    BY <1>1, <2>1 DEF context_rejected, run_as_user_rejected, UserField
  <2>2. CASE u.rule # "MustRunAs"
    BY <1>0, <2>2 DEF context_rejected, run_as_user_rejected, UserField, NonRootField
  <2> QED BY <2>1, <2>2
<1>3. ~run_as_group_rejected(s, new, NoImageConfig)
  BY <1>1 DEF context_rejected, run_as_group_rejected, GroupField, run_as_group_mutated
<1>4. ~NoImageConfig.failed
  BY DEF NoImageConfig
<1>5. /\ u.rule = "MustRunAs" /\ defaults(s, u, new.user) =>
           new.user = u.ranges[1].min /\ defaults(s, u, sc.user)
      /\ run_as_group_mutated(s, new) =>
           new.group = g.ranges[1].min /\ run_as_group_mutated(s, sc)
  BY <1>1 DEF UserField, GroupField, run_as_group_mutated, defaults
<1>6. u.rule = "MustRunAsNonRoot" => new.nonRoot = "yes"
  BY DEF NonRootField
<1> QED
  BY <1>2, <1>3, <1>4, <1>5, <1>6 DEF ContextSettled, context_rejected, context_mutated,
     run_as_user_mutated

LEMMA SettledContextStays ==
  ASSUME NEW s \in UserGroupSettings, valid_user_group_settings(s),
         NEW sc \in SecurityContext \union PodSecurityContext, ContextSettled(s, sc)
  PROVE  set_context(s, sc) = sc
<1>1. set_run_as_user(s, sc) = sc
  <2>1. CASE sc \in SecurityContext
    BY <2>1 DEF ContextSettled, set_run_as_user, run_as_user_mutated, SecurityContext
  <2>2. CASE sc \in PodSecurityContext
    BY <2>2 DEF ContextSettled, set_run_as_user, run_as_user_mutated, PodSecurityContext
  <2> QED BY <2>1, <2>2
<1>2. set_run_as_group(s, sc) = sc
  <2>1. CASE sc \in SecurityContext
    BY <2>1 DEF ContextSettled, set_run_as_group, SecurityContext
  <2>2. CASE sc \in PodSecurityContext
    BY <2>2 DEF ContextSettled, set_run_as_group, PodSecurityContext
  <2> QED BY <2>1, <2>2
<1> QED
  BY <1>1, <1>2 DEF set_context

\* What the user-group policy answers, whether it mutates the pod or not.
LEMMA UserGroupAnswer ==
  ASSUME NEW s \in UserGroupSettings, NEW spec \in PodSpec, NEW images,
         ~s.validate_image, user_group_validate(s, spec, images).verdict # "reject"
  PROVE  LET new == user_group_validate(s, spec, images).spec
             psc == IF some_context_mutated(s, spec)
                      THEN set_context(s, spec.psc) ELSE spec.psc
         IN /\ \A c \in TemplateContainers :
                 /\ ~context_rejected(s, spec.ctr[c], NoImageConfig)
                 /\ new.ctr[c] = set_context(s, spec.ctr[c])
            /\ some_context_mutated(s, spec) => ~context_rejected(s, spec.psc, NoImageConfig)
            /\ ~supplemental_rejected(s, spec.psc)
            /\ new.psc = set_supplemental(s, psc)
<1> DEFINE new == user_group_validate(s, spec, images).spec
           psc == IF some_context_mutated(s, spec)
                    THEN set_context(s, spec.psc) ELSE spec.psc
           mutated == some_context_mutated(s, spec) \/ supplemental_mutated(s, spec.psc)
<1>1. ~user_group_rejected(s, spec, images)
  BY DEF user_group_validate, reject_request
<1>2. /\ \A c \in TemplateContainers : ~context_rejected(s, spec.ctr[c], NoImageConfig)
      /\ some_context_mutated(s, spec) => ~context_rejected(s, spec.psc, NoImageConfig)
      /\ ~supplemental_rejected(s, spec.psc)
  BY <1>1 DEF user_group_rejected
<1>3. /\ \A c \in TemplateContainers : new.ctr[c] = set_context(s, spec.ctr[c])
      /\ new.psc = set_supplemental(s, psc)
  <2>1. CASE mutated
    <3>1. new = user_group_patch(s, spec)
      BY <1>1, <2>1 DEF user_group_validate, mutate_request
    <3> QED
      BY <3>1 DEF user_group_patch, PodSpec, Containers
  <2>2. CASE ~mutated
    <3>1. new = spec
      BY <1>1, <2>2 DEF user_group_validate, accept_request
    <3>2. \A c \in TemplateContainers : set_context(s, spec.ctr[c]) = spec.ctr[c]
      BY <2>2 DEF some_context_mutated, context_mutated, set_context, set_run_as_user,
         set_run_as_group
    <3> QED
      BY <2>2, <3>1, <3>2 DEF set_supplemental
  <2> QED BY <2>1, <2>2
<1> QED
  BY <1>2, <1>3

LEMMA UserGroupSettles ==
  ASSUME NEW s \in UserGroupSettings, valid_user_group_settings(s),
         NEW spec \in PodSpec, NEW images,
         ~s.validate_image, user_group_validate(s, spec, images).verdict # "reject"
  PROVE  UserGroupSettled(s, user_group_validate(s, spec, images).spec)
<1> DEFINE psc == IF some_context_mutated(s, spec)
                    THEN set_context(s, spec.psc) ELSE spec.psc
           r == s.supplemental_groups
<1>1. PICK new : new = user_group_validate(s, spec, images).spec
  OBVIOUS
<1>2. /\ \A c \in TemplateContainers :
           /\ ~context_rejected(s, spec.ctr[c], NoImageConfig)
           /\ new.ctr[c] = set_context(s, spec.ctr[c])
      /\ some_context_mutated(s, spec) => ~context_rejected(s, spec.psc, NoImageConfig)
      /\ ~supplemental_rejected(s, spec.psc)
      /\ new.psc = set_supplemental(s, psc)
  BY <1>1, UserGroupAnswer
<1>3. spec.psc \in PodSecurityContext
      /\ \A c \in TemplateContainers : spec.ctr[c] \in SecurityContext
  BY DEF PodSpec, Containers
<1>4. ASSUME NEW c \in TemplateContainers
      PROVE  /\ ContextSettled(s, new.ctr[c])
             /\ context_mutated(s, new.ctr[c]) => context_mutated(s, spec.ctr[c])
  BY <1>2, <1>3, SetContextFields, FieldsSettle
<1>5. some_context_mutated(s, new) => some_context_mutated(s, spec)
  BY <1>4 DEF some_context_mutated
<1>6. /\ psc \in PodSecurityContext
      /\ psc.supplemental = spec.psc.supplemental
      /\ some_context_mutated(s, spec) => ContextSettled(s, psc)
  <2>1. CASE some_context_mutated(s, spec)
    <3>1. ContextSettled(s, psc)
      BY <1>2, <1>3, <2>1, SetContextFields, FieldsSettle
    <3>2. \A x \in PodSecurityContext :
            /\ set_run_as_user(s, x).supplemental = x.supplemental
            /\ set_run_as_group(s, x).supplemental = x.supplemental
      BY DEF set_run_as_user, set_run_as_group, PodSecurityContext
    <3>3. set_run_as_user(s, spec.psc) \in PodSecurityContext
      BY <1>3, UserGroupDefaults DEF set_run_as_user, run_as_user_mutated,
         PodSecurityContext, Tri
    <3> QED
      BY <1>3, <2>1, <3>1, <3>2, <3>3, UserGroupSetType DEF set_context
  <2>2. CASE ~some_context_mutated(s, spec)
    BY <1>3, <2>2
  <2> QED BY <2>1, <2>2
<1> HIDE DEF psc
<1>7. new.psc.user = psc.user /\ new.psc.group = psc.group /\ new.psc.nonRoot = psc.nonRoot
  BY <1>2, <1>6 DEF set_supplemental, PodSecurityContext
<1>8. some_context_mutated(s, new) => ContextSettled(s, new.psc)
  BY <1>5, <1>6, <1>7 DEF ContextSettled, context_rejected, run_as_user_rejected,
     run_as_group_rejected, run_as_group_mutated
<1>9. SupplementalSettled(s, new.psc)
  <2>1. CASE supplemental_mutated(s, psc)
    <3>1. new.psc.supplemental = {r.ranges[1].min}
      BY <1>2, <1>6, <2>1 DEF set_supplemental, PodSecurityContext
    <3>2. InRanges(r.ranges[1].min, r.ranges) /\ r.rule = "MustRunAs" /\ ~s.validate_only
      BY <2>1, UserGroupDefaults DEF supplemental_mutated, defaults, valid_user_group_settings
    <3> QED
      BY <3>1, <3>2 DEF SupplementalSettled, supplemental_rejected
  <2>2. CASE ~supplemental_mutated(s, psc)
    <3>1. new.psc = psc
      BY <1>2, <2>2 DEF set_supplemental
    <3> QED
      BY <1>2, <1>6, <2>2, <3>1 DEF SupplementalSettled, supplemental_rejected
  <2> QED BY <2>1, <2>2
<1>10. UserGroupSettled(s, new)
  BY <1>4, <1>8, <1>9 DEF UserGroupSettled
<1> QED
  BY <1>1, <1>10

LEMMA UserGroupStays ==
  ASSUME NEW s \in UserGroupSettings, valid_user_group_settings(s),
         NEW spec \in PodSpec, NEW images, ~s.validate_image, UserGroupSettled(s, spec)
  PROVE  /\ user_group_validate(s, spec, images).verdict # "reject"
         /\ user_group_validate(s, spec, images).spec = spec
<1>1. spec.psc \in PodSecurityContext /\ \A c \in Containers : spec.ctr[c] \in SecurityContext
  BY DEF PodSpec
<1>2. ~user_group_rejected(s, spec, images)
  BY DEF user_group_rejected, UserGroupSettled, ContextSettled, SupplementalSettled
<1>3. \A c \in TemplateContainers : set_context(s, spec.ctr[c]) = spec.ctr[c]
  BY <1>1, SettledContextStays DEF UserGroupSettled, Containers
<1>4. some_context_mutated(s, spec) => set_context(s, spec.psc) = spec.psc
  BY <1>1, SettledContextStays DEF UserGroupSettled
<1>5. set_supplemental(s, spec.psc) = spec.psc
  BY <1>1 DEF UserGroupSettled, SupplementalSettled, set_supplemental, PodSecurityContext
<1>6. user_group_patch(s, spec) = [spec EXCEPT !.psc = spec.psc, !.ctr = spec.ctr]
  <2>1. [c \in Containers |-> IF c \in TemplateContainers
                                THEN set_context(s, spec.ctr[c]) ELSE spec.ctr[c]] = spec.ctr
    BY <1>3 DEF PodSpec
  <2> QED
    BY <1>4, <1>5, <2>1 DEF user_group_patch
<1>7. user_group_patch(s, spec) = spec
  BY <1>6 DEF PodSpec
<1> QED
  BY <1>2, <1>7 DEF user_group_validate, mutate_request, accept_request

\* Whatever keeps the users, the groups and the supplemental groups keeps a pod
\* settled.
LEMMA UserGroupSettledDependsOn ==
  ASSUME NEW s, NEW a, NEW b, SameUsers(a, b), SamePodUsers(a, b), SameSupplemental(a, b),
         UserGroupSettled(s, a)
  PROVE  UserGroupSettled(s, b)
<1>1. \A c \in TemplateContainers :
        /\ ContextSettled(s, b.ctr[c])
        /\ context_mutated(s, b.ctr[c]) <=> context_mutated(s, a.ctr[c])
  BY DEF UserGroupSettled, SameUsers, ContextSettled, context_rejected, run_as_user_rejected,
     run_as_group_rejected, run_as_group_mutated, context_mutated, run_as_user_mutated
<1>2. some_context_mutated(s, b) => some_context_mutated(s, a)
  BY <1>1 DEF some_context_mutated
<1>3. ContextSettled(s, a.psc) => ContextSettled(s, b.psc)
  BY DEF SamePodUsers, ContextSettled, context_rejected, run_as_user_rejected,
     run_as_group_rejected, run_as_group_mutated
<1>4. SupplementalSettled(s, b.psc)
  BY DEF UserGroupSettled, SameSupplemental, SupplementalSettled, supplemental_rejected,
     supplemental_mutated
<1> QED
  BY <1>1, <1>2, <1>3, <1>4 DEF UserGroupSettled

\* The other policies accept a pod that complies, as it is.
LEMMA CompliantStays ==
  ASSUME NEW spec \in PodSpec
  PROVE  /\ \A s : CapabilitiesCompliant(s, spec) =>
              capabilities_validate(s, spec) = accept_request(spec)
         /\ \A s \in FsGroupsSettings : FsGroupsCompliant(s, spec) =>
              fsgroups_validate(s, spec) = accept_request(spec)
         /\ \A s \in PrioritySettings : PriorityCompliant(s, spec) =>
              priority_validate(s, spec) = accept_request(spec)
         /\ \A s : NdotsCompliant(s, spec) => ndots_validate(s, spec) = accept_request(spec)
<1>1. ASSUME NEW s, CapabilitiesCompliant(s, spec)
      PROVE  capabilities_validate(s, spec) = accept_request(spec)
  <2>1. \A c \in TemplateContainers : ~needs_patch(s, spec.ctr[c])
    BY <1>1 DEF CapabilitiesCompliant, ContainerHasCapabilities, needs_patch
  <2>2. \A x \in get_caps(spec) : (s.allow_all \/ x \in s.allowed) /\ x \notin s.required_drop
    BY <1>1 DEF CapabilitiesCompliant, ContainerHasCapabilities, get_caps
  <2>3. validate_added_caps(s, spec)
    BY <2>2 DEF validate_added_caps
  <2> QED
    BY <2>1, <2>3 DEF capabilities_validate
<1>2. ASSUME NEW s \in FsGroupsSettings, FsGroupsCompliant(s, spec)
      PROVE  fsgroups_validate(s, spec) = accept_request(spec)
  BY <1>2 DEF FsGroupsSettings, FsGroupsCompliant, fsgroups_validate, validate_fs_group
<1>3. ASSUME NEW s \in PrioritySettings, PriorityCompliant(s, spec)
      PROVE  priority_validate(s, spec) = accept_request(spec)
  BY <1>3 DEF PriorityCompliant, priority_validate
<1>4. ASSUME NEW s, NdotsCompliant(s, spec)
      PROVE  ndots_validate(s, spec) = accept_request(spec)
  <2>1. enforce_ndots(s, spec) = spec
    BY <1>4 DEF NdotsCompliant, enforce_ndots, PodSpec
  <2> QED
    BY <2>1 DEF ndots_validate
<1> QED
  BY <1>1, <1>2, <1>3, <1>4

LEMMA RuntimeStays ==
  ASSUME NEW s \in RuntimeSettings, NEW spec \in PodSpec, RuntimeSettled(s, spec)
  PROVE  /\ runtime_validate(s, spec).verdict # "reject"
         /\ runtime_validate(s, spec).spec = spec
<1>1. CASE s.fallback # None
  <2>1. [spec EXCEPT !.runtime = s.fallback] = spec
    BY <1>1 DEF RuntimeSettled, PodSpec
  <2> QED
    BY <1>1, <2>1 DEF runtime_validate, mutate_or_reject, mutate_request
<1>2. CASE s.fallback = None
  <2>1. runtime_validate(s, spec).spec = spec
    BY <1>2 DEF runtime_validate, mutate_or_reject, accept_request, reject_request
  <2> QED
    BY <1>2, <2>1 DEF RuntimeSettled, runtime_validate, mutate_or_reject, accept_request
<1> QED BY <1>1, <1>2

LEMMA RuntimeSettles ==
  ASSUME NEW s \in RuntimeSettings, valid_runtime_settings(s), NEW spec \in PodSpec,
         runtime_validate(s, spec).verdict # "reject"
  PROVE  RuntimeSettled(s, runtime_validate(s, spec).spec)
<1>1. CASE s.fallback # None
  BY <1>1 DEF RuntimeSettled, runtime_validate, mutate_or_reject, mutate_request, PodSpec
<1>2. CASE s.fallback = None
  <2>1. runtime_validate(s, spec).spec = spec /\ ~s.default_reserved
    BY <1>2 DEF runtime_validate, mutate_or_reject, accept_request, reject_request
  <2>2. spec.runtime \notin s.reserved
    BY <2>1, RuntimeComplies DEF RuntimeCompliant
  <2> QED
    BY <1>2, <2>1, <2>2 DEF RuntimeSettled
<1> QED BY <1>1, <1>2

LEMMA SelinuxStays ==
  ASSUME NEW s \in SelinuxSettings, NEW spec \in PodSpec, SelinuxCompliant(s, spec)
  PROVE  /\ selinux_validate(s, spec).verdict # "reject"
         /\ selinux_validate(s, spec).spec = spec
<1>1. CASE s.rule # "MustRunAs"
  BY <1>1 DEF SelinuxSettings, selinux_validate, accept_request
<1>2. CASE s.rule = "MustRunAs"
  <2>1. /\ ContextIsCompliant(s, spec.psc)
        /\ \A c \in PresentContainers(spec) : ContextIsCompliant(s, spec.ctr[c])
    BY <1>2 DEF SelinuxCompliant
  <2>2. default_options(s.options, spec.psc) = spec.psc
    BY <2>1 DEF ContextIsCompliant, default_options
  <2>3. [c \in Containers |-> IF c \in PresentContainers(spec)
            THEN default_options(s.options, spec.ctr[c]) ELSE spec.ctr[c]] = spec.ctr
    BY <2>1 DEF ContextIsCompliant, default_options, PodSpec
  <2>4. DefaultedOptions(s, spec) = [spec EXCEPT !.psc = spec.psc, !.ctr = spec.ctr]
    BY <2>2, <2>3 DEF DefaultedOptions
  <2>5. DefaultedOptions(s, spec) = spec
    BY <2>4 DEF PodSpec
  <2>6. selinux_validate(s, spec) = accept_request(spec)
    BY <1>2, <2>1, <2>5 DEF ContextIsCompliant, selinux_validate, DefaultedOptions
  <2> QED
    BY <2>6 DEF accept_request
<1> QED BY <1>1, <1>2

LEMMA EscalationStays ==
  ASSUME NEW s \in EscalationSettings, NEW spec \in PodSpec, EscalationCompliant(s, spec)
  PROVE  escalation_validate(s, spec) = accept_request(spec)
<1>1. ~has_allowed_privilege_escalation_container(TemplateContainers, spec)
  BY DEF EscalationCompliant, has_allowed_privilege_escalation_container
<1>2. CASE s.default_allow
  BY <1>1, <1>2 DEF escalation_validate
<1>3. CASE ~s.default_allow
  <2>1. \A c \in Containers :
          (IF c \in TemplateContainers THEN [spec.ctr[c] EXCEPT !.ape = "no"]
                                       ELSE spec.ctr[c]) = spec.ctr[c]
    BY <1>3 DEF EscalationCompliant, PodSpec, SecurityContext
  <2>2. [c \in Containers |-> IF c \in TemplateContainers
           THEN [spec.ctr[c] EXCEPT !.ape = "no"] ELSE spec.ctr[c]] = spec.ctr
    BY <2>1 DEF PodSpec
  <2>3. patch_containers(spec) = [spec EXCEPT !.ctr = spec.ctr]
    BY <2>2 DEF patch_containers
  <2>4. patch_containers(spec) = spec
    BY <2>3 DEF PodSpec
  <2> QED
    BY <1>1, <2>4 DEF escalation_validate
<1> QED BY <1>2, <1>3

\* Only user-group and allowed-fsgroups write the pod's own user and groups.
LEMMA PodUsersFrame ==
  ASSUME NEW s, NEW spec \in PodSpec
  PROVE  /\ SamePodUsers(spec, capabilities_validate(s, spec).spec)
         /\ SamePodUsers(spec, selinux_validate(s, spec).spec)
         /\ SamePodUsers(spec, escalation_validate(s, spec).spec)
         /\ SamePodUsers(spec, runtime_validate(s, spec).spec)
         /\ SamePodUsers(spec, priority_validate(s, spec).spec)
         /\ SamePodUsers(spec, ndots_validate(s, spec).spec)
<1>1. capabilities_validate(s, spec).spec.psc = spec.psc
  BY DEF capabilities_validate, patch_object, accept_request, reject_request,
     mutate_request, PodSpec
<1>2. SamePodUsers(spec, selinux_validate(s, spec).spec)
  <2> DEFINE new == selinux_validate(s, spec).spec
  <2>1. new = spec \/ new = DefaultedOptions(s, spec)
    BY DEF selinux_validate, DefaultedOptions, accept_request, reject_request, mutate_request
  <2>2. new.psc = spec.psc \/ new.psc = default_options(s.options, spec.psc)
    BY <2>1 DEF DefaultedOptions, PodSpec
  <2> HIDE DEF new
  <2>3. SamePodUsers(spec, new)
    BY <2>2 DEF default_options, PodSpec, PodSecurityContext, SamePodUsers
  <2> QED
    BY <2>3 DEF new
<1>3. escalation_validate(s, spec).spec.psc = spec.psc
  BY DEF escalation_validate, patch_containers, accept_request, reject_request,
     mutate_request, PodSpec
<1> QED
  BY <1>1, <1>2, <1>3, ClassesFrame DEF SamePodUsers

(***************************************************************************)
(* What a policy admits, in terms of the fields that the others write      *)
(***************************************************************************)

UserGroupAdmits(s, spec) ==
  /\ \A c \in TemplateContainers : ~context_rejected(s, spec.ctr[c], NoImageConfig)
  /\ some_context_mutated(s, spec) => ~context_rejected(s, spec.psc, NoImageConfig)
  /\ ~supplemental_rejected(s, spec.psc)

FsGroupsAdmits(s, spec) ==
  s.rule # "RunAsAny" /\ spec.psc.fsGroup # None => InRanges(spec.psc.fsGroup, s.ranges)

SelinuxAdmits(s, spec) ==
  s.rule = "MustRunAs" =>
    /\ spec.psc.selinux = None \/ is_selinux_compliant(spec.psc.selinux, s.options)
    /\ \A c \in PresentContainers(spec) :
         spec.ctr[c].selinux = None \/ is_selinux_compliant(spec.ctr[c].selinux, s.options)

EscalationAdmits(spec) == \A c \in TemplateContainers : spec.ctr[c].ape # "yes"

RuntimeAdmits(s, spec) ==
  s.fallback # None \/ (spec.runtime \notin s.reserved /\ ~s.default_reserved)

PriorityAdmits(s, spec) ==
  spec.priority # None =>
    /\ spec.priority \notin s.denied
    /\ s.allowed # {} => spec.priority \in s.allowed

LEMMA AdmitsIsAdmitted ==
  ASSUME NEW spec \in PodSpec
  PROVE  /\ \A s : validate_added_caps(s, spec) =>
              capabilities_validate(s, spec).verdict # "reject"
         /\ \A s, images : ~s.validate_image /\ UserGroupAdmits(s, spec) =>
              user_group_validate(s, spec, images).verdict # "reject"
         /\ \A s : FsGroupsAdmits(s, spec) => fsgroups_validate(s, spec).verdict # "reject"
         /\ \A s \in SelinuxSettings : SelinuxAdmits(s, spec) =>
              selinux_validate(s, spec).verdict # "reject"
         /\ \A s : EscalationAdmits(spec) => escalation_validate(s, spec).verdict # "reject"
         /\ \A s : RuntimeAdmits(s, spec) => runtime_validate(s, spec).verdict # "reject"
         /\ \A s : PriorityAdmits(s, spec) => priority_validate(s, spec).verdict # "reject"
         /\ \A s : ndots_validate(s, spec).verdict # "reject"
<1>1. ASSUME NEW s, validate_added_caps(s, spec)
      PROVE  capabilities_validate(s, spec).verdict # "reject"
  BY <1>1 DEF capabilities_validate, accept_request, mutate_request
<1>2. ASSUME NEW s, NEW images, ~s.validate_image, UserGroupAdmits(s, spec)
      PROVE  user_group_validate(s, spec, images).verdict # "reject"
  <2>1. ~user_group_rejected(s, spec, images)
    BY <1>2 DEF UserGroupAdmits, user_group_rejected
  <2> QED
    BY <2>1 DEF user_group_validate, accept_request, mutate_request
<1>3. ASSUME NEW s, FsGroupsAdmits(s, spec)
      PROVE  fsgroups_validate(s, spec).verdict # "reject"
  BY <1>3 DEF FsGroupsAdmits, fsgroups_validate, validate_fs_group, accept_request,
     mutate_request
<1>4. ASSUME NEW s \in SelinuxSettings, SelinuxAdmits(s, spec)
      PROVE  selinux_validate(s, spec).verdict # "reject"
  BY <1>4 DEF SelinuxAdmits, SelinuxSettings, selinux_validate, accept_request,
     mutate_request
<1>5. ASSUME NEW s, EscalationAdmits(spec)
      PROVE  escalation_validate(s, spec).verdict # "reject"
  BY <1>5 DEF EscalationAdmits, escalation_validate,
     has_allowed_privilege_escalation_container, accept_request, mutate_request
<1>6. ASSUME NEW s, RuntimeAdmits(s, spec)
      PROVE  runtime_validate(s, spec).verdict # "reject"
  BY <1>6 DEF RuntimeAdmits, runtime_validate, mutate_or_reject, accept_request,
     mutate_request
<1>7. ASSUME NEW s, PriorityAdmits(s, spec)
      PROVE  priority_validate(s, spec).verdict # "reject"
  BY <1>7 DEF PriorityAdmits, priority_validate, accept_request, mutate_request
<1>8. \A s : ndots_validate(s, spec).verdict # "reject"
  BY DEF ndots_validate, accept_request, mutate_request
<1> QED
  BY <1>1, <1>2, <1>3, <1>4, <1>5, <1>6, <1>7, <1>8

\* A pod that is settled is admitted.
LEMMA SettledAdmits ==
  ASSUME NEW spec \in PodSpec
  PROVE  /\ \A s : CapabilitiesCompliant(s, spec) => validate_added_caps(s, spec)
         /\ \A s : UserGroupSettled(s, spec) => UserGroupAdmits(s, spec)
         /\ \A s \in FsGroupsSettings : FsGroupsCompliant(s, spec) => FsGroupsAdmits(s, spec)
         /\ \A s : SelinuxCompliant(s, spec) => SelinuxAdmits(s, spec)
         /\ \A s : EscalationCompliant(s, spec) => EscalationAdmits(spec)
         /\ \A s : RuntimeSettled(s, spec) => RuntimeAdmits(s, spec)
         /\ \A s : PriorityCompliant(s, spec) => PriorityAdmits(s, spec)
<1>1. ASSUME NEW s, CapabilitiesCompliant(s, spec)
      PROVE  validate_added_caps(s, spec)
  <2>1. \A x \in get_caps(spec) : (s.allow_all \/ x \in s.allowed) /\ x \notin s.required_drop
    BY <1>1 DEF CapabilitiesCompliant, ContainerHasCapabilities, get_caps
  <2> QED
    BY <2>1 DEF validate_added_caps
<1>2. \A s : UserGroupSettled(s, spec) => UserGroupAdmits(s, spec)
  BY DEF UserGroupSettled, ContextSettled, SupplementalSettled, UserGroupAdmits
<1> QED
  BY <1>1, <1>2 DEF FsGroupsCompliant, FsGroupsSettings, FsGroupsAdmits, SelinuxCompliant,
     ContextIsCompliant, SelinuxAdmits, EscalationCompliant, EscalationAdmits,
     RuntimeSettled, RuntimeAdmits, PriorityCompliant, PriorityAdmits

\* What a policy admits depends on its own part of the pod ...
LEMMA AdmitsDependsOn ==
  ASSUME NEW a, NEW b
  PROVE  /\ \A s : SameCapabilities(a, b) /\ validate_added_caps(s, a)
                     => validate_added_caps(s, b)
         /\ \A s : SameUsers(a, b) /\ SamePodUsers(a, b) /\ SameSupplemental(a, b)
                     /\ UserGroupAdmits(s, a) => UserGroupAdmits(s, b)
         /\ \A s : SameFsGroup(a, b) /\ FsGroupsAdmits(s, a) => FsGroupsAdmits(s, b)
         /\ SameEscalation(a, b) /\ EscalationAdmits(a) => EscalationAdmits(b)
<1>1. ASSUME NEW s, SameCapabilities(a, b), validate_added_caps(s, a)
      PROVE  validate_added_caps(s, b)
  <2>1. get_caps(a) = get_caps(b)
    BY <1>1 DEF SameCapabilities, get_caps
  <2> QED
    BY <1>1, <2>1 DEF validate_added_caps
<1>2. ASSUME NEW s, SameUsers(a, b), SamePodUsers(a, b), SameSupplemental(a, b),
             UserGroupAdmits(s, a)
      PROVE  UserGroupAdmits(s, b)
  <2>1. \A c \in TemplateContainers :
          /\ ~context_rejected(s, b.ctr[c], NoImageConfig)
          /\ context_mutated(s, b.ctr[c]) <=> context_mutated(s, a.ctr[c])
    BY <1>2 DEF UserGroupAdmits, SameUsers, context_rejected, run_as_user_rejected,
       run_as_group_rejected, context_mutated, run_as_user_mutated, run_as_group_mutated
  <2>2. some_context_mutated(s, b) => some_context_mutated(s, a)
    BY <2>1 DEF some_context_mutated
  <2>3. context_rejected(s, b.psc, NoImageConfig) => context_rejected(s, a.psc, NoImageConfig)
    BY <1>2 DEF SamePodUsers, context_rejected, run_as_user_rejected, run_as_group_rejected
  <2>4. ~supplemental_rejected(s, b.psc)
    BY <1>2 DEF UserGroupAdmits, SameSupplemental, supplemental_rejected
  <2> QED
    BY <1>2, <2>1, <2>2, <2>3, <2>4 DEF UserGroupAdmits
<1> QED
  BY <1>1, <1>2 DEF SameFsGroup, FsGroupsAdmits, SameEscalation, EscalationAdmits

LEMMA SelinuxAdmitsDependsOn ==
  ASSUME NEW s, NEW a, NEW b \in PodSpec, SameSelinux(a, b), SelinuxAdmits(s, a)
  PROVE  SelinuxAdmits(s, b)
<1>1. PresentContainers(a) = PresentContainers(b)
  BY DEF SameSelinux, PresentContainers
<1>2. PresentContainers(b) \subseteq Containers
  BY DEF PresentContainers, PodSpec, Containers
<1>3. \A c \in PresentContainers(b) : a.ctr[c].selinux = b.ctr[c].selinux
  BY <1>2 DEF SameSelinux
<1>4. a.psc.selinux = b.psc.selinux
  BY DEF SameSelinux
<1> QED
  BY <1>1, <1>3, <1>4 DEF SelinuxAdmits

\* ... and a pod whose own context allowed-fsgroups empties is still admitted by
\* user-group and selinux: they reject what is set, or else every pod.
LEMMA EmptiedIsAdmitted ==
  ASSUME NEW s \in FsGroupsSettings, NEW spec \in PodSpec
  PROVE  LET new == fsgroups_validate(s, spec).spec IN
         /\ \A u \in UserGroupSettings : valid_user_group_settings(u)
              /\ UserGroupAdmits(u, spec) => UserGroupAdmits(u, new)
         /\ \A x : SelinuxAdmits(x, spec) => SelinuxAdmits(x, new)
<1> DEFINE new == fsgroups_validate(s, spec).spec
<1>1. new = spec \/ new = pod_with_defaulted_fs_group(s, spec)
  BY DEF fsgroups_validate, validate_fs_group, accept_request, reject_request, mutate_request
<1>2. CASE new = spec
  BY <1>2
<1>3. CASE new = pod_with_defaulted_fs_group(s, spec)
  <2>1. /\ new.ctr = spec.ctr /\ new.ephemeral = spec.ephemeral
        /\ new.psc.user = None /\ new.psc.group = None /\ new.psc.nonRoot = "unset"
        /\ new.psc.supplemental = None /\ new.psc.selinux = None
    BY <1>3 DEF pod_with_defaulted_fs_group, EmptyPodSecurityContext, PodSpec
  <2> HIDE DEF new
  <2>2. ASSUME NEW u \in UserGroupSettings, valid_user_group_settings(u),
               UserGroupAdmits(u, spec)
        PROVE  UserGroupAdmits(u, new)
    <3>1. PICK c \in TemplateContainers : ~context_rejected(u, spec.ctr[c], NoImageConfig)
      BY <2>2, ContainersAssumption DEF UserGroupAdmits, TemplateContainers
    <3>2. ~context_rejected(u, new.psc, NoImageConfig)
      <4>1. ~run_as_user_rejected(u, new.psc, NoImageConfig)
        BY <2>1, <2>2, <3>1 DEF context_rejected, run_as_user_rejected, defaults,
           NoImageConfig, valid_user_group_settings
      <4>2. ~run_as_group_rejected(u, new.psc, NoImageConfig)
        BY <2>1, <2>2, <3>1 DEF context_rejected, run_as_group_rejected, defaults,
           NoImageConfig, valid_user_group_settings
      <4> QED
        BY <4>1, <4>2 DEF context_rejected, NoImageConfig
    <3>3. ~supplemental_rejected(u, new.psc)
      BY <2>1, <2>2 DEF UserGroupAdmits, supplemental_rejected, defaults,
         valid_user_group_settings
    <3> QED
      BY <2>1, <2>2, <3>2, <3>3 DEF UserGroupAdmits
  <2>3. \A x : SelinuxAdmits(x, spec) => SelinuxAdmits(x, new)
    BY <2>1 DEF SelinuxAdmits, PresentContainers
  <2> QED
    BY <2>2, <2>3 DEF new
<1> QED BY <1>1, <1>2, <1>3

================================================================================
