------------------------------ MODULE UserGroupPsp ------------------------------
(***************************************************************************)
(* policies/user-group-psp-policy: runAsUser, runAsNonRoot, runAsGroup and *)
(* supplementalGroups of a pod and of its containers and init containers.  *)
(* enforce_* returns Err (here: *_rejected), Some(context) (here:          *)
(* *_mutated and the set_* operator) or None (nothing to do).              *)
(***************************************************************************)
EXTENDS PodSpecs

RuleStrategy(rules) ==
  [rule : rules, ranges : Seq(IdRange), overwrite : BOOLEAN]

\* MayRunAs is no rule for run_as_user, MustRunAsNonRoot only for it.
UserGroupSettings ==
  [run_as_user  : RuleStrategy({"MustRunAs", "MustRunAsNonRoot", "RunAsAny"}),
   run_as_group : RuleStrategy({"MustRunAs", "MayRunAs", "RunAsAny"}),
   supplemental_groups : RuleStrategy({"MustRunAs", "MayRunAs", "RunAsAny"}),
   validate_image : BOOLEAN,  \* validate_container_image_configuration
   validate_only  : BOOLEAN]

\* valid_user_rule_settings and valid_group_rule_settings
valid_rule_settings(r) ==
  /\ r.overwrite => r.rule = "MustRunAs"
  /\ r.rule \in {"MustRunAs", "MayRunAs"} => ValidRanges(r.ranges)

\* Settings::validate
valid_user_group_settings(s) ==
  /\ valid_rule_settings(s.run_as_user)
  /\ valid_rule_settings(s.run_as_group)
  /\ valid_rule_settings(s.supplemental_groups)
  /\ s.validate_only => ~( \/ s.run_as_user.overwrite
                           \/ s.run_as_group.overwrite
                           \/ s.supplemental_groups.overwrite )

\* The answer of the registry about the image of a container (a host
\* capability, external): the USER directive of its configuration.  "failed"
\* is a lookup that fails or a directive that is not numeric.
ImageConfig == [user : Id \union {None}, group : Id \union {None},
                failed : BOOLEAN]
NoImageConfig == [user |-> None, group |-> None, failed |-> FALSE]

\* Mutant: what is there is overwritten whether the strategy says so or not.
always_defaults(s, strategy, value) == ~s.validate_only

\* A strategy overwrites what is there, or fills in what is missing.
defaults(s, strategy, value) ==
  strategy.overwrite \/ (value = None /\ ~s.validate_only)

\* enforce_run_as_user_rule
run_as_user_rejected(s, sc, image) ==
  LET r == s.run_as_user IN
  \/ /\ r.rule = "MustRunAs"
     /\ \/ image.user # None /\ ~InRanges(image.user, r.ranges)
        \/ /\ ~defaults(s, r, sc.user)
           /\ \/ sc.user # None /\ ~InRanges(sc.user, r.ranges)
              \/ s.validate_only  \* MissingUserId, even when it is not missing
  \/ /\ r.rule = "MustRunAsNonRoot"
     /\ image.user = 0 \/ sc.nonRoot = "no" \/ sc.user = 0 \/ s.validate_only

run_as_user_mutated(s, sc) ==
  \/ s.run_as_user.rule = "MustRunAs" /\ defaults(s, s.run_as_user, sc.user)
  \/ s.run_as_user.rule = "MustRunAsNonRoot"

set_run_as_user(s, sc) ==
  IF ~run_as_user_mutated(s, sc) THEN sc
  ELSE IF s.run_as_user.rule = "MustRunAs"
    THEN [sc EXCEPT !.user = s.run_as_user.ranges[1].min]
    ELSE [sc EXCEPT !.nonRoot = "yes"]

\* enforce_run_as_group, with enforce_container_image_group
run_as_group_rejected(s, sc, image) ==
  LET r == s.run_as_group IN
  /\ r.rule \in {"MustRunAs", "MayRunAs"}
  /\ \/ image.group # None /\ ~InRanges(image.group, r.ranges)
     \/ /\ ~(r.rule = "MustRunAs" /\ defaults(s, r, sc.group))
        /\ \/ sc.group # None /\ ~InRanges(sc.group, r.ranges)
           \/ r.rule = "MustRunAs" /\ s.validate_only

run_as_group_mutated(s, sc) ==
  s.run_as_group.rule = "MustRunAs" /\ defaults(s, s.run_as_group, sc.group)

set_run_as_group(s, sc) ==
  IF run_as_group_mutated(s, sc)
    THEN [sc EXCEPT !.group = s.run_as_group.ranges[1].min]
    ELSE sc

\* enforce_supplemental_groups
supplemental_rejected(s, psc) ==
  LET r == s.supplemental_groups IN
  /\ r.rule \in {"MustRunAs", "MayRunAs"}
  /\ ~(r.rule = "MustRunAs" /\ defaults(s, r, psc.supplemental))
  /\ \/ /\ psc.supplemental # None
        /\ \E g \in psc.supplemental : ~InRanges(g, r.ranges)
     \/ r.rule = "MustRunAs" /\ s.validate_only

supplemental_mutated(s, psc) ==
  /\ s.supplemental_groups.rule = "MustRunAs"
  /\ defaults(s, s.supplemental_groups, psc.supplemental)

set_supplemental(s, psc) ==
  IF supplemental_mutated(s, psc)
    THEN [psc EXCEPT !.supplemental = {s.supplemental_groups.ranges[1].min}]
    ELSE psc

\* enforce_container_security_policies, and enforce_pod_spec_security_policies
\* with no image: the user rule, then the group rule on its result (the two
\* write different fields).
context_rejected(s, sc, image) ==
  image.failed \/ run_as_user_rejected(s, sc, image)
               \/ run_as_group_rejected(s, sc, image)
context_mutated(s, sc) == run_as_user_mutated(s, sc) \/ run_as_group_mutated(s, sc)
set_context(s, sc) == set_run_as_group(s, set_run_as_user(s, sc))

\* lib.rs validate.  The pod's own context is checked and patched only when
\* some container was.
some_context_mutated(s, spec) ==
  \E c \in TemplateContainers : context_mutated(s, spec.ctr[c])

user_group_rejected(s, spec, images) ==
  LET image(c) == IF s.validate_image THEN images[c] ELSE NoImageConfig IN
  \/ \E c \in TemplateContainers : context_rejected(s, spec.ctr[c], image(c))
  \/ some_context_mutated(s, spec) /\ context_rejected(s, spec.psc, NoImageConfig)
  \/ supplemental_rejected(s, spec.psc)

user_group_patch(s, spec) ==
  [spec EXCEPT
     !.psc = set_supplemental(s, IF some_context_mutated(s, spec)
                                   THEN set_context(s, @) ELSE @),
     !.ctr = [c \in Containers |->
       IF c \in TemplateContainers THEN set_context(s, @[c]) ELSE @[c]]]

user_group_validate(s, spec, images) ==
  IF user_group_rejected(s, spec, images) THEN reject_request(spec)
  ELSE IF some_context_mutated(s, spec) \/ supplemental_mutated(s, spec.psc)
    THEN mutate_request(user_group_patch(s, spec))
    ELSE accept_request(spec)

--------------------------------------------------------------------------------
\* What the README promises of the containers of an admitted pod ...
UserCompliant(s, sc) ==
  LET r == s.run_as_user IN
  /\ r.rule = "MustRunAs" => sc.user # None /\ InRanges(sc.user, r.ranges)
  /\ r.rule = "MustRunAsNonRoot" => sc.nonRoot = "yes" /\ sc.user # 0

GroupCompliant(s, sc) ==
  LET r == s.run_as_group IN
  /\ r.rule = "MustRunAs" => sc.group # None
  /\ r.rule \in {"MustRunAs", "MayRunAs"} =>
       sc.group = None \/ InRanges(sc.group, r.ranges)

\* ... and of its pod security context.
SupplementalCompliant(s, psc) ==
  LET r == s.supplemental_groups IN
  /\ r.rule = "MustRunAs" => psc.supplemental # None
  /\ r.rule \in {"MustRunAs", "MayRunAs"} =>
       \/ psc.supplemental = None
       \/ \A g \in psc.supplemental : InRanges(g, r.ranges)

UserGroupCompliant(s, spec) ==
  /\ \A c \in TemplateContainers : /\ UserCompliant(s, spec.ctr[c])
                                   /\ GroupCompliant(s, spec.ctr[c])
  /\ SupplementalCompliant(s, spec.psc)
================================================================================
