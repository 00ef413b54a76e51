------------------------------- MODULE SelinuxPsp -------------------------------
(***************************************************************************)
(* policies/selinux-psp-policy: seLinuxOptions of a Pod and of all its     *)
(* containers, the ephemeral ones included: missing options get the        *)
(* expected value, options that are not compliant reject the pod.          *)
(***************************************************************************)
EXTENDS PodSpecs

\* Levels that do not consist of a sensitivity and a list of categories
\* separated by exactly one colon, such as s0.
CONSTANT PlainLevel
ASSUME PlainLevelAssumption == PlainLevel \subseteq SELinuxLevelText

SelinuxSettings == [rule : {"MustRunAs", "RunAsAny"}, options : SELinuxOptions]

\* The label None stands for options without user, role and type.
valid_selinux_settings(s) ==
  s.rule = "MustRunAs" => s.options.label # None \/ s.options.level # None

\* SELinuxLevel::new and ::eq: the sensitivity and the categories of a plain
\* level stay empty, so any two plain levels compare equal.
same_level(a, b) == a = b \/ {a, b} \subseteq PlainLevel

\* is_selinux_compliant
is_selinux_compliant(options, expected) ==
  /\ expected.level # None /\ options.level # None =>
       same_level(options.level, expected.level)
  /\ options.label = expected.label

\* Mutant: a security context that is there but has no options gets none.
default_absent_contexts(expected, context) ==
  IF context \in {EmptySecurityContext, EmptyPodSecurityContext}
    THEN [context EXCEPT !.selinux = expected] ELSE context

\* The loops of do_validate over the pod's and the containers' contexts.
default_options(expected, context) ==
  IF context.selinux = None THEN [context EXCEPT !.selinux = expected] ELSE context

\* do_validate
selinux_validate(s, spec) ==
  LET compliant(context) == context.selinux = None
                              \/ is_selinux_compliant(context.selinux, s.options)
      patched == [spec EXCEPT
        !.psc = default_options(s.options, @),
        !.ctr = [c \in Containers |->
          IF c \in PresentContainers(spec) THEN default_options(s.options, @[c]) ELSE @[c]]]
  IN IF s.rule = "RunAsAny" THEN accept_request(spec)
     ELSE IF ~compliant(spec.psc) \/ \E c \in PresentContainers(spec) : ~compliant(spec.ctr[c])
       THEN reject_request(spec)
     ELSE IF patched # spec THEN mutate_request(patched)
     ELSE accept_request(spec)

--------------------------------------------------------------------------------
\* What the README promises: the pod and every container run with options that
\* are compatible with the expected ones.
ContextIsCompliant(s, context) ==
  context.selinux # None /\ is_selinux_compliant(context.selinux, s.options)

SelinuxCompliant(s, spec) ==
  s.rule = "MustRunAs" =>
    /\ ContextIsCompliant(s, spec.psc)
    /\ \A c \in PresentContainers(spec) : ContextIsCompliant(s, spec.ctr[c])
================================================================================
