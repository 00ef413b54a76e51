---------------------- MODULE AllowPrivilegeEscalationPsp ----------------------
(***************************************************************************)
(* policies/allow-privilege-escalation-psp-policy: rejects a pod with a    *)
(* container or init container that asks for privilege escalation, and     *)
(* turns it off in the others unless the default is to allow it.           *)
(***************************************************************************)
EXTENDS PodSpecs

EscalationSettings == [default_allow : BOOLEAN]

\* Mutant: a container that sets the field at all counts.
has_privilege_escalation_field(cs, spec) == \E c \in cs : spec.ctr[c].ape # "unset"

has_allowed_privilege_escalation_container(cs, spec) ==
  \E c \in cs : spec.ctr[c].ape = "yes"

\* Mutant: init containers are left alone.
patch_app_containers(spec) ==
  [spec EXCEPT !.ctr = [c \in Containers |->
     IF c \in AppContainers THEN [@[c] EXCEPT !.ape = "no"] ELSE @[c]]]

\* patch_containers
patch_containers(spec) ==
  [spec EXCEPT !.ctr = [c \in Containers |->
     IF c \in TemplateContainers THEN [@[c] EXCEPT !.ape = "no"] ELSE @[c]]]

\* lib.rs validate
escalation_validate(s, spec) ==
  IF has_allowed_privilege_escalation_container(TemplateContainers, spec)
    THEN reject_request(spec)
  ELSE IF ~s.default_allow /\ patch_containers(spec) # spec
    THEN mutate_request(patch_containers(spec))
  ELSE accept_request(spec)

--------------------------------------------------------------------------------
\* What the README promises of an admitted pod.
EscalationCompliant(s, spec) ==
  \A c \in TemplateContainers :
    /\ spec.ctr[c].ape # "yes"
    /\ ~s.default_allow => spec.ctr[c].ape = "no"
================================================================================
