---------------------------- MODULE CapabilitiesPsp ----------------------------
(***************************************************************************)
(* policies/capabilities-psp-policy: rejects a pod that adds a capability  *)
(* it may not add, then adds the default capabilities and drops the        *)
(* required ones in every container and init container.  Ephemeral         *)
(* containers are not looked at.                                           *)
(***************************************************************************)
EXTENDS PodSpecs

\* allowed_capabilities may hold "*": allow_all.
CapabilitiesSettings ==
  [allowed      : SUBSET Capability,
   allow_all    : BOOLEAN,
   required_drop : SUBSET Capability,
   default_add  : SUBSET Capability]

\* Settings::validate
valid_capabilities_settings(s) ==
  /\ s.allowed \intersect s.required_drop = {}
  /\ s.default_add \intersect s.required_drop = {}
  /\ s.allow_all \/ s.default_add \subseteq s.allowed

\* validate.rs get_caps
get_caps(spec) == UNION {spec.ctr[c].add : c \in TemplateContainers}

\* validate.rs validate_added_caps
validate_added_caps(s, spec) ==
  /\ s.allow_all \/ get_caps(spec) \subseteq s.allowed
  /\ get_caps(spec) \intersect s.required_drop = {}

\* Mutant: one of the two lists is enough for a container to need no change.
needs_both_patches(s, sc) ==
  ~(s.default_add \subseteq sc.add \/ s.required_drop \subseteq sc.drop)

\* patch_container_security_context returns Some(context) only for a container
\* that needs a change ...
needs_patch(s, sc) ==
  ~(s.default_add \subseteq sc.add /\ s.required_drop \subseteq sc.drop)

\* Mutant: the lists are replaced, not extended.
replace_capabilities(s, sc) ==
  [sc EXCEPT !.add = s.default_add, !.drop = s.required_drop]

\* ... and None for the others.
patch_container_security_context(s, sc) ==
  IF needs_patch(s, sc)
    THEN [sc EXCEPT !.add = @ \union s.default_add,
                    !.drop = @ \union s.required_drop]
    ELSE EmptySecurityContext

\* mutate.rs patch_object: once one container needs a change, the result of the
\* patch is stored in EVERY container, the None of a compliant one included.
patch_object(s, spec) ==
  [spec EXCEPT !.ctr = [c \in Containers |->
     IF c \in TemplateContainers
       THEN patch_container_security_context(s, @[c])
       ELSE @[c]]]

\* lib.rs validate
capabilities_validate(s, spec) ==
  IF ~validate_added_caps(s, spec) THEN reject_request(spec)
  ELSE IF \E c \in TemplateContainers : needs_patch(s, spec.ctr[c])
    THEN mutate_request(patch_object(s, spec))
    ELSE accept_request(spec)

--------------------------------------------------------------------------------
\* What the README promises of an admitted pod: only allowed capabilities are
\* added, and every container drops the required ones and has the default ones.
ContainerHasCapabilities(s, sc) ==
  /\ s.allow_all \/ sc.add \subseteq s.allowed
  /\ sc.add \intersect s.required_drop = {}
  /\ s.required_drop \subseteq sc.drop
  /\ s.default_add \subseteq sc.add

CapabilitiesCompliant(s, spec) ==
  \A c \in TemplateContainers : ContainerHasCapabilities(s, spec.ctr[c])
================================================================================
