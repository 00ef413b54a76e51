---------------------------- MODULE PodClassPolicies ----------------------------
(***************************************************************************)
(* The policies that write one field of the pod spec:                      *)
(* policies/pod-runtime-class-policy (runtimeClassName),                   *)
(* policies/priority-class-policy (priorityClassName) and                  *)
(* policies/pod-ndots-policy (the ndots option of dnsConfig).              *)
(***************************************************************************)
EXTENDS PodSpecs

RuntimeSettings ==
  [reserved : SUBSET ClassName,          \* reserved_runtimes
   fallback : ClassName \union {None},   \* fallback_runtime
   default_reserved : BOOLEAN]           \* default_runtime_reserved

\* Settings::validate of pod-runtime-class
valid_runtime_settings(s) == s.fallback = None \/ s.fallback \notin s.reserved

mutate_or_reject(s, spec) ==
  IF s.fallback # None
    THEN mutate_request([spec EXCEPT !.runtime = s.fallback])
    ELSE reject_request(spec)

\* lib.rs validate of pod-runtime-class.  Past the test for a reserved runtime
\* the code no longer looks at the runtime the pod names.
runtime_validate(s, spec) ==
  IF spec.runtime # None /\ spec.runtime \in s.reserved THEN mutate_or_reject(s, spec)
  ELSE IF s.default_reserved THEN mutate_or_reject(s, spec)
  ELSE IF s.fallback # None
    THEN mutate_request([spec EXCEPT !.runtime = s.fallback])
  ELSE accept_request(spec)

PrioritySettings ==
  [allowed : SUBSET ClassName,              \* allowed_priority_classes
   denied  : SUBSET ClassName,              \* denied_priority_classes
   default : ClassName \union {None}]       \* default_priority_class

\* Settings::validate of priority-class
valid_priority_settings(s) ==
  /\ (s.allowed = {}) # (s.denied = {})
  /\ s.default # None => /\ s.allowed # {} => s.default \in s.allowed
                         /\ s.default \notin s.denied

\* Mutant: with a default, no pod may name its class.
priority_is_defaulted(s, spec) ==
  IF spec.priority # None
    THEN IF s.default # None THEN reject_request(spec) ELSE accept_request(spec)
  ELSE IF s.default = None THEN accept_request(spec)
  ELSE mutate_request([spec EXCEPT !.priority = s.default])

\* validate_pod_priority_class
priority_validate(s, spec) ==
  IF spec.priority = None
    THEN IF s.default = None THEN accept_request(spec)
         ELSE mutate_request([spec EXCEPT !.priority = s.default])
  ELSE IF \/ spec.priority \in s.denied
          \/ s.allowed # {} /\ spec.priority \notin s.allowed
    THEN reject_request(spec)
  ELSE accept_request(spec)

NdotsSettings == [ndots : Ndots]

\* enforce_ndots and lib.rs validate of pod-ndots
enforce_ndots(s, spec) == [spec EXCEPT !.ndots = s.ndots]
ndots_validate(s, spec) ==
  IF enforce_ndots(s, spec) # spec
    THEN mutate_request(enforce_ndots(s, spec))
    ELSE accept_request(spec)

--------------------------------------------------------------------------------
\* What the READMEs promise of an admitted pod.
RuntimeCompliant(s, spec) ==
  /\ spec.runtime \notin s.reserved
  /\ s.default_reserved => spec.runtime # None

PriorityCompliant(s, spec) ==
  /\ spec.priority \notin s.denied
  /\ s.allowed # {} => spec.priority = None \/ spec.priority \in s.allowed
  /\ s.default # None => spec.priority # None

NdotsCompliant(s, spec) == spec.ndots = s.ndots
================================================================================
