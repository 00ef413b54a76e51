--------------------------- MODULE AllowedFsGroupsPsp ---------------------------
(***************************************************************************)
(* policies/allowed-fsgroups-psp-policy: fsGroup of the pod security       *)
(* context.  Only the Pod kind is deserialized; any other is accepted.     *)
(***************************************************************************)
EXTENDS PodSpecs

FsGroupsSettings ==
  [rule : {"MustRunAs", "MayRunAs", "RunAsAny"}, ranges : Seq(IdRange)]

\* Settings::validate
valid_fsgroups_settings(s) ==
  s.rule \in {"MustRunAs", "MayRunAs"} => ValidRanges(s.ranges)

\* Mutant: the patch is a partial object.
partial_pod_security_context(s, spec) ==
  [spec EXCEPT !.psc = [fsGroup |-> s.ranges[1].min]]

\* pod_with_defaulted_fs_group: a NEW pod security context that holds the
\* default fsGroup and nothing else.
pod_with_defaulted_fs_group(s, spec) ==
  [spec EXCEPT !.psc = [EmptyPodSecurityContext EXCEPT !.fsGroup = s.ranges[1].min]]

\* Mutant: the ranges exclude their maximum.
validate_fs_group_below_max(s, spec) ==
  IF \E i \in DOMAIN s.ranges :
       s.ranges[i].min <= spec.psc.fsGroup /\ spec.psc.fsGroup < s.ranges[i].max
    THEN accept_request(spec) ELSE reject_request(spec)

\* validate_fs_group
validate_fs_group(s, spec) ==
  IF InRanges(spec.psc.fsGroup, s.ranges)
    THEN accept_request(spec) ELSE reject_request(spec)

\* do_validate
fsgroups_validate(s, spec) ==
  IF s.rule = "RunAsAny" THEN accept_request(spec)
  ELSE IF spec.psc.fsGroup # None THEN validate_fs_group(s, spec)
  ELSE IF s.rule = "MustRunAs"
    THEN mutate_request(pod_with_defaulted_fs_group(s, spec))
    ELSE accept_request(spec)

--------------------------------------------------------------------------------
\* What the README promises of an admitted pod.
FsGroupsCompliant(s, spec) ==
  /\ s.rule = "MustRunAs" => spec.psc.fsGroup # None
  /\ s.rule \in {"MustRunAs", "MayRunAs"} =>
       spec.psc.fsGroup = None \/ InRanges(spec.psc.fsGroup, s.ranges)
================================================================================
