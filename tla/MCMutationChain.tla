---------------------------- MODULE MCMutationChain ----------------------------
(***************************************************************************)
(* Instances of MutationChain for TLC.  Identifiers: 0 is root, 1 is out   *)
(* of the ranges, 2 is the default (the minimum), 3 another valid one.     *)
(***************************************************************************)
EXTENDS MutationChain, FiniteSetsExt

MCId == 0 .. 3
MCNdots == {1, 2}
Ranges == <<[min |-> 2, max |-> 2], [min |-> 3, max |-> 3]>>

\* SELinux options: the expected ones, and the same label with another plain
\* level (s1) or with the expected level left out.
S0 == [label |-> "trusted", level |-> "s0"]
S1 == [label |-> "trusted", level |-> "s1"]
NoLevel == [label |-> "trusted", level |-> None]
OtherLabel == [label |-> "other", level |-> "s0"]
Categories == [label |-> "trusted", level |-> "s0:c1,c7"]

--------------------------------------------------------------------------------
\* Settings
Strategy(rule, overwrite) == [rule |-> rule, ranges |-> Ranges, overwrite |-> overwrite]
AnyRule == [rule |-> "RunAsAny", ranges |-> << >>, overwrite |-> FALSE]
NonRootRule == [AnyRule EXCEPT !.rule = "MustRunAsNonRoot"]

BaseSettings ==
  [capabilities |-> [allowed |-> {"CHOWN", "KILL"}, allow_all |-> FALSE,
                     required_drop |-> {"NET"}, default_add |-> {"KILL"}],
   user_group |-> [run_as_user |-> Strategy("MustRunAs", FALSE),
                   run_as_group |-> Strategy("MustRunAs", FALSE),
                   supplemental_groups |-> Strategy("MustRunAs", FALSE),
                   validate_image |-> FALSE, validate_only |-> FALSE],
   fsgroups |-> [rule |-> "MustRunAs", ranges |-> Ranges],
   selinux |-> [rule |-> "MustRunAs", options |-> S0],
   escalation |-> [default_allow |-> FALSE],
   runtime |-> [reserved |-> {"runc"}, fallback |-> "kata", default_reserved |-> TRUE],
   priority |-> [allowed |-> {"low"}, denied |-> {}, default |-> "low"],
   ndots |-> [ndots |-> 1]]

\* Root is refused, groups are optional, nothing is defaulted that need not be.
LenientSettings ==
  [BaseSettings EXCEPT
     !.capabilities = [allowed |-> {}, allow_all |-> TRUE,
                       required_drop |-> {"NET"}, default_add |-> {"CHOWN"}],
     !.user_group.run_as_user = NonRootRule,
     !.user_group.run_as_group = Strategy("MayRunAs", FALSE),
     !.user_group.supplemental_groups = Strategy("MayRunAs", FALSE),
     !.fsgroups.rule = "MayRunAs",
     !.selinux.options = NoLevel,
     !.escalation.default_allow = TRUE,
     !.runtime = [reserved |-> {"runc"}, fallback |-> None, default_reserved |-> FALSE],
     !.priority = [allowed |-> {}, denied |-> {"high"}, default |-> None]]

\* User and groups are overwritten; nothing else is asked for.
OverwriteSettings ==
  [BaseSettings EXCEPT
     !.user_group.run_as_user.overwrite = TRUE,
     !.user_group.run_as_group.overwrite = TRUE,
     !.user_group.supplemental_groups.overwrite = TRUE,
     !.fsgroups = [rule |-> "RunAsAny", ranges |-> << >>],
     !.selinux.rule = "RunAsAny"]

\* The USER directive of the images counts too.
ImageSettings ==
  [BaseSettings EXCEPT !.user_group.validate_image = TRUE,
                       !.user_group.run_as_group = Strategy("MayRunAs", FALSE)]

ValidateOnlySettings == [BaseSettings EXCEPT !.user_group.validate_only = TRUE]

MCConfigs == {BaseSettings, LenientSettings, OverwriteSettings, ImageSettings}
BaseConfigs == {BaseSettings}
BaseAndLenient == {BaseSettings, LenientSettings}
ValidateOnlyConfigs == {ValidateOnlySettings}

--------------------------------------------------------------------------------
\* Pods.  Each context differs from an empty or a compliant one in what some
\* policy looks at.
Full == [EmptySecurityContext EXCEPT
           !.user = 2, !.group = 2, !.nonRoot = "yes", !.ape = "no",
           !.add = {"CHOWN", "KILL"}, !.drop = {"NET"}, !.selinux = S0]
Contexts ==
  {EmptySecurityContext, Full,
   [EmptySecurityContext EXCEPT !.user = 3, !.nonRoot = "no"],
   [EmptySecurityContext EXCEPT !.user = 0, !.ape = "no"],
   [EmptySecurityContext EXCEPT !.group = 3, !.add = {"CHOWN"}, !.drop = {"CHOWN"}],
   [EmptySecurityContext EXCEPT !.ape = "yes"],
   [Full EXCEPT !.selinux = NoLevel, !.drop = {}]}
NotAllowed == [Full EXCEPT !.add = {"NET"}, !.drop = {}]
FewContexts ==
  {EmptySecurityContext, Full, [EmptySecurityContext EXCEPT !.user = 3]}

FullPod == [EmptyPodSecurityContext EXCEPT
              !.user = 2, !.group = 2, !.nonRoot = "yes", !.fsGroup = 2,
              !.supplemental = {2, 3}, !.selinux = S0]
PodContexts ==
  {EmptyPodSecurityContext, FullPod,
   [EmptyPodSecurityContext EXCEPT !.fsGroup = 3, !.user = 1],
   [EmptyPodSecurityContext EXCEPT !.supplemental = {}, !.selinux = OtherLabel],
   [EmptyPodSecurityContext EXCEPT !.supplemental = {1, 2}],
   [FullPod EXCEPT !.fsGroup = None, !.group = 3, !.selinux = NoLevel],
   [FullPod EXCEPT !.selinux = S1]}
FewPodContexts ==
  {EmptyPodSecurityContext, [FullPod EXCEPT !.fsGroup = None],
   [EmptyPodSecurityContext EXCEPT !.user = 1]}

\* Class names and ndots come in a few combinations.
Classes ==
  {[runtime |-> None, priority |-> None, ndots |-> None],
   [runtime |-> "runc", priority |-> "low", ndots |-> 2],
   [runtime |-> "kata", priority |-> "high", ndots |-> 1]}
NoClasses == {[runtime |-> None, priority |-> None, ndots |-> None]}

PodsOf(contexts, podContexts, classes) ==
  {[psc |-> psc, ephemeral |-> {}, runtime |-> cl.runtime,
    priority |-> cl.priority, ndots |-> cl.ndots,
    ctr |-> [c \in Containers |->
      IF c \in TemplateContainers THEN ctr[c] ELSE EmptySecurityContext]] :
     psc \in podContexts, cl \in classes, ctr \in [TemplateContainers -> contexts]}

AllPods == PodsOf(Contexts, PodContexts, NoClasses)
ClassPods == PodsOf(Contexts \union {NotAllowed}, PodContexts, Classes)
FewPods == PodsOf(FewContexts, FewPodContexts, NoClasses)
UpdatedPods == PodsOf({EmptySecurityContext, Full}, {EmptyPodSecurityContext}, NoClasses)

\* Pods and workloads
PodsOnly == [k \in Kind |-> IF k = "Pod" THEN AllPods ELSE {}]
WithClasses == [k \in Kind |-> IF k = "Pod" THEN ClassPods ELSE {}]
Workloads == [k \in Kind |-> IF k = "Pod" THEN {} ELSE FewPods]

--------------------------------------------------------------------------------
\* Webhook orders
PodPolicies ==
  {"allowed-fsgroups", "user-group", "selinux", "allow-privilege-escalation"}
PodOrders == {o \in [1 .. 4 -> PodPolicies] : \A i, j \in 1 .. 4 : o[i] = o[j] => i = j}
AllPolicyOrders ==
  {<<"capabilities", "user-group", "allowed-fsgroups", "selinux",
     "runtime-class", "priority-class", "ndots", "allow-privilege-escalation">>,
   <<"ndots", "priority-class", "runtime-class", "allowed-fsgroups",
     "allow-privilege-escalation", "selinux", "user-group", "capabilities">>}
WorkloadOrders ==
  {<<"allow-privilege-escalation", "user-group", "priority-class">>,
   <<"capabilities", "user-group", "allow-privilege-escalation">>,
   <<"allowed-fsgroups", "user-group">>}
CapabilitiesOrder == {<<"capabilities">>}
UserGroupOrder == {<<"user-group">>}
SelinuxOrder == {<<"selinux">>}

--------------------------------------------------------------------------------
NoAnswers == {[c \in TemplateContainers |-> NoImageConfig]}
Answers ==
  NoAnswers \union
  {[c \in TemplateContainers |-> [user |-> 2, group |-> 1, failed |-> FALSE]],
   [c \in TemplateContainers |-> [user |-> 0, group |-> None, failed |-> FALSE]],
   [c \in TemplateContainers |-> [user |-> 2, group |-> 2, failed |-> TRUE]]}

NoPods == {}
EphemeralSCs == {EmptySecurityContext, [EmptySecurityContext EXCEPT !.selinux = S0]}
================================================================================
