-------------------------- MODULE MutationChain_proofs --------------------------
(***************************************************************************)
(* For every set of pods, settings, webhook orders and answers: the state  *)
(* of the chain is well typed, and a stored object complies with each      *)
(* policy that evaluated it and was not disturbed by a later one.  What a  *)
(* user set stays, an update that changes nothing is admitted, and so is   *)
(* the Pod of a template that was.                                         *)
(***************************************************************************)
EXTENDS MutationChain, PolicyFrames_proofs

\* What the assumptions on Configs say of the deployed settings.
LEMMA DeployedSettings ==
  ASSUME settings \in Configs
  PROVE  /\ settings.capabilities \in CapabilitiesSettings
         /\ valid_capabilities_settings(settings.capabilities)
         /\ settings.user_group \in UserGroupSettings
         /\ valid_user_group_settings(settings.user_group)
         /\ settings.fsgroups \in FsGroupsSettings
         /\ valid_fsgroups_settings(settings.fsgroups)
         /\ settings.selinux \in SelinuxSettings
         /\ settings.escalation \in EscalationSettings
         /\ settings.runtime \in RuntimeSettings
         /\ valid_runtime_settings(settings.runtime)
         /\ settings.priority \in PrioritySettings
         /\ valid_priority_settings(settings.priority)
         /\ settings.ndots \in NdotsSettings
<1>1. settings \in Settings /\ validate_settings(settings)
  BY ConfigsAssumption
<1> QED
  BY <1>1 DEF Settings, validate_settings

LEMMA EvaluateType ==
  ASSUME settings \in Configs, NEW p \in Policy, NEW spec \in PodSpec, NEW images
  PROVE  Evaluate(p, spec, images) \in Response
<1>1. capabilities_validate(settings.capabilities, spec) \in Response
  BY DeployedSettings, CapabilitiesType
<1>2. user_group_validate(settings.user_group, spec, images) \in Response
  BY DeployedSettings, UserGroupType
<1>3. fsgroups_validate(settings.fsgroups, spec) \in Response
  BY DeployedSettings, FsGroupsType
<1>4. selinux_validate(settings.selinux, spec) \in Response
  BY DeployedSettings, SelinuxType
<1>5. escalation_validate(settings.escalation, spec) \in Response
  BY EscalationType
<1>6. /\ runtime_validate(settings.runtime, spec) \in Response
      /\ priority_validate(settings.priority, spec) \in Response
      /\ ndots_validate(settings.ndots, spec) \in Response
  BY DeployedSettings, ClassesType
<1> QED
  BY <1>1, <1>2, <1>3, <1>4, <1>5, <1>6 DEF Evaluate, Policy

\* A policy that does not disturb itself leaves a pod it does not reject
\* compliant with its settings.
LEMMA EvaluateComplies ==
  ASSUME settings \in Configs, NEW p \in Policy, NEW spec \in PodSpec, NEW images,
         Evaluate(p, spec, images).verdict # "reject", ~Disturbs(p, p)
  PROVE  Compliant(p, Evaluate(p, spec, images).spec)
<1>1. CASE p = "capabilities"
  <2>1. \A c, d \in TemplateContainers : c = d
    BY <1>1 DEF Disturbs
  <2>2. Evaluate(p, spec, images) = capabilities_validate(settings.capabilities, spec)
    BY <1>1 DEF Evaluate
  <2>3. CapabilitiesCompliant(settings.capabilities, Evaluate(p, spec, images).spec)
    BY <2>1, <2>2, DeployedSettings, CapabilitiesComplies
  <2> QED BY <1>1, <2>3 DEF Compliant
<1>2. CASE p = "user-group"
  <2>1. Evaluate(p, spec, images) = user_group_validate(settings.user_group, spec, images)
    BY <1>2 DEF Evaluate
  <2>2. UserGroupCompliant(settings.user_group, Evaluate(p, spec, images).spec)
    BY <2>1, DeployedSettings, UserGroupComplies
  <2> QED BY <1>2, <2>2 DEF Compliant
<1>3. CASE p = "allowed-fsgroups"
  <2>1. Evaluate(p, spec, images) = fsgroups_validate(settings.fsgroups, spec)
    BY <1>3 DEF Evaluate
  <2>2. FsGroupsCompliant(settings.fsgroups, Evaluate(p, spec, images).spec)
    BY <2>1, DeployedSettings, FsGroupsComplies
  <2> QED BY <1>3, <2>2 DEF Compliant
<1>4. CASE p = "selinux"
  <2>1. Evaluate(p, spec, images) = selinux_validate(settings.selinux, spec)
    BY <1>4 DEF Evaluate
  <2>2. SelinuxCompliant(settings.selinux, Evaluate(p, spec, images).spec)
    BY <2>1, DeployedSettings, SelinuxComplies
  <2> QED BY <1>4, <2>2 DEF Compliant
<1>5. CASE p = "allow-privilege-escalation"
  <2>1. Evaluate(p, spec, images) = escalation_validate(settings.escalation, spec)
    BY <1>5 DEF Evaluate
  <2>2. EscalationCompliant(settings.escalation, Evaluate(p, spec, images).spec)
    BY <2>1, DeployedSettings, EscalationComplies
  <2> QED BY <1>5, <2>2 DEF Compliant
<1>6. CASE p = "runtime-class"
  <2>1. Evaluate(p, spec, images) = runtime_validate(settings.runtime, spec)
    BY <1>6 DEF Evaluate
  <2>2. RuntimeCompliant(settings.runtime, Evaluate(p, spec, images).spec)
    BY <2>1, DeployedSettings, RuntimeComplies
  <2> QED BY <1>6, <2>2 DEF Compliant
<1>7. CASE p = "priority-class"
  <2>1. Evaluate(p, spec, images) = priority_validate(settings.priority, spec)
    BY <1>7 DEF Evaluate
  <2>2. PriorityCompliant(settings.priority, Evaluate(p, spec, images).spec)
    BY <2>1, DeployedSettings, PriorityComplies
  <2> QED BY <1>7, <2>2 DEF Compliant
<1>8. CASE p = "ndots"
  <2>1. Evaluate(p, spec, images) = ndots_validate(settings.ndots, spec)
    BY <1>8 DEF Evaluate
  <2>2. NdotsCompliant(settings.ndots, Evaluate(p, spec, images).spec)
    BY <2>1, DeployedSettings, NdotsComplies
  <2> QED BY <1>8, <2>2 DEF Compliant
<1> QED
  BY <1>1, <1>2, <1>3, <1>4, <1>5, <1>6, <1>7, <1>8 DEF Policy

\* What q leaves alone when it evaluates a pod, by what q can disturb.
LEMMA EvaluateFrame ==
  ASSUME settings \in Configs, NEW q \in Policy, NEW spec \in PodSpec, NEW images
  PROVE  LET new == Evaluate(q, spec, images).spec IN
         /\ q # "capabilities" => SameCapabilities(spec, new)
         /\ q # "user-group" /\ ~Disturbs(q, "user-group") =>
              SameUsers(spec, new) /\ SameSupplemental(spec, new)
         /\ q # "allowed-fsgroups" => SameFsGroup(spec, new)
         /\ q # "selinux" /\ ~Disturbs(q, "selinux") => SameSelinux(spec, new)
         /\ q # "allow-privilege-escalation"
              /\ ~Disturbs(q, "allow-privilege-escalation") => SameEscalation(spec, new)
         /\ q # "runtime-class" => new.runtime = spec.runtime
         /\ q # "priority-class" => new.priority = spec.priority
         /\ q # "ndots" => new.ndots = spec.ndots
<1> DEFINE new == Evaluate(q, spec, images).spec
<1>1. CASE q = "capabilities"
  <2>1. Evaluate(q, spec, images) = capabilities_validate(settings.capabilities, spec)
    BY <1>1 DEF Evaluate
  <2>2. /\ SameSupplemental(spec, new) /\ SameFsGroup(spec, new) /\ SameClasses(spec, new)
        /\ (\A c, d \in TemplateContainers : c = d) =>
             SameUsers(spec, new) /\ SameSelinux(spec, new) /\ SameEscalation(spec, new)
    BY <2>1, DeployedSettings, CapabilitiesFrame
  <2> QED
    BY <1>1, <2>2 DEF Disturbs, SameClasses
<1>2. CASE q = "user-group"
  <2>1. Evaluate(q, spec, images) = user_group_validate(settings.user_group, spec, images)
    BY <1>2 DEF Evaluate
  <2>2. /\ SameCapabilities(spec, new) /\ SameFsGroup(spec, new)
        /\ SameSelinux(spec, new) /\ SameEscalation(spec, new) /\ SameClasses(spec, new)
    BY <2>1, DeployedSettings, UserGroupFrame
  <2> QED
    BY <1>2, <2>2 DEF SameClasses
<1>3. CASE q = "allowed-fsgroups"
  <2>1. Evaluate(q, spec, images) = fsgroups_validate(settings.fsgroups, spec)
    BY <1>3 DEF Evaluate
  <2>2. /\ SameCapabilities(spec, new) /\ SameUsers(spec, new)
        /\ SameEscalation(spec, new) /\ SameClasses(spec, new)
    BY <2>1, FsGroupsFrame
  <2> QED
    BY <1>3, <2>2 DEF Disturbs, SameClasses
<1>4. CASE q = "selinux"
  <2>1. Evaluate(q, spec, images) = selinux_validate(settings.selinux, spec)
    BY <1>4 DEF Evaluate
  <2>2. /\ SameCapabilities(spec, new) /\ SameUsers(spec, new) /\ SameSupplemental(spec, new)
        /\ SameFsGroup(spec, new) /\ SameEscalation(spec, new) /\ SameClasses(spec, new)
    BY <2>1, SelinuxFrame
  <2> QED
    BY <1>4, <2>2 DEF SameClasses
<1>5. CASE q = "allow-privilege-escalation"
  <2>1. Evaluate(q, spec, images) = escalation_validate(settings.escalation, spec)
    BY <1>5 DEF Evaluate
  <2>2. /\ SameCapabilities(spec, new) /\ SameUsers(spec, new) /\ SameSupplemental(spec, new)
        /\ SameFsGroup(spec, new) /\ SameSelinux(spec, new) /\ SameClasses(spec, new)
    BY <2>1, EscalationFrame
  <2> QED
    BY <1>5, <2>2 DEF SameClasses
<1>6. CASE q \in {"runtime-class", "priority-class", "ndots"}
  <2>1. /\ new.psc = spec.psc /\ new.ctr = spec.ctr /\ new.ephemeral = spec.ephemeral
        /\ q # "runtime-class" => new.runtime = spec.runtime
        /\ q # "priority-class" => new.priority = spec.priority
        /\ q # "ndots" => new.ndots = spec.ndots
    BY <1>6, ClassesFrame DEF Evaluate
  <2> QED
    BY <1>6, <2>1 DEF SameCapabilities, SameUsers, SameSupplemental, SameFsGroup, SameSelinux,
       SameEscalation
<1> QED
  BY <1>1, <1>2, <1>3, <1>4, <1>5, <1>6 DEF Policy

\* A policy does not undo what another one enforced, unless it disturbs it.
LEMMA EvaluatePreserves ==
  ASSUME settings \in Configs, NEW p \in Policy, NEW q \in Policy, p # q,
         NEW spec \in PodSpec, NEW images, ~Disturbs(q, p), Compliant(p, spec)
  PROVE  Compliant(p, Evaluate(q, spec, images).spec)
<1> DEFINE new == Evaluate(q, spec, images).spec
<1>0. new \in PodSpec
  BY EvaluateType DEF Response
<1>1. /\ q # "capabilities" => SameCapabilities(spec, new)
      /\ q # "user-group" /\ ~Disturbs(q, "user-group") =>
           SameUsers(spec, new) /\ SameSupplemental(spec, new)
      /\ q # "allowed-fsgroups" => SameFsGroup(spec, new)
      /\ q # "selinux" /\ ~Disturbs(q, "selinux") => SameSelinux(spec, new)
      /\ q # "allow-privilege-escalation"
           /\ ~Disturbs(q, "allow-privilege-escalation") => SameEscalation(spec, new)
      /\ q # "runtime-class" => new.runtime = spec.runtime
      /\ q # "priority-class" => new.priority = spec.priority
      /\ q # "ndots" => new.ndots = spec.ndots
  BY EvaluateFrame
<1> SUFFICES Compliant(p, new)
  OBVIOUS
<1> HIDE DEF new
<1>2. CASE p = "capabilities"
  BY <1>1, <1>2, ComplianceDependsOn DEF Compliant
<1>3. CASE p = "user-group"
  BY <1>1, <1>3, ComplianceDependsOn DEF Compliant
<1>4. CASE p = "allowed-fsgroups"
  BY <1>1, <1>4, ComplianceDependsOn DEF Compliant
<1>5. CASE p = "selinux"
  BY <1>0, <1>1, <1>5, SelinuxDependsOn DEF Compliant
<1>6. CASE p = "allow-privilege-escalation"
  BY <1>1, <1>6, ComplianceDependsOn DEF Compliant
<1>7. CASE p = "runtime-class"
  BY <1>1, <1>7 DEF Compliant, RuntimeCompliant
<1>8. CASE p = "priority-class"
  BY <1>1, <1>8 DEF Compliant, PriorityCompliant
<1>9. CASE p = "ndots"
  BY <1>1, <1>9 DEF Compliant, NdotsCompliant
<1> QED
  BY <1>2, <1>3, <1>4, <1>5, <1>6, <1>7, <1>8, <1>9 DEF Policy

(***************************************************************************)
(* Type correctness                                                        *)
(***************************************************************************)

LEMMA StoredType ==
  ASSUME TypeOK, NEW k \in Kind, Exists(k)
  PROVE  stored[k].spec \in PodSpec /\ stored[k].ran \subseteq Policy
<1>1. stored[k] \in [spec : PodSpec, ran : SUBSET Policy]
  BY DEF TypeOK, Object, Exists
<1> QED
  BY <1>1

\* A request starts with a pod spec of its submitter and no policy run.
LEMMA SubmitType ==
  ASSUME TypeOK, NEW k \in Kind, NEW op \in Operation, NEW origin \in Origin,
         NEW spec \in PodSpec, NEW vouched \in SUBSET Policy,
         Submit(k, op, origin, spec, vouched)
  PROVE  TypeOK'
<1>1. request' \in Request
  BY DEF Submit, Request
<1> QED
  BY <1>1 DEF Submit, TypeOK, Verdict

LEMMA TypeStep ==
  ASSUME TypeOK, [Next]_vars
  PROVE  TypeOK'
<1>0. \A k \in Kind : Submitted[k] \subseteq PodSpec
  BY SubmittedAssumption DEF Kind
<1>1. ASSUME NEW k \in Kind, NEW spec \in Submitted[k], UserCreate(k, spec)
      PROVE  TypeOK'
  <2>1. spec \in PodSpec /\ Submit(k, "CREATE", "user", spec, {})
    BY <1>0, <1>1 DEF UserCreate
  <2> QED
    BY <2>1, SubmitType DEF Operation, Origin
<1>2. ASSUME NEW spec \in Resubmitted \union {stored[WorkloadKind].spec},
             UserUpdateWorkload(spec)
      PROVE  TypeOK'
  <2>1. WorkloadKind \in Kind
    BY DEF Kind
  <2>2. spec \in PodSpec
    BY <1>2, <2>1, StoredType, SubmittedAssumption DEF UserUpdateWorkload
  <2> QED
    BY <1>2, <2>1, <2>2, SubmitType DEF UserUpdateWorkload, Operation, Origin
<1>3. CASE UserUpdatePod
  <2>1. "Pod" \in Kind /\ stored["Pod"].spec \in PodSpec
    BY <1>3, StoredType DEF UserUpdatePod, Kind
  <2> QED
    BY <1>3, <2>1, SubmitType DEF UserUpdatePod, Operation, Origin
<1>4. CASE ControllerCreatePod
  <2>1. "Pod" \in Kind /\ WorkloadKind \in Kind
    BY DEF Kind
  <2>2. stored[WorkloadKind].spec \in PodSpec /\ stored[WorkloadKind].ran \subseteq Policy
    BY <1>4, <2>1, StoredType DEF ControllerCreatePod
  <2> QED
    BY <1>4, <2>1, <2>2, SubmitType DEF ControllerCreatePod, Operation, Origin
<1>5. ASSUME NEW c \in EphemeralContainers, NEW sc \in EphemeralContexts,
             AttachEphemeral(c, sc)
      PROVE  TypeOK'
  <2> DEFINE old == stored["Pod"]
             spec == WithEphemeral(old.spec, c, sc)
             new == [spec |-> spec, ran |-> old.ran \ {"selinux"}]
  <2>1. "Pod" \in Kind /\ old.spec \in PodSpec /\ old.ran \subseteq Policy
    BY <1>5, StoredType DEF AttachEphemeral, Kind
  <2>3. sc \in SecurityContext /\ c \in Containers
    BY AnswersAssumption DEF Containers
  <2>4. [old.spec.ctr EXCEPT ![c] = sc] \in [Containers -> SecurityContext]
    BY <2>1, <2>3 DEF PodSpec
  <2>5. old.spec.ephemeral \union {c} \in SUBSET EphemeralContainers
    BY <2>1 DEF PodSpec
  <2>6. spec \in PodSpec
    BY <2>1, <2>4, <2>5 DEF PodSpec, WithEphemeral
  <2>7. stored' = [stored EXCEPT !["Pod"] = new]
    BY <1>5 DEF AttachEphemeral
  <2>8. new \in Object
    BY <2>1, <2>6 DEF Object
  <2> HIDE DEF new
  <2>9. stored' \in [Kind -> Object]
    BY <2>7, <2>8 DEF TypeOK
  <2> QED
    BY <1>5, <2>9 DEF AttachEphemeral, TypeOK, Verdict
<1>6. ASSUME NEW k \in Kind, Delete(k)
      PROVE  TypeOK'
  <2>1. stored' \in [Kind -> Object]
    BY <1>6 DEF Delete, TypeOK, Object
  <2> QED
    BY <1>6, <2>1 DEF Delete, TypeOK, Verdict
<1>7. ASSUME NEW images \in RegistryAnswers, CallPolicy(images)
      PROVE  TypeOK'
  <2> DEFINE p == order[request.pos]
             r == Evaluate(p, request.spec, images)
  <2>1. request \in Request
    BY <1>7 DEF CallPolicy, Pending, TypeOK
  <2>2. order \in Seq(Policy)
    BY OrdersAssumption DEF TypeOK
  <2>3. request.pos \in 1 .. Len(order)
    BY <1>7, <2>1, <2>2 DEF CallPolicy, Request
  <2>4. p \in Policy /\ request.spec \in PodSpec
    BY <2>1, <2>2, <2>3 DEF Request
  <2>5. settings \in Configs
    BY DEF TypeOK
  <2>6. r.spec \in PodSpec
    BY <2>4, <2>5, EvaluateType DEF Response
  <2>7. request' \in Request \union {NoRequest}
    <3>1. CASE request' = NoRequest
      BY <3>1
    <3>2. CASE request' = [request EXCEPT !.spec = r.spec, !.pos = @ + 1,
                                         !.ran = @ \union {p}]
      <4>1. /\ request.pos + 1 \in Nat \ {0} /\ request.ran \union {p} \in SUBSET Policy
        BY <2>1, <2>4 DEF Request
      <4> QED
        BY <2>1, <2>6, <3>2, <4>1 DEF Request
    <3> QED
      BY <1>7, <3>1, <3>2 DEF CallPolicy
  <2> QED
    BY <1>7, <2>7 DEF CallPolicy, TypeOK, Verdict
<1>8. CASE SkipPolicy
  <2>1. request \in Request
    BY <1>8 DEF SkipPolicy, Pending, TypeOK
  <2>2. request' \in Request
    BY <1>8, <2>1 DEF SkipPolicy, Request
  <2> QED
    BY <1>8, <2>2 DEF SkipPolicy, TypeOK
<1>9. CASE Persist
  <2>1. request \in Request
    BY <1>9 DEF Persist, Pending, TypeOK
  <2>2. [spec |-> request.spec, ran |-> request.ran] \in Object /\ request.kind \in Kind
    BY <2>1 DEF Request, Object
  <2>3. stored' \in [Kind -> Object] /\ verdict' \in Verdict
    BY <1>9, <2>2 DEF Persist, TypeOK, Verdict
  <2> QED
    BY <1>9, <2>3 DEF Persist, TypeOK
<1>10. CASE UNCHANGED vars
  BY <1>10 DEF vars, TypeOK
<1> QED
  BY <1>1, <1>2, <1>3, <1>4, <1>5, <1>6, <1>7, <1>8, <1>9, <1>10 DEF Next

\* The state of the chain has its type in every reachable state: every answer of
\* a policy is a pod spec the API server can store.
THEOREM TypeCorrect == Spec => []TypeOK
<1>1. Init => TypeOK
  BY DEF Init, TypeOK, Object, Verdict
<1> QED
  BY <1>1, TypeStep, PTL DEF Spec

(***************************************************************************)
(* Compliance                                                              *)
(***************************************************************************)

\* The next policy of the order evaluates an object whose policies are kept:
\* those that its answer keeps comply with the answer.
LEMMA EnforcedByNext ==
  ASSUME settings \in Configs, order \in Seq(Policy),
         NEW pos \in 1 .. Len(order), NEW spec \in PodSpec, NEW images,
         NEW ran, ran \subseteq {order[i] : i \in 1 .. (pos - 1)},
         Enforced([spec |-> spec, ran |-> ran]),
         Evaluate(order[pos], spec, images).verdict # "reject",
         NEW p \in ran \union {order[pos]}, Kept(p, ran \union {order[pos]})
  PROVE  Compliant(p, Evaluate(order[pos], spec, images).spec)
<1> DEFINE q == order[pos]
<1>1. q \in Policy /\ Len(order) \in Nat
  OBVIOUS
<1>2. CASE p = q
  <2>1. ~Disturbs(q, q)
    BY <1>2 DEF Kept
  <2> QED
    BY <1>1, <1>2, <2>1, EvaluateComplies
<1>3. CASE p # q
  <2>1. p \in ran
    BY <1>3
  <2>2. PICK i \in 1 .. (pos - 1) : p = order[i]
    BY <2>1
  <2>3. p \in Policy /\ i \in 1 .. Len(order) /\ i <= pos
    BY <1>1, <2>2
  <2>4. ~Disturbs(q, p)
    BY <2>2, <2>3 DEF Kept
  <2>5. Kept(p, ran)
    BY DEF Kept
  <2>6. Compliant(p, spec)
    BY <2>1, <2>5 DEF Enforced
  <2> QED
    BY <1>1, <1>3, <2>3, <2>4, <2>6, EvaluatePreserves
<1> QED BY <1>2, <1>3

\* An ephemeral container is nothing to the policies but selinux.
LEMMA EphemeralPreserves ==
  ASSUME NEW p \in Policy, p # "selinux", NEW spec \in PodSpec,
         NEW c \in EphemeralContainers, NEW sc, Compliant(p, spec)
  PROVE  Compliant(p, WithEphemeral(spec, c, sc))
<1> DEFINE new == WithEphemeral(spec, c, sc)
<1>1. /\ new.psc = spec.psc /\ new.runtime = spec.runtime
      /\ new.priority = spec.priority /\ new.ndots = spec.ndots
      /\ \A d \in TemplateContainers : new.ctr[d] = spec.ctr[d]
  <2>1. c \notin TemplateContainers
    BY ContainersAssumption DEF TemplateContainers
  <2> QED
    BY <2>1 DEF WithEphemeral, PodSpec, Containers
<1> SUFFICES Compliant(p, new)
  OBVIOUS
<1> HIDE DEF new
<1>2. /\ SameCapabilities(spec, new) /\ SameUsers(spec, new) /\ SameSupplemental(spec, new)
      /\ SameFsGroup(spec, new) /\ SameEscalation(spec, new)
  BY <1>1 DEF SameCapabilities, SameUsers, SameSupplemental, SameFsGroup, SameEscalation
<1>3. CASE p \in {"capabilities", "user-group", "allowed-fsgroups",
                  "allow-privilege-escalation"}
  BY <1>2, <1>3, ComplianceDependsOn DEF Compliant
<1>4. CASE p \in {"runtime-class", "priority-class", "ndots"}
  BY <1>1, <1>4 DEF Compliant, RuntimeCompliant, PriorityCompliant, NdotsCompliant
<1> QED
  BY <1>3, <1>4 DEF Policy

\* An action that leaves the order, the settings and the stored objects alone
\* keeps them compliant.
LEMMA StoredUnchanged ==
  ASSUME UNCHANGED <<order, settings, stored>>, StoredObjectsComply
  PROVE  StoredObjectsComply'
BY DEF StoredObjectsComply, Exists, Enforced, Kept, Compliant

\* Nothing ran yet on a new request.
LEMMA SubmitComplies ==
  ASSUME TypeOK, ChainInv, NEW k, NEW op, NEW origin, NEW spec, NEW vouched,
         Submit(k, op, origin, spec, vouched)
  PROVE  ChainInv'
<1>1. StoredObjectsComply'
  BY StoredUnchanged DEF Submit, ChainInv
<1>2. request'.ran = {} /\ request'.pos = 1
  BY DEF Submit
<1>3. Enforced(request)'
  BY <1>2 DEF Enforced
<1>4. order' \in Seq(Policy)
  BY OrdersAssumption DEF Submit, TypeOK
<1>5. request'.pos <= Len(order') + 1
  BY <1>2, <1>4
<1> QED
  BY <1>1, <1>2, <1>3, <1>5 DEF ChainInv

LEMMA ChainStep ==
  ASSUME TypeOK, ChainInv, [Next]_vars
  PROVE  ChainInv'
<1>0. order \in Seq(Policy) /\ settings \in Configs
  BY OrdersAssumption DEF TypeOK
<1>1. ASSUME NEW k \in Kind, NEW spec \in Submitted[k], UserCreate(k, spec)
      PROVE  ChainInv'
  BY <1>1, SubmitComplies DEF UserCreate
<1>2. ASSUME NEW spec \in Resubmitted \union {stored[WorkloadKind].spec},
             UserUpdateWorkload(spec)
      PROVE  ChainInv'
  BY <1>2, SubmitComplies DEF UserUpdateWorkload
<1>3. CASE UserUpdatePod
  BY <1>3, SubmitComplies DEF UserUpdatePod
<1>4. CASE ControllerCreatePod
  BY <1>4, SubmitComplies DEF ControllerCreatePod
<1>5. ASSUME NEW c \in EphemeralContainers, NEW sc \in EphemeralContexts,
             AttachEphemeral(c, sc)
      PROVE  ChainInv'
  <2> DEFINE old == stored["Pod"]
             new == [spec |-> WithEphemeral(old.spec, c, sc), ran |-> old.ran \ {"selinux"}]
  <2>1. "Pod" \in Kind /\ Exists("Pod") /\ ~Pending /\ UNCHANGED <<order, settings, request>>
    BY <1>5 DEF AttachEphemeral, Kind
  <2>2. old.spec \in PodSpec /\ old.ran \subseteq Policy
    BY <2>1, StoredType
  <2>3. \A k \in Kind : stored'[k] = IF k = "Pod" THEN new ELSE stored[k]
    BY <1>5 DEF AttachEphemeral, TypeOK
  <2>4. ASSUME NEW p \in new.ran, Kept(p, new.ran)
        PROVE  Compliant(p, new.spec)
    <3>1. p \in old.ran /\ p # "selinux" /\ p \in Policy
      BY <2>2
    <3>2. Kept(p, old.ran)
      BY <2>4 DEF Kept, Disturbs
    <3>3. Compliant(p, old.spec)
      BY <2>1, <3>1, <3>2 DEF ChainInv, StoredObjectsComply, Enforced
    <3> QED
      BY <2>2, <3>1, <3>3, EphemeralPreserves
  <2>5. Enforced(new)
    BY <2>4 DEF Enforced
  <2> HIDE DEF new
  <2>6. \A k \in Kind : Exists(k)' => Enforced(stored'[k])
    BY <2>1, <2>3, <2>5 DEF ChainInv, StoredObjectsComply, Exists
  <2>7. StoredObjectsComply'
    BY <2>1, <2>6 DEF StoredObjectsComply, Enforced, Kept, Compliant
  <2> QED
    BY <2>1, <2>7 DEF ChainInv, Pending
<1>6. ASSUME NEW k \in Kind, Delete(k)
      PROVE  ChainInv'
  <2>1. ~Pending /\ UNCHANGED <<order, settings, request>>
    BY <1>6 DEF Delete
  <2>2. \A h \in Kind : stored'[h] = NoObject \/ stored'[h] = stored[h]
    BY <1>6 DEF Delete, TypeOK
  <2>3. \A h \in Kind : Exists(h)' => Enforced(stored'[h])
    BY <2>2 DEF ChainInv, StoredObjectsComply, Exists
  <2>4. StoredObjectsComply'
    BY <2>1, <2>3 DEF StoredObjectsComply, Enforced, Kept, Compliant
  <2> QED
    BY <2>1, <2>4 DEF ChainInv, Pending
<1>7. ASSUME NEW images \in RegistryAnswers, CallPolicy(images)
      PROVE  ChainInv'
  <2> DEFINE q == order[request.pos]
             r == Evaluate(q, request.spec, images)
  <2>1. Pending /\ request \in Request /\ UNCHANGED <<order, settings, stored>>
    BY <1>7 DEF CallPolicy, Pending, TypeOK
  <2>2. StoredObjectsComply'
    BY <2>1, StoredUnchanged DEF ChainInv
  <2>3. CASE request' = NoRequest
    BY <2>2, <2>3 DEF ChainInv, Pending
  <2>4. CASE /\ r.verdict # "reject"
             /\ request' = [request EXCEPT !.spec = r.spec, !.pos = @ + 1,
                                           !.ran = @ \union {q}]
    <3>1. request.pos \in 1 .. Len(order) /\ request.spec \in PodSpec
      BY <1>0, <1>7, <2>1 DEF CallPolicy, Request
    <3>2. /\ request'.ran = request.ran \union {q} /\ request'.spec = r.spec
          /\ request'.pos = request.pos + 1
      BY <2>1, <2>4 DEF Request
    <3>3. request.ran \subseteq {order[i] : i \in 1 .. (request.pos - 1)}
      BY <2>1 DEF ChainInv
    <3>4. request'.ran \subseteq {order'[i] : i \in 1 .. (request'.pos - 1)}
      BY <2>1, <3>1, <3>2, <3>3
    <3>5. request'.pos <= Len(order') + 1
      BY <1>0, <2>1, <3>1, <3>2
    <3>6. Enforced([spec |-> request.spec, ran |-> request.ran])
      BY <2>1 DEF ChainInv, Enforced
    <3>7. ASSUME NEW p \in request'.ran, Kept(p, request'.ran)
          PROVE  Compliant(p, request'.spec)
      <4>1. p \in request.ran \union {q} /\ Kept(p, request.ran \union {q})
        BY <3>2, <3>7
      <4>2. Compliant(p, Evaluate(q, request.spec, images).spec)
        BY <1>0, <2>4, <3>1, <3>3, <3>6, <4>1, EnforcedByNext
      <4> QED
        BY <3>2, <4>2
    <3>8. Enforced(request)'
      BY <2>1, <3>7 DEF Enforced, Kept, Compliant
    <3> QED
      BY <2>2, <3>4, <3>5, <3>8 DEF ChainInv
  <2> QED
    BY <1>7, <2>3, <2>4 DEF CallPolicy
<1>8. CASE SkipPolicy
  <2>1. Pending /\ request \in Request /\ UNCHANGED <<order, settings, stored>>
    BY <1>8 DEF SkipPolicy, Pending, TypeOK
  <2>2. StoredObjectsComply'
    BY <2>1, StoredUnchanged DEF ChainInv
  <2>3. request.pos \in 1 .. Len(order)
    BY <1>0, <1>8, <2>1 DEF SkipPolicy, Request
  <2>4. /\ request'.ran = request.ran /\ request'.spec = request.spec
        /\ request'.pos = request.pos + 1
    BY <1>8, <2>1 DEF SkipPolicy, Request
  <2>5. request.ran \subseteq {order[i] : i \in 1 .. (request.pos - 1)} /\ Enforced(request)
    BY <2>1 DEF ChainInv
  <2>6. request'.ran \subseteq {order'[i] : i \in 1 .. (request'.pos - 1)}
    BY <2>1, <2>3, <2>4, <2>5
  <2>7. request'.pos <= Len(order') + 1
    BY <1>0, <2>1, <2>3, <2>4
  <2>8. Enforced(request)'
    BY <2>1, <2>4, <2>5 DEF Enforced, Kept, Compliant
  <2> QED
    BY <2>2, <2>6, <2>7, <2>8 DEF ChainInv
<1>9. CASE Persist
  <2> DEFINE new == [spec |-> request.spec, ran |-> request.ran]
  <2>1. Pending /\ request' = NoRequest /\ UNCHANGED <<order, settings>>
    BY <1>9 DEF Persist
  <2>2. Enforced(new)
    BY <2>1 DEF ChainInv, Enforced
  <2>3. \A k \in Kind : stored'[k] = new \/ stored'[k] = stored[k]
    BY <1>9 DEF Persist, TypeOK
  <2>4. \A k \in Kind : Exists(k)' => Enforced(stored'[k])
    BY <2>2, <2>3 DEF ChainInv, StoredObjectsComply, Exists
  <2>5. StoredObjectsComply'
    BY <2>1, <2>4 DEF StoredObjectsComply, Enforced, Kept, Compliant
  <2> QED
    BY <2>1, <2>5 DEF ChainInv, Pending
<1>10. CASE UNCHANGED vars
  <2>1. UNCHANGED <<order, settings, stored, request>>
    BY <1>10 DEF vars
  <2>2. StoredObjectsComply'
    BY <2>1, StoredUnchanged DEF ChainInv
  <2> QED
    BY <2>1, <2>2 DEF ChainInv, Pending, Enforced, Kept, Compliant
<1> QED
  BY <1>1, <1>2, <1>3, <1>4, <1>5, <1>6, <1>7, <1>8, <1>9, <1>10 DEF Next

\* Every stored object, and every request half way through its webhooks,
\* complies with each policy that evaluated it and that no later one disturbs,
\* whatever the order of the webhooks, the settings and the pods.
THEOREM ChainCompliance == Spec => []ChainInv
<1>1. Init => ChainInv
  BY DEF Init, ChainInv, StoredObjectsComply, Exists, Pending
<1> QED
  BY <1>1, TypeCorrect, ChainStep, PTL DEF Spec

\* In particular the stored objects.
THEOREM StoredCompliance == Spec => []StoredObjectsComply
<1>1. ChainInv => StoredObjectsComply
  BY DEF ChainInv
<1> QED
  BY <1>1, ChainCompliance, PTL

(***************************************************************************)
(* Explicit fields                                                         *)
(***************************************************************************)

\* A policy that disturbs none and overwrites nothing keeps what is set.
LEMMA EvaluateKeeps ==
  ASSUME settings \in Configs, NEW p \in Policy, NEW spec \in PodSpec, NEW images,
         Evaluate(p, spec, images).verdict # "reject",
         \A q \in Policy : ~Disturbs(p, q),
         ~settings.user_group.run_as_user.overwrite,
         ~settings.user_group.run_as_group.overwrite,
         ~settings.user_group.supplemental_groups.overwrite
  PROVE  SpecKept(spec, Evaluate(p, spec, images).spec)
<1>1. CASE p = "capabilities"
  <2>1. ~Disturbs(p, "capabilities")
    BY DEF Policy
  <2>2. \A c, d \in TemplateContainers : c = d
    BY <1>1, <2>1 DEF Disturbs
  <2> QED
    BY <1>1, <2>2, CapabilitiesKeep DEF Evaluate
<1>2. CASE p = "user-group"
  BY <1>2, DeployedSettings, UserGroupKeeps DEF Evaluate
<1>3. CASE p = "allowed-fsgroups"
  <2>1. Disturbs(p, "selinux") /\ "selinux" \in Policy
    BY <1>3 DEF Disturbs, Policy
  <2> QED BY <2>1
<1>4. CASE p = "selinux"
  BY <1>4, SelinuxKeeps DEF Evaluate
<1>5. CASE p = "allow-privilege-escalation"
  BY <1>5, EscalationKeeps DEF Evaluate
<1>6. CASE p \in {"runtime-class", "priority-class", "ndots"}
  BY <1>6, ClassesKeep DEF Evaluate
<1> QED
  BY <1>1, <1>2, <1>3, <1>4, <1>5, <1>6 DEF Policy

\* The condition of ExplicitFieldsKept: nothing that ran disturbs, and nothing
\* is deployed to overwrite.
Undisturbed(ran) == ~ \E p \in ran, q \in Policy : Disturbs(p, q)
FillsIn ==
  /\ ~settings.user_group.run_as_user.overwrite
  /\ ~settings.user_group.run_as_group.overwrite
  /\ ~settings.user_group.supplemental_groups.overwrite
RequestKept ==
  Pending /\ Undisturbed(request.ran) /\ FillsIn => SpecKept(request.submitted, request.spec)

LEMMA ExplicitFieldsForm ==
  RequestKept <=> ExplicitFieldsKept
BY DEF RequestKept, Undisturbed, FillsIn, ExplicitFieldsKept, SpecKept, PodContextKept,
   ContextKept, FieldKept

\* A new request holds what was submitted.
LEMMA SubmitKeeps ==
  ASSUME NEW k, NEW op, NEW origin, NEW spec, NEW vouched,
         Submit(k, op, origin, spec, vouched)
  PROVE  RequestKept'
<1>1. request'.submitted = request'.spec
  BY DEF Submit
<1> QED
  BY <1>1, SpecKeptReflexive DEF RequestKept

LEMMA ExplicitStep ==
  ASSUME TypeOK, RequestKept, [Next]_vars
  PROVE  RequestKept'
<1>0. order \in Seq(Policy) /\ settings \in Configs
  BY OrdersAssumption DEF TypeOK
<1>1. ASSUME NEW k \in Kind, NEW spec \in Submitted[k], UserCreate(k, spec)
      PROVE  RequestKept'
  BY <1>1, SubmitKeeps DEF UserCreate
<1>2. ASSUME NEW spec \in Resubmitted \union {stored[WorkloadKind].spec},
             UserUpdateWorkload(spec)
      PROVE  RequestKept'
  BY <1>2, SubmitKeeps DEF UserUpdateWorkload
<1>3. CASE UserUpdatePod
  BY <1>3, SubmitKeeps DEF UserUpdatePod
<1>4. CASE ControllerCreatePod
  BY <1>4, SubmitKeeps DEF ControllerCreatePod
<1>5. ASSUME NEW c \in EphemeralContainers, NEW sc \in EphemeralContexts,
             AttachEphemeral(c, sc)
      PROVE  RequestKept'
  BY <1>5 DEF AttachEphemeral, RequestKept, Pending
<1>6. ASSUME NEW k \in Kind, Delete(k)
      PROVE  RequestKept'
  BY <1>6 DEF Delete, RequestKept, Pending
<1>7. ASSUME NEW images \in RegistryAnswers, CallPolicy(images)
      PROVE  RequestKept'
  <2> DEFINE p == order[request.pos]
             r == Evaluate(p, request.spec, images)
  <2>1. Pending /\ request \in Request /\ UNCHANGED settings
    BY <1>7 DEF CallPolicy, Pending, TypeOK
  <2>2. CASE request' = NoRequest
    BY <2>2 DEF RequestKept, Pending
  <2>3. CASE /\ r.verdict # "reject"
             /\ request' = [request EXCEPT !.spec = r.spec, !.pos = @ + 1,
                                           !.ran = @ \union {p}]
    <3>1. request.pos \in 1 .. Len(order) /\ request.spec \in PodSpec
      BY <1>0, <1>7, <2>1 DEF CallPolicy, Request
    <3>2. p \in Policy
      BY <1>0, <3>1
    <3>3. /\ request'.ran = request.ran \union {p} /\ request'.spec = r.spec
          /\ request'.submitted = request.submitted
      BY <2>1, <2>3 DEF Request
    <3>4. ASSUME Undisturbed(request.ran \union {p}), FillsIn
          PROVE  SpecKept(request.submitted, r.spec)
      <4>1. Undisturbed(request.ran) /\ \A q \in Policy : ~Disturbs(p, q)
        BY <3>4 DEF Undisturbed
      <4>2. SpecKept(request.submitted, request.spec)
        BY <2>1, <3>4, <4>1 DEF RequestKept
      <4>3. SpecKept(request.spec, Evaluate(p, request.spec, images).spec)
        BY <1>0, <2>3, <3>1, <3>2, <3>4, <4>1, EvaluateKeeps DEF FillsIn
      <4> QED
        BY <4>2, <4>3, SpecKeptTransitive
    <3>5. FillsIn' <=> FillsIn
      BY <2>1 DEF FillsIn
    <3>6. Undisturbed(request.ran)' <=> Undisturbed(request'.ran)
      BY DEF Undisturbed, Disturbs
    <3> QED
      BY <3>3, <3>4, <3>5, <3>6 DEF RequestKept
  <2> QED
    BY <1>7, <2>2, <2>3 DEF CallPolicy
<1>8. CASE SkipPolicy
  <2>1. Pending /\ request \in Request /\ UNCHANGED settings
    BY <1>8 DEF SkipPolicy, Pending, TypeOK
  <2>2. /\ request'.ran = request.ran /\ request'.spec = request.spec
        /\ request'.submitted = request.submitted
    BY <1>8, <2>1 DEF SkipPolicy, Request
  <2> QED
    BY <2>1, <2>2 DEF RequestKept, Undisturbed, Disturbs, FillsIn
<1>9. CASE Persist
  BY <1>9 DEF Persist, RequestKept, Pending
<1>10. CASE UNCHANGED vars
  BY <1>10 DEF vars, RequestKept, Pending, Undisturbed, Disturbs, FillsIn
<1> QED
  BY <1>1, <1>2, <1>3, <1>4, <1>5, <1>6, <1>7, <1>8, <1>9, <1>10 DEF Next

\* What a user sets explicitly in a pod survives every mutation, in any order of
\* the webhooks, as long as no policy ran that empties a security context and
\* none is deployed to overwrite.
THEOREM ExplicitKept == Spec => []ExplicitFieldsKept
<1>1. Init => RequestKept
  BY DEF Init, RequestKept, Pending
<1>2. Spec => []RequestKept
  BY <1>1, TypeCorrect, ExplicitStep, PTL DEF Spec
<1> QED
  BY <1>2, ExplicitFieldsForm, PTL

(***************************************************************************)
(* Updates that change nothing                                             *)
(***************************************************************************)

\* p admits the pod again, and as it is.
Settled(p, spec) ==
  CASE p = "user-group"    -> UserGroupSettled(settings.user_group, spec)
    [] p = "runtime-class" -> RuntimeSettled(settings.runtime, spec)
    [] OTHER               -> Compliant(p, spec)

LEMMA SettledStays ==
  ASSUME settings \in Configs, ~RegistryMatters, NEW p \in Policy, NEW spec \in PodSpec,
         NEW images, Settled(p, spec)
  PROVE  /\ Evaluate(p, spec, images).verdict # "reject"
         /\ Evaluate(p, spec, images).spec = spec
<1>0. accept_request(spec).verdict # "reject" /\ accept_request(spec).spec = spec
  BY DEF accept_request
<1>1. CASE p = "user-group"
  <2>1. Evaluate(p, spec, images) = user_group_validate(settings.user_group, spec, images)
    BY <1>1 DEF Evaluate
  <2>2. UserGroupSettled(settings.user_group, spec) /\ ~settings.user_group.validate_image
    BY <1>1 DEF Settled, RegistryMatters
  <2> QED
    BY <2>1, <2>2, DeployedSettings, UserGroupStays
<1>2. CASE p = "runtime-class"
  <2>1. Evaluate(p, spec, images) = runtime_validate(settings.runtime, spec)
    BY <1>2 DEF Evaluate
  <2>2. RuntimeSettled(settings.runtime, spec)
    BY <1>2 DEF Settled
  <2> QED
    BY <2>1, <2>2, DeployedSettings, RuntimeStays
<1>3. CASE p = "selinux"
  <2>1. Evaluate(p, spec, images) = selinux_validate(settings.selinux, spec)
    BY <1>3 DEF Evaluate
  <2>2. SelinuxCompliant(settings.selinux, spec)
    BY <1>3 DEF Settled, Compliant
  <2> QED
    BY <2>1, <2>2, DeployedSettings, SelinuxStays
<1>4. CASE p = "allow-privilege-escalation"
  <2>1. Evaluate(p, spec, images) = escalation_validate(settings.escalation, spec)
    BY <1>4 DEF Evaluate
  <2>2. EscalationCompliant(settings.escalation, spec)
    BY <1>4 DEF Settled, Compliant
  <2>3. Evaluate(p, spec, images) = accept_request(spec)
    BY <2>1, <2>2, DeployedSettings, EscalationStays
  <2> QED
    BY <1>0, <2>3
<1>5. CASE p \in {"capabilities", "allowed-fsgroups", "priority-class", "ndots"}
  <2>1. Compliant(p, spec)
    BY <1>5 DEF Settled
  <2>2. Evaluate(p, spec, images) = accept_request(spec)
    BY <1>5, <2>1, DeployedSettings, CompliantStays DEF Compliant, Evaluate
  <2> QED
    BY <1>0, <2>2
<1> QED
  BY <1>1, <1>2, <1>3, <1>4, <1>5 DEF Policy

\* A policy that does not disturb itself settles the pods it does not reject.
LEMMA EvaluateSettles ==
  ASSUME settings \in Configs, ~RegistryMatters, NEW p \in Policy, NEW spec \in PodSpec,
         NEW images, Evaluate(p, spec, images).verdict # "reject", ~Disturbs(p, p)
  PROVE  Settled(p, Evaluate(p, spec, images).spec)
<1>1. CASE p = "user-group"
  <2>1. Evaluate(p, spec, images) = user_group_validate(settings.user_group, spec, images)
    BY <1>1 DEF Evaluate
  <2>2. UserGroupSettled(settings.user_group, Evaluate(p, spec, images).spec)
    BY <2>1, DeployedSettings, UserGroupSettles DEF RegistryMatters
  <2> QED
    BY <1>1, <2>2 DEF Settled
<1>2. CASE p = "runtime-class"
  <2>1. Evaluate(p, spec, images) = runtime_validate(settings.runtime, spec)
    BY <1>2 DEF Evaluate
  <2>2. RuntimeSettled(settings.runtime, Evaluate(p, spec, images).spec)
    BY <2>1, DeployedSettings, RuntimeSettles
  <2> QED
    BY <1>2, <2>2 DEF Settled
<1>3. CASE p \notin {"user-group", "runtime-class"}
  BY <1>3, EvaluateComplies DEF Settled
<1> QED
  BY <1>1, <1>2, <1>3

\* The users and groups of the pod's own context, by what q can disturb.
LEMMA EvaluatePodUsers ==
  ASSUME NEW q \in Policy, q # "user-group", q # "allowed-fsgroups",
         NEW spec \in PodSpec, NEW images
  PROVE  SamePodUsers(spec, Evaluate(q, spec, images).spec)
BY PodUsersFrame DEF Evaluate, Policy

\* ... and another policy leaves them settled, unless it disturbs.
LEMMA SettledPreserved ==
  ASSUME settings \in Configs, NEW p \in Policy, NEW q \in Policy, p # q,
         NEW spec \in PodSpec, NEW images, ~Disturbs(q, p), Settled(p, spec)
  PROVE  Settled(p, Evaluate(q, spec, images).spec)
<1>1. PICK new \in PodSpec : new = Evaluate(q, spec, images).spec
  BY EvaluateType DEF Response
<1>2. CASE p = "user-group"
  <2>1. q # "allowed-fsgroups"
    BY <1>2 DEF Disturbs
  <2>2. SameUsers(spec, new) /\ SameSupplemental(spec, new)
    BY <1>1, <1>2, EvaluateFrame
  <2>3. SamePodUsers(spec, new)
    BY <1>1, <1>2, <2>1, EvaluatePodUsers
  <2>4. UserGroupSettled(settings.user_group, new)
    BY <1>2, <2>2, <2>3, UserGroupSettledDependsOn DEF Settled
  <2> QED
    BY <1>1, <1>2, <2>4 DEF Settled
<1>3. CASE p = "runtime-class"
  <2>1. new.runtime = spec.runtime
    BY <1>1, <1>3, EvaluateFrame
  <2> QED
    BY <1>1, <1>3, <2>1 DEF Settled, RuntimeSettled
<1>4. CASE p \notin {"user-group", "runtime-class"}
  BY <1>4, EvaluatePreserves DEF Settled
<1> QED
  BY <1>2, <1>3, <1>4

LEMMA SettledByEphemeral ==
  ASSUME NEW p \in Policy, p # "selinux", NEW spec \in PodSpec,
         NEW c \in EphemeralContainers, NEW sc, Settled(p, spec)
  PROVE  Settled(p, WithEphemeral(spec, c, sc))
<1>1. PICK new : new = WithEphemeral(spec, c, sc)
  OBVIOUS
<1>2. /\ new.psc = spec.psc /\ new.runtime = spec.runtime
      /\ \A d \in TemplateContainers : new.ctr[d] = spec.ctr[d]
  <2>1. c \notin TemplateContainers
    BY ContainersAssumption DEF TemplateContainers
  <2> QED
    BY <1>1, <2>1 DEF WithEphemeral, PodSpec, Containers
<1>3. CASE p = "user-group"
  <2>1. SameUsers(spec, new) /\ SameSupplemental(spec, new) /\ SamePodUsers(spec, new)
    BY <1>2 DEF SameUsers, SameSupplemental, SamePodUsers
  <2> QED
    BY <1>1, <1>3, <2>1, UserGroupSettledDependsOn DEF Settled
<1>4. CASE p = "runtime-class"
  BY <1>1, <1>2, <1>4 DEF Settled, RuntimeSettled
<1>5. CASE p \notin {"user-group", "runtime-class"}
  BY <1>5, EphemeralPreserves DEF Settled
<1> QED
  BY <1>3, <1>4, <1>5

\* The invariant of the chain, with settled for compliant.
SettledWhereKept(o) == \A p \in o.ran : Kept(p, o.ran) => Settled(p, o.spec)
StoredSettled == \A k \in Kind : Exists(k) => SettledWhereKept(stored[k])
SettledInv ==
  ~RegistryMatters => StoredSettled /\ (Pending => SettledWhereKept(request))

\* A request that repeats a settled object still holds what was submitted.
NoOpKept == Pending /\ ~RegistryMatters /\ IsSettledNoOp => request.spec = request.submitted

LEMMA SettledByNext ==
  ASSUME settings \in Configs, ~RegistryMatters, order \in Seq(Policy),
         NEW pos \in 1 .. Len(order), NEW spec \in PodSpec, NEW images,
         NEW ran, ran \subseteq {order[i] : i \in 1 .. (pos - 1)},
         SettledWhereKept([spec |-> spec, ran |-> ran]),
         Evaluate(order[pos], spec, images).verdict # "reject",
         NEW p \in ran \union {order[pos]}, Kept(p, ran \union {order[pos]})
  PROVE  Settled(p, Evaluate(order[pos], spec, images).spec)
<1> DEFINE q == order[pos]
<1>1. q \in Policy /\ Len(order) \in Nat
  OBVIOUS
<1>2. CASE p = q
  <2>1. ~Disturbs(q, q)
    BY <1>2 DEF Kept
  <2> QED
    BY <1>1, <1>2, <2>1, EvaluateSettles
<1>3. CASE p # q
  <2>1. p \in ran
    BY <1>3
  <2>2. PICK i \in 1 .. (pos - 1) : p = order[i]
    BY <2>1
  <2>3. p \in Policy /\ i \in 1 .. Len(order) /\ i <= pos
    BY <1>1, <2>2
  <2>4. ~Disturbs(q, p)
    BY <2>2, <2>3 DEF Kept
  <2>5. Kept(p, ran)
    BY DEF Kept
  <2>6. Settled(p, spec)
    BY <2>1, <2>5 DEF SettledWhereKept
  <2> QED
    BY <1>1, <1>3, <2>3, <2>4, <2>6, SettledPreserved
<1> QED BY <1>2, <1>3

LEMMA StoredSettledUnchanged ==
  ASSUME UNCHANGED <<order, settings, stored>>, StoredSettled
  PROVE  StoredSettled'
BY DEF StoredSettled, Exists, SettledWhereKept, Kept, Settled, Compliant

LEMMA SubmitSettles ==
  ASSUME SettledInv, NEW k, NEW op, NEW origin, NEW spec, NEW vouched,
         Submit(k, op, origin, spec, vouched)
  PROVE  SettledInv' /\ NoOpKept'
<1>1. UNCHANGED <<order, settings, stored>>
  BY DEF Submit
<1>2. request'.ran = {} /\ request'.submitted = request'.spec
  BY DEF Submit
<1>3. ~RegistryMatters' => StoredSettled'
  BY <1>1, StoredSettledUnchanged DEF SettledInv, RegistryMatters
<1>4. SettledWhereKept(request)'
  BY <1>2 DEF SettledWhereKept
<1> QED
  BY <1>2, <1>3, <1>4 DEF SettledInv, NoOpKept

LEMMA SettledStep ==
  ASSUME TypeOK, ChainInv, SettledInv, [Next]_vars
  PROVE  SettledInv'
<1>0. order \in Seq(Policy) /\ settings \in Configs
  BY OrdersAssumption DEF TypeOK
<1>a. UNCHANGED settings
  BY DEF Next, vars, UserCreate, UserUpdateWorkload, UserUpdatePod, ControllerCreatePod,
     AttachEphemeral, Delete, CallPolicy, SkipPolicy, Persist, Submit
<1> SUFFICES ASSUME ~RegistryMatters
             PROVE  SettledInv'
  BY <1>a DEF SettledInv, RegistryMatters
<1>b. StoredSettled /\ (Pending => SettledWhereKept(request))
  BY DEF SettledInv
<1>1. ASSUME NEW k \in Kind, NEW spec \in Submitted[k], UserCreate(k, spec)
      PROVE  SettledInv'
  BY <1>1, SubmitSettles DEF UserCreate
<1>2. ASSUME NEW spec \in Resubmitted \union {stored[WorkloadKind].spec},
             UserUpdateWorkload(spec)
      PROVE  SettledInv'
  BY <1>2, SubmitSettles DEF UserUpdateWorkload
<1>3. CASE UserUpdatePod
  BY <1>3, SubmitSettles DEF UserUpdatePod
<1>4. CASE ControllerCreatePod
  BY <1>4, SubmitSettles DEF ControllerCreatePod
<1>5. ASSUME NEW c \in EphemeralContainers, NEW sc \in EphemeralContexts,
             AttachEphemeral(c, sc)
      PROVE  SettledInv'
  <2> DEFINE old == stored["Pod"]
             new == [spec |-> WithEphemeral(old.spec, c, sc), ran |-> old.ran \ {"selinux"}]
  <2>1. "Pod" \in Kind /\ Exists("Pod") /\ ~Pending /\ UNCHANGED <<order, settings, request>>
    BY <1>5 DEF AttachEphemeral, Kind
  <2>2. old.spec \in PodSpec /\ old.ran \subseteq Policy
    BY <2>1, StoredType
  <2>3. \A k \in Kind : stored'[k] = IF k = "Pod" THEN new ELSE stored[k]
    BY <1>5 DEF AttachEphemeral, TypeOK
  <2>4. ASSUME NEW p \in new.ran, Kept(p, new.ran)
        PROVE  Settled(p, new.spec)
    <3>1. p \in old.ran /\ p # "selinux" /\ p \in Policy
      BY <2>2
    <3>2. Kept(p, old.ran)
      BY <2>4 DEF Kept, Disturbs
    <3>3. Settled(p, old.spec)
      BY <1>b, <2>1, <3>1, <3>2 DEF StoredSettled, SettledWhereKept
    <3> QED
      BY <2>2, <3>1, <3>3, SettledByEphemeral
  <2>5. SettledWhereKept(new)
    BY <2>4 DEF SettledWhereKept
  <2> HIDE DEF new
  <2>6. \A k \in Kind : Exists(k)' => SettledWhereKept(stored'[k])
    BY <1>b, <2>1, <2>3, <2>5 DEF StoredSettled, Exists
  <2>7. StoredSettled'
    BY <2>1, <2>6 DEF StoredSettled, SettledWhereKept, Kept, Settled, Compliant
  <2> QED
    BY <2>1, <2>7 DEF SettledInv, Pending
<1>6. ASSUME NEW k \in Kind, Delete(k)
      PROVE  SettledInv'
  <2>1. ~Pending /\ UNCHANGED <<order, settings, request>>
    BY <1>6 DEF Delete
  <2>2. \A h \in Kind : stored'[h] = NoObject \/ stored'[h] = stored[h]
    BY <1>6 DEF Delete, TypeOK
  <2>3. \A h \in Kind : Exists(h)' => SettledWhereKept(stored'[h])
    BY <1>b, <2>2 DEF StoredSettled, Exists
  <2>4. StoredSettled'
    BY <2>1, <2>3 DEF StoredSettled, SettledWhereKept, Kept, Settled, Compliant
  <2> QED
    BY <2>1, <2>4 DEF SettledInv, Pending
<1>7. ASSUME NEW images \in RegistryAnswers, CallPolicy(images)
      PROVE  SettledInv'
  <2> DEFINE q == order[request.pos]
             r == Evaluate(q, request.spec, images)
  <2>1. Pending /\ request \in Request /\ UNCHANGED <<order, settings, stored>>
    BY <1>7 DEF CallPolicy, Pending, TypeOK
  <2>2. StoredSettled'
    BY <1>b, <2>1, StoredSettledUnchanged
  <2>3. CASE request' = NoRequest
    BY <2>2, <2>3 DEF SettledInv, Pending
  <2>4. CASE /\ r.verdict # "reject"
             /\ request' = [request EXCEPT !.spec = r.spec, !.pos = @ + 1,
                                           !.ran = @ \union {q}]
    <3>1. request.pos \in 1 .. Len(order) /\ request.spec \in PodSpec
      BY <1>0, <1>7, <2>1 DEF CallPolicy, Request
    <3>2. /\ request'.ran = request.ran \union {q} /\ request'.spec = r.spec
      BY <2>1, <2>4 DEF Request
    <3>3. request.ran \subseteq {order[i] : i \in 1 .. (request.pos - 1)}
      BY <2>1 DEF ChainInv
    <3>4. SettledWhereKept([spec |-> request.spec, ran |-> request.ran])
      BY <1>b, <2>1 DEF SettledWhereKept
    <3>5. ASSUME NEW p \in request'.ran, Kept(p, request'.ran)
          PROVE  Settled(p, request'.spec)
      <4>1. p \in request.ran \union {q} /\ Kept(p, request.ran \union {q})
        BY <3>2, <3>5
      <4>2. Settled(p, Evaluate(q, request.spec, images).spec)
        BY <1>0, <2>4, <3>1, <3>3, <3>4, <4>1, SettledByNext
      <4> QED
        BY <3>2, <4>2
    <3>6. SettledWhereKept(request)'
      BY <2>1, <3>5 DEF SettledWhereKept, Kept, Settled, Compliant
    <3> QED
      BY <2>2, <3>6 DEF SettledInv
  <2> QED
    BY <1>7, <2>3, <2>4 DEF CallPolicy
<1>8. CASE SkipPolicy
  <2>1. Pending /\ request \in Request /\ UNCHANGED <<order, settings, stored>>
    BY <1>8 DEF SkipPolicy, Pending, TypeOK
  <2>2. request'.ran = request.ran /\ request'.spec = request.spec
    BY <1>8, <2>1 DEF SkipPolicy, Request
  <2>3. SettledWhereKept(request)'
    BY <1>b, <2>1, <2>2 DEF SettledWhereKept, Kept, Settled, Compliant
  <2> QED
    BY <1>b, <2>1, <2>3, StoredSettledUnchanged DEF SettledInv
<1>9. CASE Persist
  <2> DEFINE new == [spec |-> request.spec, ran |-> request.ran]
  <2>1. Pending /\ request' = NoRequest /\ UNCHANGED <<order, settings>>
    BY <1>9 DEF Persist
  <2>2. SettledWhereKept(new)
    BY <1>b, <2>1 DEF SettledWhereKept
  <2>3. \A k \in Kind : stored'[k] = new \/ stored'[k] = stored[k]
    BY <1>9 DEF Persist, TypeOK
  <2>4. \A k \in Kind : Exists(k)' => SettledWhereKept(stored'[k])
    BY <1>b, <2>2, <2>3 DEF StoredSettled, Exists
  <2>5. StoredSettled'
    BY <2>1, <2>4 DEF StoredSettled, SettledWhereKept, Kept, Settled, Compliant
  <2> QED
    BY <2>1, <2>5 DEF SettledInv, Pending
<1>10. CASE UNCHANGED vars
  <2>1. UNCHANGED <<order, settings, stored, request>>
    BY <1>10 DEF vars
  <2> QED
    BY <1>b, <2>1, StoredSettledUnchanged DEF SettledInv, Pending, SettledWhereKept, Kept,
       Settled, Compliant
<1> QED
  BY <1>1, <1>2, <1>3, <1>4, <1>5, <1>6, <1>7, <1>8, <1>9, <1>10 DEF Next

\* The policy that is called next admits a settled request as it is.
LEMMA NoOpCall ==
  ASSUME TypeOK, SettledInv, NoOpKept, ~RegistryMatters, IsSettledNoOp,
         NEW images, CallPolicy(images)
  PROVE  LET r == Evaluate(order[request.pos], request.spec, images) IN
         r.verdict # "reject" /\ r.spec = request.spec
<1> DEFINE p == order[request.pos]
           o == stored[request.kind]
<1>1. order \in Seq(Policy) /\ settings \in Configs
  BY OrdersAssumption DEF TypeOK
<1>2. Pending /\ request \in Request
  BY DEF CallPolicy, Pending, TypeOK
<1>3. request.pos \in 1 .. Len(order) /\ request.kind \in Kind /\ request.spec \in PodSpec
  BY <1>1, <1>2 DEF CallPolicy, Request
<1>4. p \in o.ran /\ Kept(p, o.ran)
  BY <1>3 DEF IsSettledNoOp, CallPolicy
<1>5. Exists(request.kind)
  BY <1>4 DEF Exists, NoObject
<1>6. Settled(p, o.spec)
  BY <1>3, <1>4, <1>5 DEF SettledInv, StoredSettled, SettledWhereKept
<1>7. request.spec = o.spec
  BY <1>2 DEF NoOpKept, IsSettledNoOp
<1>8. p \in Policy
  BY <1>1, <1>3
<1> QED
  BY <1>1, <1>3, <1>6, <1>7, <1>8, SettledStays

LEMMA NoOpStep ==
  ASSUME TypeOK, SettledInv, NoOpKept, [Next]_vars
  PROVE  NoOpKept'
<1>1. ASSUME NEW k, NEW op, NEW origin, NEW spec, NEW vouched,
             Submit(k, op, origin, spec, vouched)
      PROVE  NoOpKept'
  BY <1>1, SubmitSettles
<1>2. CASE UNCHANGED <<order, settings, stored, request>>
  BY <1>2 DEF NoOpKept, Pending, RegistryMatters, IsSettledNoOp, Kept
<1>3. ASSUME request' = NoRequest
      PROVE  NoOpKept'
  BY <1>3 DEF NoOpKept, Pending
<1>4. ASSUME UNCHANGED request, ~Pending
      PROVE  NoOpKept'
  BY <1>4 DEF NoOpKept, Pending
<1>5. ASSUME Pending, UNCHANGED <<order, settings, stored>>,
             request'.submitted = request.submitted, request'.kind = request.kind,
             request'.op = request.op,
             ~RegistryMatters /\ IsSettledNoOp => request'.spec = request.spec
      PROVE  NoOpKept'
  <2>1. (RegistryMatters' <=> RegistryMatters) /\ (IsSettledNoOp' <=> IsSettledNoOp)
    BY <1>5 DEF RegistryMatters, IsSettledNoOp, Kept
  <2> QED
    BY <1>5, <2>1 DEF NoOpKept
<1>6. ASSUME NEW images \in RegistryAnswers, CallPolicy(images)
      PROVE  NoOpKept'
  <2> DEFINE q == order[request.pos]
             r == Evaluate(q, request.spec, images)
  <2>1. Pending /\ request \in Request /\ UNCHANGED <<order, settings, stored>>
    BY <1>6 DEF CallPolicy, Pending, TypeOK
  <2>2. CASE request' = [request EXCEPT !.spec = r.spec, !.pos = @ + 1,
                                        !.ran = @ \union {q}]
    <3>1. /\ request'.submitted = request.submitted /\ request'.kind = request.kind
          /\ request'.op = request.op /\ request'.spec = r.spec
      BY <2>1, <2>2 DEF Request
    <3>2. ~RegistryMatters /\ IsSettledNoOp => r.spec = request.spec
      BY <1>6, NoOpCall
    <3> HIDE DEF r
    <3> QED
      BY <1>5, <2>1, <3>1, <3>2
  <2> QED
    BY <1>3, <1>6, <2>2 DEF CallPolicy
<1>7. CASE SkipPolicy
  <2>1. Pending /\ request \in Request /\ UNCHANGED <<order, settings, stored>>
    BY <1>7 DEF SkipPolicy, Pending, TypeOK
  <2>2. /\ request'.submitted = request.submitted /\ request'.kind = request.kind
        /\ request'.op = request.op /\ request'.spec = request.spec
    BY <1>7, <2>1 DEF SkipPolicy, Request
  <2> QED
    BY <1>5, <2>1, <2>2
<1>8. CASE Persist
  BY <1>3, <1>8 DEF Persist
<1>9. ASSUME NEW c, NEW sc, AttachEphemeral(c, sc)
      PROVE  NoOpKept'
  BY <1>4, <1>9 DEF AttachEphemeral
<1>10. ASSUME NEW k, Delete(k)
       PROVE  NoOpKept'
  BY <1>4, <1>10 DEF Delete
<1>11. CASE UNCHANGED vars
  BY <1>2, <1>11 DEF vars
<1> QED
  BY <1>1, <1>6, <1>7, <1>8, <1>9, <1>10, <1>11 DEF Next, UserCreate, UserUpdateWorkload,
     UserUpdatePod, ControllerCreatePod

\* SettledInv and NoOpKept hold in every reachable state.
LEMMA SettledAlways == Spec => [](TypeOK /\ ChainInv /\ SettledInv /\ NoOpKept)
<1>1. Init => SettledInv /\ NoOpKept
  BY DEF Init, SettledInv, StoredSettled, Exists, NoOpKept, Pending
<1>2. TypeOK /\ ChainInv /\ SettledInv /\ NoOpKept /\ [Next]_vars
        => SettledInv' /\ NoOpKept'
  BY SettledStep, NoOpStep
<1> QED
  BY <1>1, <1>2, TypeCorrect, ChainCompliance, PTL DEF Spec

\* The answer to an update that changes nothing: stored, and as it was.
NoOpAnswer ==
  Pending /\ ~RegistryMatters /\ IsSettledNoOp /\ request' = NoRequest
    => /\ verdict' = "stored"
       /\ stored'[request.kind].spec = stored[request.kind].spec

LEMMA NoOpAnswered ==
  ASSUME TypeOK, SettledInv, NoOpKept, [Next]_vars
  PROVE  NoOpAnswer
<1> SUFFICES ASSUME Pending, ~RegistryMatters, IsSettledNoOp, request' = NoRequest
             PROVE  /\ verdict' = "stored"
                    /\ stored'[request.kind].spec = stored[request.kind].spec
  BY DEF NoOpAnswer
<1>1. request \in Request
  BY DEF Pending, TypeOK
<1>2. CASE \E images \in RegistryAnswers : CallPolicy(images)
  <2>1. PICK images \in RegistryAnswers : CallPolicy(images)
    BY <1>2
  <2> DEFINE r == Evaluate(order[request.pos], request.spec, images)
  <2>2. r.verdict # "reject"
    BY <2>1, NoOpCall
  <2>3. request' = [request EXCEPT !.spec = r.spec, !.pos = @ + 1,
                                   !.ran = @ \union {order[request.pos]}]
    BY <2>1, <2>2 DEF CallPolicy
  <2>4. request'.pos = request.pos + 1 /\ request.pos \in Nat \ {0}
    BY <1>1, <2>3 DEF Request
  <2> QED
    BY <2>4 DEF NoRequest
<1>3. CASE SkipPolicy
  <2>1. request'.pos = request.pos + 1 /\ request.pos \in Nat \ {0}
    BY <1>1, <1>3 DEF SkipPolicy, Request
  <2> QED
    BY <2>1 DEF NoRequest
<1>4. CASE Persist
  <2>1. request.spec = stored[request.kind].spec /\ request.kind \in Kind
    BY <1>1 DEF NoOpKept, IsSettledNoOp, Request
  <2>2. ~Immutable
    BY <2>1 DEF Immutable
  <2>3. /\ verdict' = "stored"
        /\ stored' = [stored EXCEPT ![request.kind] =
                        [spec |-> request.spec, ran |-> request.ran]]
    BY <1>4, <2>2 DEF Persist
  <2> QED
    BY <2>1, <2>3 DEF TypeOK
<1>5. CASE UNCHANGED vars
  BY <1>5 DEF vars, Pending
<1> QED
  BY <1>2, <1>3, <1>4, <1>5 DEF Next, UserCreate, UserUpdateWorkload, UserUpdatePod,
     ControllerCreatePod, Submit, AttachEphemeral, Delete

\* Updates that leave an admitted object as it is are stored and do not change
\* it: the mutations are idempotent, alone and together.
THEOREM NoOpsAreStored == Spec => NoOpUpdatesAreStored
<1>1. TypeOK /\ SettledInv /\ NoOpKept /\ [Next]_vars => [NoOpAnswer]_vars
  BY NoOpAnswered
<1>2. Spec => [][NoOpAnswer]_vars
  BY <1>1, SettledAlways, PTL DEF Spec
<1> QED
  BY <1>2 DEF NoOpUpdatesAreStored, NoOpAnswer

(***************************************************************************)
(* Pods created from an admitted template                                  *)
(***************************************************************************)

\* p does not reject the pod, whatever the others may still do to it.
Admits(p, spec) ==
  CASE p = "capabilities"     -> validate_added_caps(settings.capabilities, spec)
    [] p = "user-group"       -> UserGroupAdmits(settings.user_group, spec)
    [] p = "allowed-fsgroups" -> FsGroupsAdmits(settings.fsgroups, spec)
    [] p = "selinux"          -> SelinuxAdmits(settings.selinux, spec)
    [] p = "allow-privilege-escalation" -> EscalationAdmits(spec)
    [] p = "runtime-class"    -> RuntimeAdmits(settings.runtime, spec)
    [] p = "priority-class"   -> PriorityAdmits(settings.priority, spec)
    [] p = "ndots"            -> TRUE

LEMMA AdmittedByPolicy ==
  ASSUME settings \in Configs, ~RegistryMatters, NEW p \in Policy, NEW spec \in PodSpec,
         NEW images, Admits(p, spec)
  PROVE  Evaluate(p, spec, images).verdict # "reject"
<1>1. CASE p = "user-group"
  <2>1. Evaluate(p, spec, images) = user_group_validate(settings.user_group, spec, images)
    BY <1>1 DEF Evaluate
  <2>2. UserGroupAdmits(settings.user_group, spec) /\ ~settings.user_group.validate_image
    BY <1>1 DEF Admits, RegistryMatters
  <2> QED
    BY <2>1, <2>2, AdmitsIsAdmitted
<1>2. CASE p = "selinux"
  <2>1. Evaluate(p, spec, images) = selinux_validate(settings.selinux, spec)
    BY <1>2 DEF Evaluate
  <2>2. SelinuxAdmits(settings.selinux, spec)
    BY <1>2 DEF Admits
  <2> QED
    BY <2>1, <2>2, DeployedSettings, AdmitsIsAdmitted
<1>3. CASE p \in {"capabilities", "allowed-fsgroups"}
  BY <1>3, AdmitsIsAdmitted DEF Admits, Evaluate
<1>4. CASE p \in {"allow-privilege-escalation", "runtime-class", "priority-class", "ndots"}
  BY <1>4, AdmitsIsAdmitted DEF Admits, Evaluate
<1> QED
  BY <1>1, <1>2, <1>3, <1>4 DEF Policy

\* A policy admits what it settled ...
LEMMA SettledIsAdmitted ==
  ASSUME settings \in Configs, NEW p \in Policy, NEW spec \in PodSpec, Settled(p, spec)
  PROVE  Admits(p, spec)
<1>1. CASE p \in {"user-group", "runtime-class"}
  BY <1>1, SettledAdmits DEF Settled, Admits
<1>2. CASE p \in {"capabilities", "allowed-fsgroups", "selinux",
                  "allow-privilege-escalation", "priority-class", "ndots"}
  <2>1. Compliant(p, spec)
    BY <1>2 DEF Settled
  <2> QED
    BY <1>2, <2>1, DeployedSettings, SettledAdmits DEF Compliant, Admits
<1> QED
  BY <1>1, <1>2 DEF Policy

\* ... and what it admitted before another one changed it.  Only the capabilities
\* policy may undo that, when there is more than one container.
LEMMA AdmitsPreserved ==
  ASSUME settings \in Configs, NEW p \in Policy, NEW q \in Policy, p # q,
         q = "capabilities" => ~Disturbs(q, q),
         NEW spec \in PodSpec, NEW images, Admits(p, spec)
  PROVE  Admits(p, Evaluate(q, spec, images).spec)
<1>1. PICK new \in PodSpec : new = Evaluate(q, spec, images).spec
  BY EvaluateType DEF Response
<1>2. CASE q = "allowed-fsgroups"
  <2>1. new = fsgroups_validate(settings.fsgroups, spec).spec
    BY <1>1, <1>2 DEF Evaluate
  <2>2. /\ SameCapabilities(spec, new) /\ SameEscalation(spec, new)
        /\ SameClasses(spec, new)
    BY <2>1, FsGroupsFrame
  <2>3. CASE p = "user-group"
    <3>1. UserGroupAdmits(settings.user_group, spec)
      BY <2>3 DEF Admits
    <3>2. UserGroupAdmits(settings.user_group, new)
      BY <2>1, <3>1, DeployedSettings, EmptiedIsAdmitted
    <3> QED
      BY <1>1, <2>3, <3>2 DEF Admits
  <2>4. CASE p = "selinux"
    <3>1. SelinuxAdmits(settings.selinux, spec)
      BY <2>4 DEF Admits
    <3>2. SelinuxAdmits(settings.selinux, new)
      BY <2>1, <3>1, DeployedSettings, EmptiedIsAdmitted
    <3> QED
      BY <1>1, <2>4, <3>2 DEF Admits
  <2>5. CASE p \in {"capabilities", "allow-privilege-escalation"}
    BY <1>1, <2>2, <2>5, AdmitsDependsOn DEF Admits
  <2>6. CASE p \in {"runtime-class", "priority-class", "ndots"}
    BY <1>1, <2>2, <2>6 DEF Admits, SameClasses, RuntimeAdmits, PriorityAdmits
  <2> QED
    BY <1>2, <2>3, <2>4, <2>5, <2>6 DEF Policy
<1>3. CASE q # "allowed-fsgroups"
  <2>1. \A x \in Policy : ~Disturbs(q, x)
    BY <1>3 DEF Disturbs
  <2>2. "user-group" \in Policy /\ "selinux" \in Policy
          /\ "allow-privilege-escalation" \in Policy
    BY DEF Policy
  <2>3. /\ q # "capabilities" => SameCapabilities(spec, new)
        /\ q # "user-group" => SameUsers(spec, new) /\ SameSupplemental(spec, new)
        /\ SameFsGroup(spec, new)
        /\ q # "selinux" => SameSelinux(spec, new)
        /\ q # "allow-privilege-escalation" => SameEscalation(spec, new)
        /\ q # "runtime-class" => new.runtime = spec.runtime
        /\ q # "priority-class" => new.priority = spec.priority
    BY <1>1, <1>3, <2>1, <2>2, EvaluateFrame
  <2>4. CASE p = "user-group"
    <3>1. SamePodUsers(spec, new)
      BY <1>1, <1>3, <2>4, EvaluatePodUsers
    <3> QED
      BY <1>1, <2>3, <2>4, <3>1, AdmitsDependsOn DEF Admits
  <2>5. CASE p = "selinux"
    BY <1>1, <2>3, <2>5, SelinuxAdmitsDependsOn DEF Admits
  <2>6. CASE p = "capabilities"
    <3>1. SameCapabilities(spec, new)
      BY <2>3, <2>6
    <3> QED
      BY <1>1, <2>6, <3>1, AdmitsDependsOn DEF Admits
  <2>7. CASE p = "allowed-fsgroups"
    BY <1>1, <2>3, <2>7, AdmitsDependsOn DEF Admits
  <2>8. CASE p = "allow-privilege-escalation"
    <3>1. SameEscalation(spec, new)
      BY <2>3, <2>8
    <3> QED
      BY <1>1, <2>8, <3>1, AdmitsDependsOn DEF Admits
  <2>9. CASE p = "runtime-class"
    <3>1. new.runtime = spec.runtime
      BY <2>3, <2>9
    <3> QED
      BY <1>1, <2>9, <3>1 DEF Admits, RuntimeAdmits
  <2>10. CASE p = "priority-class"
    <3>1. new.priority = spec.priority
      BY <2>3, <2>10
    <3> QED
      BY <1>1, <2>10, <3>1 DEF Admits, PriorityAdmits
  <2>11. CASE p = "ndots"
    BY <2>11 DEF Admits
  <2> QED
    BY <2>4, <2>5, <2>6, <2>7, <2>8, <2>9, <2>10, <2>11 DEF Policy
<1> QED
  BY <1>2, <1>3

LEMMA AdmitsByEphemeral ==
  ASSUME NEW p \in Policy, p # "selinux", NEW spec \in PodSpec,
         NEW c \in EphemeralContainers, NEW sc, Admits(p, spec)
  PROVE  Admits(p, WithEphemeral(spec, c, sc))
<1>1. PICK new : new = WithEphemeral(spec, c, sc)
  OBVIOUS
<1>2. /\ new.psc = spec.psc /\ new.runtime = spec.runtime /\ new.priority = spec.priority
      /\ \A d \in TemplateContainers : new.ctr[d] = spec.ctr[d]
  <2>1. c \notin TemplateContainers
    BY ContainersAssumption DEF TemplateContainers
  <2> QED
    BY <1>1, <2>1 DEF WithEphemeral, PodSpec, Containers
<1>3. /\ SameCapabilities(spec, new) /\ SameUsers(spec, new) /\ SameSupplemental(spec, new)
      /\ SameFsGroup(spec, new) /\ SameEscalation(spec, new) /\ SamePodUsers(spec, new)
  BY <1>2 DEF SameCapabilities, SameUsers, SameSupplemental, SameFsGroup, SameEscalation,
     SamePodUsers
<1>4. CASE p \in {"capabilities", "user-group", "allowed-fsgroups",
                  "allow-privilege-escalation"}
  BY <1>1, <1>3, <1>4, AdmitsDependsOn DEF Admits
<1>5. CASE p \in {"runtime-class", "priority-class", "ndots"}
  BY <1>1, <1>2, <1>5 DEF Admits, RuntimeAdmits, PriorityAdmits
<1> QED
  BY <1>4, <1>5 DEF Policy

\* Each policy admits the objects that it ran on, and a request those that ran on
\* it or on the template it was created from: also when it would evaluate them
\* once more.
AdmittedBy(ps, spec) == \A p \in ps : Admits(p, spec)
StoredAdmitted == \A k \in Kind : Exists(k) => AdmittedBy(stored[k].ran, stored[k].spec)
RequestAdmitted ==
  Pending => AdmittedBy(request.ran, request.spec) /\ AdmittedBy(request.vouched, request.spec)
AdmittedInv ==
  ~RegistryMatters /\ ~CapabilitiesErases => StoredAdmitted /\ RequestAdmitted

\* There is no answer while a request is in flight.
Unanswered == Pending => verdict = "none"

LEMMA AdmittedFrame ==
  ASSUME UNCHANGED <<order, settings>>
  PROVE  /\ RegistryMatters' <=> RegistryMatters
         /\ CapabilitiesErases' <=> CapabilitiesErases
         /\ \A ps, spec : AdmittedBy(ps, spec)' <=> AdmittedBy(ps, spec)
BY DEF RegistryMatters, CapabilitiesErases, Disturbs, AdmittedBy, Admits

\* The policy that evaluates a request leaves it admitted.
LEMMA AdmittedNext ==
  ASSUME settings \in Configs, order \in Seq(Policy),
         ~RegistryMatters, ~CapabilitiesErases,
         NEW pos \in 1 .. Len(order), NEW spec \in PodSpec, NEW images,
         Evaluate(order[pos], spec, images).verdict # "reject",
         NEW ps \in SUBSET Policy, AdmittedBy(ps, spec)
  PROVE  AdmittedBy(ps \union {order[pos]}, Evaluate(order[pos], spec, images).spec)
<1> DEFINE q == order[pos]
<1>1. q \in Policy
  OBVIOUS
<1>2. q = "capabilities" => ~Disturbs(q, q)
  BY DEF CapabilitiesErases
<1>3. ~Disturbs(q, q)
  BY <1>2 DEF Disturbs
<1>4. Evaluate(q, spec, images).spec \in PodSpec
  BY <1>1, EvaluateType DEF Response
<1>5. Admits(q, Evaluate(q, spec, images).spec)
  BY <1>1, <1>3, <1>4, EvaluateSettles, SettledIsAdmitted
<1>6. ASSUME NEW p \in ps, p # q
      PROVE  Admits(p, Evaluate(q, spec, images).spec)
  BY <1>1, <1>2, <1>6, AdmitsPreserved DEF AdmittedBy
<1> QED
  BY <1>5, <1>6 DEF AdmittedBy

LEMMA AdmittedStep ==
  ASSUME TypeOK, AdmittedInv, [Next]_vars
  PROVE  AdmittedInv'
<1>0. order \in Seq(Policy) /\ settings \in Configs
  BY OrdersAssumption DEF TypeOK
<1>a. UNCHANGED <<order, settings>>
  BY DEF Next, vars, UserCreate, UserUpdateWorkload, UserUpdatePod, ControllerCreatePod,
     AttachEphemeral, Delete, CallPolicy, SkipPolicy, Persist, Submit
<1>b. \A ps, spec : AdmittedBy(ps, spec)' <=> AdmittedBy(ps, spec)
  BY <1>a, AdmittedFrame
<1> SUFFICES ASSUME ~RegistryMatters, ~CapabilitiesErases
             PROVE  StoredAdmitted' /\ RequestAdmitted'
  BY <1>a, AdmittedFrame DEF AdmittedInv
<1>c. StoredAdmitted /\ RequestAdmitted
  BY DEF AdmittedInv
<1>d. UNCHANGED stored => StoredAdmitted'
  BY <1>a, <1>c DEF StoredAdmitted, Exists, AdmittedBy, Admits
<1>e. request' = NoRequest => RequestAdmitted'
  BY DEF RequestAdmitted, Pending
<1>1. ASSUME NEW k, NEW op, NEW origin, NEW spec, Submit(k, op, origin, spec, {})
      PROVE  StoredAdmitted' /\ RequestAdmitted'
  <2>1. request'.ran = {} /\ request'.vouched = {} /\ UNCHANGED stored
    BY <1>1 DEF Submit
  <2> QED
    BY <1>d, <2>1 DEF RequestAdmitted, AdmittedBy
<1>2. CASE ControllerCreatePod
  <2> DEFINE o == stored[WorkloadKind]
  <2>1. WorkloadKind \in Kind /\ Exists(WorkloadKind) /\ UNCHANGED stored
    BY <1>2 DEF ControllerCreatePod, Submit, Kind
  <2>2. request'.ran = {} /\ request'.vouched = o.ran /\ request'.spec = o.spec
    BY <1>2 DEF ControllerCreatePod, Submit
  <2>3. AdmittedBy(o.ran, o.spec)
    BY <1>c, <2>1 DEF StoredAdmitted
  <2>4. RequestAdmitted'
    BY <1>a, <2>2, <2>3 DEF RequestAdmitted, AdmittedBy, Admits
  <2> QED
    BY <1>d, <2>1, <2>4
<1>3. ASSUME NEW c \in EphemeralContainers, NEW sc \in EphemeralContexts,
             AttachEphemeral(c, sc)
      PROVE  StoredAdmitted' /\ RequestAdmitted'
  <2> DEFINE old == stored["Pod"]
             new == [spec |-> WithEphemeral(old.spec, c, sc), ran |-> old.ran \ {"selinux"}]
  <2>1. "Pod" \in Kind /\ Exists("Pod") /\ ~Pending /\ UNCHANGED request
    BY <1>3 DEF AttachEphemeral, Kind
  <2>2. old.spec \in PodSpec /\ old.ran \subseteq Policy
    BY <2>1, StoredType
  <2>3. \A k \in Kind : stored'[k] = IF k = "Pod" THEN new ELSE stored[k]
    BY <1>3 DEF AttachEphemeral, TypeOK
  <2>4. AdmittedBy(new.ran, new.spec)
    BY <1>c, <2>1, <2>2, AdmitsByEphemeral DEF StoredAdmitted, AdmittedBy
  <2> HIDE DEF new
  <2>5. \A k \in Kind : Exists(k)' => AdmittedBy(stored'[k].ran, stored'[k].spec)
    BY <1>c, <2>1, <2>3, <2>4 DEF StoredAdmitted, Exists
  <2>6. StoredAdmitted'
    BY <1>a, <2>5 DEF StoredAdmitted, AdmittedBy, Admits
  <2> QED
    BY <2>1, <2>6 DEF RequestAdmitted, Pending
<1>4. ASSUME NEW k \in Kind, Delete(k)
      PROVE  StoredAdmitted' /\ RequestAdmitted'
  <2>1. ~Pending /\ UNCHANGED request
    BY <1>4 DEF Delete
  <2>2. \A h \in Kind : stored'[h] = NoObject \/ stored'[h] = stored[h]
    BY <1>4 DEF Delete, TypeOK
  <2>3. \A h \in Kind : Exists(h)' => AdmittedBy(stored'[h].ran, stored'[h].spec)
    BY <1>c, <2>2 DEF StoredAdmitted, Exists
  <2>4. StoredAdmitted'
    BY <1>a, <2>3 DEF StoredAdmitted, AdmittedBy, Admits
  <2> QED
    BY <2>1, <2>4 DEF RequestAdmitted, Pending
<1>5. ASSUME NEW images \in RegistryAnswers, CallPolicy(images)
      PROVE  StoredAdmitted' /\ RequestAdmitted'
  <2> DEFINE q == order[request.pos]
             r == Evaluate(q, request.spec, images)
  <2>1. Pending /\ request \in Request /\ UNCHANGED stored
    BY <1>5 DEF CallPolicy, Pending, TypeOK
  <2>2. CASE /\ r.verdict # "reject"
             /\ request' = [request EXCEPT !.spec = r.spec, !.pos = @ + 1,
                                           !.ran = @ \union {q}]
    <3>1. request.pos \in 1 .. Len(order) /\ request.spec \in PodSpec
      BY <1>0, <1>5, <2>1 DEF CallPolicy, Request
    <3>2. request.ran \in SUBSET Policy /\ request.vouched \in SUBSET Policy
      BY <2>1 DEF Request
    <3>3. /\ request'.ran = request.ran \union {q} /\ request'.vouched = request.vouched
          /\ request'.spec = r.spec
      BY <2>1, <2>2 DEF Request
    <3>4. AdmittedBy(request.ran \union {q}, r.spec)
      BY <1>0, <1>c, <2>1, <2>2, <3>1, <3>2, AdmittedNext DEF RequestAdmitted
    <3>5. AdmittedBy(request.vouched \union {q}, r.spec)
      BY <1>0, <1>c, <2>1, <2>2, <3>1, <3>2, AdmittedNext DEF RequestAdmitted
    <3> HIDE DEF r
    <3>6. AdmittedBy(request'.ran, request'.spec) /\ AdmittedBy(request'.vouched, request'.spec)
      BY <3>3, <3>4, <3>5 DEF AdmittedBy
    <3>7. RequestAdmitted'
      BY <1>a, <3>6 DEF RequestAdmitted, AdmittedBy, Admits
    <3> QED
      BY <1>d, <2>1, <3>7
  <2> QED
    BY <1>5, <1>d, <1>e, <2>1, <2>2 DEF CallPolicy
<1>6. CASE SkipPolicy
  <2>1. Pending /\ request \in Request /\ UNCHANGED stored
    BY <1>6 DEF SkipPolicy, Pending, TypeOK
  <2>2. /\ request'.ran = request.ran /\ request'.vouched = request.vouched
        /\ request'.spec = request.spec
    BY <1>6, <2>1 DEF SkipPolicy, Request
  <2>3. RequestAdmitted'
    BY <1>a, <1>c, <2>1, <2>2 DEF RequestAdmitted, AdmittedBy, Admits
  <2> QED
    BY <1>d, <2>1, <2>3
<1>7. CASE Persist
  <2> DEFINE new == [spec |-> request.spec, ran |-> request.ran]
  <2>1. Pending /\ request' = NoRequest
    BY <1>7 DEF Persist
  <2>2. AdmittedBy(new.ran, new.spec)
    BY <1>c, <2>1 DEF RequestAdmitted
  <2>3. \A k \in Kind : stored'[k] = new \/ stored'[k] = stored[k]
    BY <1>7 DEF Persist, TypeOK
  <2>4. \A k \in Kind : Exists(k)' => AdmittedBy(stored'[k].ran, stored'[k].spec)
    BY <1>c, <2>2, <2>3 DEF StoredAdmitted, Exists
  <2>5. StoredAdmitted'
    BY <1>a, <2>4 DEF StoredAdmitted, AdmittedBy, Admits
  <2> QED
    BY <1>e, <2>1, <2>5
<1>8. CASE UNCHANGED vars
  <2>1. UNCHANGED <<stored, request>>
    BY <1>8 DEF vars
  <2>2. RequestAdmitted'
    BY <1>a, <1>c, <2>1 DEF RequestAdmitted, Pending, AdmittedBy, Admits
  <2> QED
    BY <1>d, <2>1, <2>2
<1> QED
  BY <1>1, <1>2, <1>3, <1>4, <1>5, <1>6, <1>7, <1>8 DEF Next, UserCreate,
     UserUpdateWorkload, UserUpdatePod

LEMMA UnansweredStep ==
  ASSUME Unanswered, [Next]_vars
  PROVE  Unanswered'
<1>1. ASSUME NEW k, NEW op, NEW origin, NEW spec, NEW vouched,
             Submit(k, op, origin, spec, vouched)
      PROVE  Unanswered'
  BY <1>1 DEF Submit, Unanswered
<1> QED
  BY <1>1 DEF Next, vars, UserCreate, UserUpdateWorkload, UserUpdatePod, ControllerCreatePod,
     AttachEphemeral, Delete, CallPolicy, SkipPolicy, Persist, Unanswered, Pending

\* A rejection is not by a policy that ran on the template.
NotVouched ==
  Pending /\ verdict' = "rejected" /\ ~RegistryMatters /\ ~CapabilitiesErases
    => order[request.pos] \notin request.vouched

LEMMA NotVouchedStep ==
  ASSUME TypeOK, AdmittedInv, Unanswered, [Next]_vars
  PROVE  NotVouched
<1> SUFFICES ASSUME Pending, verdict' = "rejected", ~RegistryMatters, ~CapabilitiesErases,
                    order[request.pos] \in request.vouched
             PROVE  FALSE
  BY DEF NotVouched
<1>0. settings \in Configs /\ request \in Request /\ verdict = "none"
  BY DEF TypeOK, Pending, Unanswered
<1>1. ASSUME NEW images \in RegistryAnswers, CallPolicy(images)
      PROVE  FALSE
  <2> DEFINE p == order[request.pos]
  <2>1. p \in Policy /\ request.spec \in PodSpec
    BY <1>0 DEF Request
  <2>2. Admits(p, request.spec)
    BY DEF AdmittedInv, RequestAdmitted, AdmittedBy
  <2>3. Evaluate(p, request.spec, images).verdict # "reject"
    BY <1>0, <2>1, <2>2, AdmittedByPolicy
  <2>4. verdict' = verdict
    BY <1>1, <2>3 DEF CallPolicy
  <2> QED
    BY <1>0, <2>4
<1>2. CASE SkipPolicy
  BY <1>0, <1>2 DEF SkipPolicy
<1>3. CASE Persist
  BY <1>3 DEF Persist
<1>4. CASE UNCHANGED vars
  BY <1>0, <1>4 DEF vars
<1> QED
  BY <1>1, <1>2, <1>3, <1>4 DEF Next, UserCreate, UserUpdateWorkload, UserUpdatePod,
     ControllerCreatePod, Submit, AttachEphemeral, Delete

\* A policy that admitted the template of a workload does not reject the Pod its
\* controller creates from it, whatever the other policies made of both.
THEOREM TemplatesAreAdmitted == Spec => TemplatePodsAreAdmitted
<1>1. Init => AdmittedInv /\ Unanswered
  BY DEF Init, AdmittedInv, StoredAdmitted, RequestAdmitted, Exists, Unanswered, Pending
<1>2. TypeOK /\ AdmittedInv /\ Unanswered /\ [Next]_vars => AdmittedInv' /\ Unanswered'
  BY AdmittedStep, UnansweredStep
<1>3. TypeOK /\ AdmittedInv /\ Unanswered /\ [Next]_vars => [NotVouched]_vars
  BY NotVouchedStep
<1>4. Spec => [][NotVouched]_vars
  BY <1>1, <1>2, <1>3, TypeCorrect, PTL DEF Spec
<1> QED
  BY <1>4 DEF TemplatePodsAreAdmitted, NotVouched

================================================================================
