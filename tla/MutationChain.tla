----------------------------- MODULE MutationChain -----------------------------
(***************************************************************************)
(* The mutating policies at work: the API server sends every create and    *)
(* update of a Pod or of a workload through the mutating webhooks of the   *)
(* deployed policies, one after the other, each seeing the result of the   *)
(* ones before it; a workload's controller creates Pods from its template. *)
(*                                                                         *)
(* The policies are the repository's (the modules this one extends).  The  *)
(* API server, the policy server and the controller are external: they are *)
(* modelled from the rules of the policies' metadata.yml files and from    *)
(* what the policies are written against.  One request is in flight at a   *)
(* time: an evaluation keeps no state and reads nothing but its request,   *)
(* so concurrent requests are the same as some sequence of them.           *)
(***************************************************************************)
EXTENDS CapabilitiesPsp, UserGroupPsp, AllowedFsGroupsPsp, SelinuxPsp,
        AllowPrivilegeEscalationPsp, PodClassPolicies

CONSTANTS
  WorkloadKind,    \* the kind whose template Pods are created from
  Orders,          \* the orders the webhooks of the deployed policies may have
  Configs,         \* the settings the policies may be deployed with
  Submitted,       \* for each kind, the pod specs users create objects with
  Resubmitted,     \* the templates users update a workload with
  EphemeralContexts, \* the security contexts of ephemeral containers
  RegistryAnswers  \* what the registry may answer about the images of a pod

Policy == {"capabilities", "user-group", "allowed-fsgroups", "selinux",
           "allow-privilege-escalation", "runtime-class", "priority-class",
           "ndots"}

Settings ==
  [capabilities : CapabilitiesSettings, user_group : UserGroupSettings,
   fsgroups : FsGroupsSettings, selinux : SelinuxSettings,
   escalation : EscalationSettings, runtime : RuntimeSettings,
   priority : PrioritySettings, ndots : NdotsSettings]

\* The policy server refuses to start a policy whose settings its
\* validate_settings function rejects.
validate_settings(s) ==
  /\ valid_capabilities_settings(s.capabilities)
  /\ valid_user_group_settings(s.user_group)
  /\ valid_fsgroups_settings(s.fsgroups)
  /\ valid_selinux_settings(s.selinux)
  /\ valid_runtime_settings(s.runtime)
  /\ valid_priority_settings(s.priority)

ASSUME KindAssumption == WorkloadKind \in {"ReplicationController", "Deployment"}
ASSUME OrdersAssumption ==
  \A o \in Orders : /\ o \in Seq(Policy)
                    /\ \A i, j \in 1 .. Len(o) : o[i] = o[j] => i = j
ASSUME SubmittedAssumption ==
  /\ Submitted \in [{"Pod", WorkloadKind} -> SUBSET {s \in PodSpec : s.ephemeral = {}}]
  /\ Resubmitted \subseteq {s \in PodSpec : s.ephemeral = {}}
ASSUME AnswersAssumption ==
  /\ EphemeralContexts \subseteq SecurityContext
  /\ RegistryAnswers # {}
  /\ RegistryAnswers \subseteq [TemplateContainers -> ImageConfig]
ASSUME ConfigsAssumption == \A s \in Configs : s \in Settings /\ validate_settings(s)

VARIABLES
  order,    \* the order in which the webhooks are called
  settings, \* the settings the policies are deployed with
  stored,   \* for each kind, the stored object
  request,  \* the request that is being admitted
  verdict   \* the answer to the last request

vars == <<order, settings, stored, request, verdict>>

Kind == {"Pod", WorkloadKind}
Operation == {"CREATE", "UPDATE"}
Origin == {"user", "controller"}

\* ran: the policies that evaluated the request an object was stored by.
NoObject == [spec |-> None, ran |-> {}]
Object == [spec : PodSpec, ran : SUBSET Policy] \union {NoObject}
Exists(k) == stored[k] # NoObject

\* ran: the policies that evaluated the request so far; pos: the next one;
\* vouched: for a Pod created from a template, the policies that ran on it.
NoRequest == [pos |-> 0]
Request ==
  [kind : Kind, op : Operation, origin : Origin, submitted : PodSpec,
   spec : PodSpec, pos : Nat \ {0}, ran : SUBSET Policy, vouched : SUBSET Policy]
Pending == request # NoRequest

Verdict == {"none", "stored", "rejected", "immutable", "deleted"}

\* The rules of the metadata.yml files: the requests a policy is called for.
PodOnly == {"allowed-fsgroups", "selinux", "runtime-class", "ndots"}
Matches(p, kind, op) ==
  /\ p \in PodOnly => kind = "Pod"
  /\ p = "capabilities" => ~(kind = "Deployment" /\ op = "UPDATE")

\* The validate function each policy registers with its guest runtime.
Evaluate(p, spec, images) ==
  CASE p = "capabilities"     -> capabilities_validate(settings.capabilities, spec)
    [] p = "user-group"       -> user_group_validate(settings.user_group, spec, images)
    [] p = "allowed-fsgroups" -> fsgroups_validate(settings.fsgroups, spec)
    [] p = "selinux"          -> selinux_validate(settings.selinux, spec)
    [] p = "allow-privilege-escalation" -> escalation_validate(settings.escalation, spec)
    [] p = "runtime-class"    -> runtime_validate(settings.runtime, spec)
    [] p = "priority-class"   -> priority_validate(settings.priority, spec)
    [] p = "ndots"            -> ndots_validate(settings.ndots, spec)

--------------------------------------------------------------------------------
Init ==
  /\ order \in Orders
  /\ settings \in Configs
  /\ stored = [k \in Kind |-> NoObject]
  /\ request = NoRequest
  /\ verdict = "none"

Submit(k, op, origin, spec, vouched) ==
  /\ ~Pending
  /\ request' = [kind |-> k, op |-> op, origin |-> origin, submitted |-> spec,
                 spec |-> spec, pos |-> 1, ran |-> {}, vouched |-> vouched]
  /\ verdict' = "none"
  /\ UNCHANGED <<order, settings, stored>>

\* A user creates a workload, or a Pod of his own while there is no workload
\* (the one Pod of the model belongs to the workload otherwise).
UserCreate(k, spec) ==
  /\ ~Exists(k)
  /\ k = "Pod" => ~Exists(WorkloadKind)
  /\ Submit(k, "CREATE", "user", spec, {})

\* A user updates the template of a workload, or leaves it as it is (a change
\* of labels, of the scale, of a finalizer).
UserUpdateWorkload(spec) ==
  /\ Exists(WorkloadKind)
  /\ Submit(WorkloadKind, "UPDATE", "user", spec, {})

\* An update of a Pod: the API server lets users change only its metadata.
UserUpdatePod ==
  /\ Exists("Pod")
  /\ Submit("Pod", "UPDATE", "user", stored["Pod"].spec, {})

\* The controller of the workload creates the missing Pod from the template.
ControllerCreatePod ==
  /\ Exists(WorkloadKind) /\ ~Exists("Pod")
  /\ Submit("Pod", "CREATE", "controller",
            stored[WorkloadKind].spec, stored[WorkloadKind].ran)

\* An ephemeral container is attached through the pods/ephemeralcontainers
\* subresource, which no rule of the policies matches.
WithEphemeral(spec, c, sc) ==
  [spec EXCEPT !.ephemeral = @ \union {c}, !.ctr[c] = sc]
AttachEphemeral(c, sc) ==
  /\ ~Pending /\ Exists("Pod")
  /\ c \notin stored["Pod"].spec.ephemeral
  /\ stored' = [stored EXCEPT !["Pod"] =
                   [spec |-> WithEphemeral(@.spec, c, sc), ran |-> @.ran \ {"selinux"}]]
  /\ verdict' = "none"
  /\ UNCHANGED <<order, settings, request>>

Delete(k) ==
  /\ ~Pending /\ Exists(k)
  /\ stored' = [stored EXCEPT ![k] = NoObject]
  /\ verdict' = "deleted"
  /\ UNCHANGED <<order, settings, request>>

\* The next webhook whose rules match evaluates the request.
CallPolicy(images) ==
  /\ Pending /\ request.pos <= Len(order)
  /\ LET p == order[request.pos]
         r == Evaluate(p, request.spec, images)
     IN /\ Matches(p, request.kind, request.op)
        /\ \/ /\ r.verdict = "reject"
              /\ request' = NoRequest
              /\ verdict' = "rejected"
           \/ /\ r.verdict # "reject"
              /\ request' = [request EXCEPT !.spec = r.spec, !.pos = @ + 1,
                                            !.ran = @ \union {p}]
              /\ UNCHANGED verdict
  /\ UNCHANGED <<order, settings, stored>>

SkipPolicy ==
  /\ Pending /\ request.pos <= Len(order)
  /\ ~Matches(order[request.pos], request.kind, request.op)
  /\ request' = [request EXCEPT !.pos = @ + 1]
  /\ UNCHANGED <<order, settings, stored, verdict>>

\* Every webhook answered: the object is stored, except that the spec of a
\* Pod may not change any more.
Immutable == request.kind = "Pod" /\ request.op = "UPDATE"
               /\ request.spec # stored["Pod"].spec

Persist ==
  /\ Pending /\ request.pos > Len(order)
  /\ IF Immutable
       THEN verdict' = "immutable" /\ UNCHANGED stored
       ELSE /\ verdict' = "stored"
            /\ stored' = [stored EXCEPT ![request.kind] =
                            [spec |-> request.spec, ran |-> request.ran]]
  /\ request' = NoRequest
  /\ UNCHANGED <<order, settings>>

Next ==
  \/ \E k \in Kind : \E spec \in Submitted[k] : UserCreate(k, spec)
  \/ \E spec \in Resubmitted \union {stored[WorkloadKind].spec} : UserUpdateWorkload(spec)
  \/ UserUpdatePod
  \/ ControllerCreatePod
  \/ \E c \in EphemeralContainers, sc \in EphemeralContexts : AttachEphemeral(c, sc)
  \/ \E k \in Kind : Delete(k)
  \/ \E images \in RegistryAnswers : CallPolicy(images)
  \/ SkipPolicy
  \/ Persist

Spec == Init /\ [][Next]_vars

\* The API server calls the webhooks and answers every request; a controller
\* retries until the Pod it needs exists, and other requests do not keep it
\* from doing so (they only do here, where one request is in flight at a time).
FairSpec ==
  /\ Spec
  /\ WF_vars(\E images \in RegistryAnswers : CallPolicy(images))
  /\ WF_vars(SkipPolicy)
  /\ WF_vars(Persist)
  /\ SF_vars(ControllerCreatePod)

--------------------------------------------------------------------------------
(***************************************************************************)
(* Properties                                                              *)
(***************************************************************************)

TypeOK ==
  /\ order \in Orders
  /\ settings \in Configs
  /\ stored \in [Kind -> Object]
  /\ request \in Request \union {NoRequest}
  /\ verdict \in Verdict

Compliant(p, spec) ==
  CASE p = "capabilities"     -> CapabilitiesCompliant(settings.capabilities, spec)
    [] p = "user-group"       -> UserGroupCompliant(settings.user_group, spec)
    [] p = "allowed-fsgroups" -> FsGroupsCompliant(settings.fsgroups, spec)
    [] p = "selinux"          -> SelinuxCompliant(settings.selinux, spec)
    [] p = "allow-privilege-escalation" -> EscalationCompliant(settings.escalation, spec)
    [] p = "runtime-class"    -> RuntimeCompliant(settings.runtime, spec)
    [] p = "priority-class"   -> PriorityCompliant(settings.priority, spec)
    [] p = "ndots"            -> NdotsCompliant(settings.ndots, spec)

\* The capabilities policy empties the security context of the containers that
\* need no change when another one does, the fsgroups policy the rest of the
\* pod security context: q may undo what p enforced.
Disturbs(q, p) ==
  \/ /\ q = "capabilities"
     /\ \E c, d \in TemplateContainers : c # d
     /\ p \in {"capabilities", "user-group", "selinux", "allow-privilege-escalation"}
  \/ q = "allowed-fsgroups" /\ p \in {"user-group", "selinux"}

\* None of the policies in ran undid what p enforced: not p itself, none that
\* is called after it.
Kept(p, ran) ==
  \A i, j \in 1 .. Len(order) :
    order[i] = p /\ order[j] \in ran /\ i <= j => ~Disturbs(order[j], p)

Enforced(o) == \A p \in o.ran : Kept(p, o.ran) => Compliant(p, o.spec)

\* Every stored object complies with each policy that evaluated its request,
\* unless a policy that disturbs it was called later: whatever the order of the
\* webhooks, the ones that follow do not undo what a policy checked or set.
StoredObjectsComply == \A k \in Kind : Exists(k) => Enforced(stored[k])

\* The inductive form: also half way through the webhooks, for those called.
ChainInv ==
  /\ StoredObjectsComply
  /\ Pending =>
       /\ request.ran \subseteq {order[i] : i \in 1 .. (request.pos - 1)}
       /\ request.pos <= Len(order) + 1
       /\ Enforced(request)

\* What a user sets explicitly survives the mutations: they fill in what is
\* missing.  (A policy set to overwrite is meant to replace; runtime-class and
\* ndots are too.)
FieldKept(old, new, f, unset) == old[f] = unset \/ new[f] = old[f]
ExplicitFieldsKept ==
  LET old == request.submitted
      new == request.spec
  IN  /\ Pending
      /\ ~ \E p \in request.ran, q \in Policy : Disturbs(p, q)
      /\ ~( \/ settings.user_group.run_as_user.overwrite
            \/ settings.user_group.run_as_group.overwrite
            \/ settings.user_group.supplemental_groups.overwrite )
      => /\ FieldKept(old, new, "priority", None)
         /\ \A f \in {"user", "group", "fsGroup", "supplemental"} :
              FieldKept(old.psc, new.psc, f, None)
         /\ FieldKept(old.psc, new.psc, "nonRoot", "unset")
         /\ FieldKept(old.psc, new.psc, "selinux", None)
         /\ \A c \in Containers :
              /\ \A f \in {"user", "group"} : FieldKept(old.ctr[c], new.ctr[c], f, None)
              /\ \A f \in {"nonRoot", "ape"} :
                   FieldKept(old.ctr[c], new.ctr[c], f, "unset")
              /\ FieldKept(old.ctr[c], new.ctr[c], "selinux", None)
              /\ old.ctr[c].add \subseteq new.ctr[c].add
              /\ old.ctr[c].drop \subseteq new.ctr[c].drop

\* What the registry answers may change from one evaluation to the next.
RegistryMatters == settings.user_group.validate_image

\* The request in flight updates an object that every policy called for an
\* update evaluated when it was stored, and changes nothing in it.
IsSettledNoOp ==
  LET o == stored[request.kind] IN
  /\ request.op = "UPDATE" /\ request.submitted = o.spec
  /\ \A i \in 1 .. Len(order) :
       Matches(order[i], request.kind, "UPDATE") =>
         order[i] \in o.ran /\ Kept(order[i], o.ran)

\* Updates that leave an admitted object as it is are stored, and do not change
\* it: the mutations are idempotent, alone and together, so that no label,
\* finalizer or scale of a running Pod or workload gets stuck behind a
\* mutation of an immutable field or flips its spec back and forth.
NoOpUpdatesAreStored ==
  [][ Pending /\ ~RegistryMatters /\ IsSettledNoOp /\ request' = NoRequest
      => /\ verdict' = "stored"
         /\ stored'[request.kind].spec = stored[request.kind].spec ]_vars

CapabilitiesErases == Disturbs("capabilities", "capabilities")
                        /\ \E i \in 1 .. Len(order) : order[i] = "capabilities"

\* A policy that admitted the template of a workload does not reject the Pod
\* its controller creates from it.
TemplatePodsAreAdmitted ==
  [][ Pending /\ verdict' = "rejected" /\ ~RegistryMatters /\ ~CapabilitiesErases
      => order[request.pos] \notin request.vouched ]_vars

\* A workload whose template every deployed policy admitted gets its Pod: it
\* does not stay admitted but never running.
WorkloadAdmittedByAll ==
  /\ Exists(WorkloadKind)
  /\ \A i \in 1 .. Len(order) : order[i] \in stored[WorkloadKind].ran
  /\ ~RegistryMatters /\ ~CapabilitiesErases
AdmittedWorkloadsRun ==
  WorkloadAdmittedByAll ~> (Exists("Pod") \/ ~WorkloadAdmittedByAll)

--------------------------------------------------------------------------------
(***************************************************************************)
(* Properties the code does not have                                       *)
(***************************************************************************)

\* capabilities-psp-policy/README.md:22: the capabilities in
\* required_drop_capabilities "must be dropped from containers".
RequiredDropsAreEnforced ==
  \A k \in Kind : "capabilities" \in stored[k].ran =>
    \A c \in TemplateContainers :
      settings.capabilities.required_drop \subseteq stored[k].spec.ctr[c].drop

\* user-group-psp-policy/README.md:26: with validate_only, "If a resource
\* violates a rule, the policy will reject the request".  The one that does not
\* is accepted.
ValidateOnlyAcceptsCompliantPods ==
  [][ Pending /\ verdict' = "rejected" /\ order[request.pos] = "user-group"
        /\ settings.user_group.validate_only /\ ~RegistryMatters
      => ~UserGroupCompliant(settings.user_group, request.spec) ]_vars

\* selinux-psp-policy/src/lib.rs:486 must_run_as_rejects_unequal_sensitivity: a
\* pod whose level has another sensitivity than the expected one is rejected.
AdmittedLevelsAreExpected ==
  \A k \in Kind : "selinux" \in stored[k].ran /\ settings.selinux.rule = "MustRunAs" =>
    LET level == stored[k].spec.psc.selinux.level
        expected == settings.selinux.options.level
    IN  Kept("selinux", stored[k].ran) /\ level # None /\ expected # None
          => level = expected
================================================================================
