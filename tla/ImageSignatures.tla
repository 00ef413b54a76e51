----------------------------- MODULE ImageSignatures -----------------------------
(***************************************************************************)
(* policies/verify-image-signatures: the host verifies the signatures of   *)
(* the images of a pod, entry by entry of the settings, and the digest it  *)
(* found is appended to their names.                                       *)
(*                                                                         *)
(* An entry of the settings is [kind, image, glob, signers, chain]: the    *)
(* image a name or None, glob says that it ends with a wildcard in place   *)
(* of tag and digest; signers are keys, certificates or identities.        *)
(***************************************************************************)
EXTENDS TrustedRepos

\* What the host hears of an image comes from its registry: [digest, platforms], where
\* platforms is None or, for an index, the digest of each platform.  The cluster keeps
\* it by the name without digest, next to who signed a digest.
Named(image) == [reference(image) EXCEPT !.digest = None]

InRegistry(cluster, image) == Named(image) \in DOMAIN cluster.registry

Resolved(cluster, image) ==
  IF image.digest # None THEN image.digest ELSE cluster.registry[Named(image)].digest

--------------------------------------------------------------------------------
\* The settings.  NoPem stands for what is no PEM, Expired for a certificate that is.
NoPem == "no pem"
Expired == "expired"

validate_vector_of_pem_strings(data) == NoPem \notin ToSet(data)

pub_keys_valid(entry) ==
  entry.image # None /\ entry.signers # <<>> /\ validate_vector_of_pem_strings(entry.signers)

keyless_valid(entry) == entry.image # None

keyless_prefix_valid(entry) == entry.image # None /\ entry.signers # <<>>

github_actions_valid(entry) == entry.image # None

\* The host's verify_cert
verify_cert(certificate, chain) == certificate \notin {NoPem, Expired}

certificate_valid(entry) ==
  /\ entry.image # None /\ entry.signers # <<>>
  /\ entry.chain # None => validate_vector_of_pem_strings(entry.chain)
  /\ \A certificate \in ToSet(entry.signers) : verify_cert(certificate, entry.chain)

signature_valid(entry) ==
  CASE entry.kind = "pubKeys" -> pub_keys_valid(entry)
    [] entry.kind = "keyless" -> keyless_valid(entry)
    [] entry.kind = "githubActions" -> github_actions_valid(entry)
    [] entry.kind = "keylessPrefix" -> keyless_prefix_valid(entry)
    [] entry.kind = "certificate" -> certificate_valid(entry)

signatures_settings_valid(settings) ==
  /\ settings.signatures # <<>>
  /\ \A i \in DOMAIN settings.signatures : signature_valid(settings.signatures[i])

\* The host may fail to look at a certificate, which refuses the settings.
settings_ask_host(settings) ==
  \E i \in DOMAIN settings.signatures : settings.signatures[i].kind = "certificate"

--------------------------------------------------------------------------------
\* ImageHolder and ValidatingResource: the image of a container, and the pod spec of an
\* object or of its template
set_image(container, image) == [container EXCEPT !.image = image]

resource_spec(object) == IF Extracted(object) THEN object.spec ELSE None

set_spec(object, changed_spec) == [object EXCEPT !.spec = changed_spec]

\* WildMatch: the name as it is written, or what comes before the wildcard
SignaturePatternMatches(entry, image) ==
  entry.image = IF entry.glob THEN [image EXCEPT !.tag = None, !.digest = None] ELSE image

\* Certificates are verified one by one, all other signers of an entry by one call.
Calls(entry) ==
  IF entry.kind = "certificate" THEN [i \in DOMAIN entry.signers |-> {entry.signers[i]}]
  ELSE <<ToSet(entry.signers)>>

\* A question is [container, entry, call]; an answer the digest, or Error.
Verification(container, i, call) == [container |-> container, entry |-> i, call |-> call]

\* What was heard of a container
HeardOf(heard, container) == {j \in DOMAIN heard : heard[j].question.container = container}

CallsLeft(settings, heard, container, i) ==
  {call \in DOMAIN Calls(settings.signatures[i]) :
     \A j \in DOMAIN heard : heard[j].question # Verification(container, i, call)}

\* After a certificate that fails the ones behind it are not tried.
EntryIsDone(settings, heard, container, i) ==
  \/ ~SignaturePatternMatches(settings.signatures[i], container.image)
  \/ CallsLeft(settings, heard, container, i) = {}
  \/ \E j \in HeardOf(heard, container) : heard[j].question.entry = i /\ heard[j].answer = Error

ContainerIsDone(settings, heard, container) ==
  \A i \in DOMAIN settings.signatures : EntryIsDone(settings, heard, container, i)

\* The containers one after the other, their entries and certificates in the order of the
\* settings.
IsNext(settings, containers, heard, container, i) ==
  /\ ~EntryIsDone(settings, heard, container, i)
  /\ \A j \in 1..(i - 1) : EntryIsDone(settings, heard, container, j)
  /\ \A other \in containers \ {container} :
       HeardOf(heard, other) = {} \/ ContainerIsDone(settings, heard, other)

\* A container without image stops the guest with a trap.
Traps(object) == resource_spec(object) # None /\ \E c \in resource_spec(object).containers : c.image = None

signature_questions(settings, object, heard) ==
  IF resource_spec(object) = None \/ Traps(object) THEN {}
  ELSE UNION {{Verification(p[1], p[2], call) :
                 call \in {k \in CallsLeft(settings, heard, p[1], p[2]) :
                             \A other \in CallsLeft(settings, heard, p[1], p[2]) : k <= other}} :
                p \in {q \in resource_spec(object).containers \X DOMAIN settings.signatures :
                         IsNext(settings, resource_spec(object).containers, heard, q[1], q[2])}}

verify(settings, cluster, q) ==
  LET image == q.container.image
      signers == Calls(settings.signatures[q.entry])[q.call] IN
  IF /\ signers # {}
     /\ image.digest # None \/ InRegistry(cluster, image)
     /\ Resolved(cluster, image) \in DOMAIN cluster.signed
     /\ signers \subseteq cluster.signed[Resolved(cluster, image)]
    THEN Resolved(cluster, image) ELSE Error

\* The digest that was heard last is appended to the name as it is written.
add_digest_if_not_present(heard, container) ==
  LET of == HeardOf(heard, container)
      last == CHOOSE j \in of : \A k \in of : k <= j IN
  IF of = {} \/ container.image.digest # None THEN container
  ELSE set_image(container, [container.image EXCEPT !.digest = heard[last].answer])

\* Mutant: failed verifications are forgotten once an image was verified.
some_verified(heard) == \E i \in DOMAIN heard : heard[i].answer # Error

all_verified(heard) == \A i \in DOMAIN heard : heard[i].answer # Error

\* The changed spec
verify_all_images_in_pod(pod_spec, heard) ==
  [pod_spec EXCEPT !.containers = {add_digest_if_not_present(heard, c) : c \in @}]

signatures_validate(settings, object, heard) ==
  CASE resource_spec(object) = None -> Answer(TRUE, object)
    [] resource_spec(object) # None /\ (Traps(object) \/ ~all_verified(heard)) -> Answer(FALSE, object)
    [] OTHER ->
         Answer(TRUE, IF settings.modify_images_with_digest
                        THEN set_spec(object, verify_all_images_in_pod(resource_spec(object), heard))
                        ELSE object)
================================================================================
