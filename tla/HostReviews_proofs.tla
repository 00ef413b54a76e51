-------------------------- MODULE HostReviews_proofs --------------------------
(***************************************************************************)
(* The policies that ask about one image after the other, and the one that *)
(* compares with what Rancher counted: an answer is only given when        *)
(* nothing is left to ask, and what was heard holds when it is given.  And *)
(* the policies that change objects: what they stored needs no change.     *)
(***************************************************************************)
EXTENDS PolicyServer_proofs, FiniteSetTheorems

--------------------------------------------------------------------------------
\* verify-image-signatures goes through the containers one by one: at most one of them is
\* begun and not done.
OneOpen ==
  policy = "verify-image-signatures" /\ resource_spec(object) # None =>
    \A c, d \in resource_spec(object).containers :
      c # d /\ HeardOf(heard, c) # {} /\ HeardOf(heard, d) # {} =>
        ContainerIsDone(settings, heard, c) \/ ContainerIsDone(settings, heard, d)

\* What was heard of a container, and that it is done, stays.
LEMMA HeardGrows ==
  ASSUME NEW S, NEW h \in Seq(S), NEW x, NEW more, more = Append(h, x)
  PROVE  /\ DOMAIN h \subseteq DOMAIN more /\ \A j \in DOMAIN h : more[j] = h[j]
         /\ \A j \in DOMAIN more \ DOMAIN h : more[j] = x
<1>1. h \in Seq(S \union {x}) /\ Len(more) = Len(h) + 1
  OBVIOUS
<1> QED BY <1>1

LEMMA DoneStays ==
  ASSUME NEW s, NEW S, NEW h \in Seq(S), NEW x, NEW more, more = Append(h, x), NEW c,
         ContainerIsDone(s, h, c)
  PROVE  ContainerIsDone(s, more, c)
<1>1. DOMAIN h \subseteq DOMAIN more /\ \A j \in DOMAIN h : more[j] = h[j]
  BY HeardGrows
<1>2. ASSUME NEW i \in DOMAIN s.signatures PROVE EntryIsDone(s, more, c, i)
  <2>1. EntryIsDone(s, h, c, i)
    BY DEF ContainerIsDone
  <2>2. CallsLeft(s, more, c, i) \subseteq CallsLeft(s, h, c, i)
    BY <1>1 DEF CallsLeft
  <2>3. HeardOf(h, c) \subseteq HeardOf(more, c)
    BY <1>1 DEF HeardOf
  <2>4. HeardOf(h, c) \subseteq DOMAIN h
    BY DEF HeardOf
  <2> QED BY <1>1, <2>1, <2>2, <2>3, <2>4 DEF EntryIsDone
<1> QED BY <1>2 DEF ContainerIsDone

\* A container that is asked about is the only one that is begun and not done.
LEMMA AskedIsNext ==
  ASSUME NEW q \in Questions, policy = "verify-image-signatures"
  PROVE  \A other \in resource_spec(object).containers \ {q.container} :
           HeardOf(heard, other) = {} \/ ContainerIsDone(settings, heard, other)
<1> DEFINE containers == resource_spec(object).containers
           first(c, i) == {k \in CallsLeft(settings, heard, c, i) :
                             \A other \in CallsLeft(settings, heard, c, i) : k <= other}
           next == {p \in containers \X DOMAIN settings.signatures :
                      IsNext(settings, containers, heard, p[1], p[2])}
<1>1. q \in UNION {{Verification(p[1], p[2], call) : call \in first(p[1], p[2])} : p \in next}
  BY DEF Questions, signature_questions
<1>2. PICK p \in next : q \in {Verification(p[1], p[2], call) : call \in first(p[1], p[2])}
  BY <1>1
<1>3. q.container = p[1]
  BY <1>2 DEF Verification
<1> QED BY <1>3 DEF IsNext

LEMMA OneOpenAsk ==
  ASSUME ReviewInv, OneOpen, Reviewing, NEW q \in Questions, Ask(q) PROVE OneOpen'
<1>1. PICK a : heard' = Append(heard, [question |-> q, answer |-> a])
  BY DEF Ask
<1>2. UNCHANGED <<policy, settings, object>>
  BY DEF Ask, config
<1>3. PICK S : heard \in Seq(S)
  BY DEF ReviewInv, HeardOK
<1> SUFFICES ASSUME policy = "verify-image-signatures",
                    NEW c \in resource_spec(object).containers, NEW d \in resource_spec(object).containers,
                    resource_spec(object) # None,
                    c # d, HeardOf(heard', c) # {}, HeardOf(heard', d) # {}
             PROVE  ContainerIsDone(settings, heard', c) \/ ContainerIsDone(settings, heard', d)
  BY <1>2 DEF OneOpen
<1>4. ASSUME NEW e, e # q.container PROVE HeardOf(heard', e) = HeardOf(heard, e)
  <2> DEFINE reply == [question |-> q, answer |-> a]
  <2>1. /\ DOMAIN heard \subseteq DOMAIN heard' /\ \A j \in DOMAIN heard : heard'[j] = heard[j]
        /\ \A j \in DOMAIN heard' \ DOMAIN heard : heard'[j] = reply
    BY <1>1, <1>3, HeardGrows
  <2> QED BY <1>4, <2>1 DEF HeardOf
<1>5. ASSUME NEW e, ContainerIsDone(settings, heard, e) PROVE ContainerIsDone(settings, heard', e)
  <2>1. PICK reply : heard' = Append(heard, reply)
    BY <1>1
  <2> QED BY <1>3, <1>5, <2>1, DoneStays
<1>6. CASE c # q.container /\ d # q.container
  BY <1>4, <1>5, <1>6 DEF OneOpen
<1>7. CASE c = q.container
  BY <1>4, <1>5, <1>7, AskedIsNext
<1>8. CASE d = q.container
  BY <1>4, <1>5, <1>8, AskedIsNext
<1> QED BY <1>6, <1>7, <1>8

LEMMA OneOpenStep == ReviewInv /\ OneOpen /\ [Next]_vars => OneOpen'
<1> SUFFICES ASSUME ReviewInv, OneOpen, [Next]_vars PROVE OneOpen'
  OBVIOUS
<1>1. CASE \E q \in Questions : Reviewing /\ Ask(q)
  BY <1>1, OneOpenAsk
<1>2. CASE UNCHANGED <<policy, settings, object, heard>>
  BY <1>2 DEF OneOpen
<1>3. CASE \E o \in Scenarios[policy].objects \union stored : Submit(o)
  <2>1. heard' = <<>>
    BY <1>3 DEF Submit, ReviewInv, HeardOK
  <2> QED BY <2>1 DEF OneOpen, HeardOf
<1>4. CASE Store
  <2>1. heard' = <<>>
    BY <1>4 DEF Store
  <2> QED BY <2>1 DEF OneOpen, HeardOf
<1> QED BY <1>1, <1>2, <1>3, <1>4 DEF Next, vars, Load, Decide, Move, Recount, Refresh, config, review

\* As long as a container is not done there is something to ask.
LEMMA NothingLeftToAsk ==
  ASSUME ReviewInv, OneOpen, policy = "verify-image-signatures", Questions = {},
         resource_spec(object) # None, ~Traps(object), NEW c \in resource_spec(object).containers
  PROVE  ContainerIsDone(settings, heard, c)
<1> DEFINE containers == resource_spec(object).containers
           Done(e) == ContainerIsDone(settings, heard, e)
           first(e, i) == {k \in CallsLeft(settings, heard, e, i) :
                             \A other \in CallsLeft(settings, heard, e, i) : k <= other}
           next == {p \in containers \X DOMAIN settings.signatures :
                      IsNext(settings, containers, heard, p[1], p[2])}
<1> SUFFICES ASSUME ~Done(c) PROVE FALSE
  OBVIOUS
<1>1. \E e \in containers : /\ ~Done(e)
                            /\ \A other \in containers \ {e} : HeardOf(heard, other) = {} \/ Done(other)
  <2>1. CASE \E e \in containers : HeardOf(heard, e) # {} /\ ~Done(e)
    BY <2>1 DEF OneOpen
  <2>2. CASE \A e \in containers : HeardOf(heard, e) = {} \/ Done(e)
    BY <2>2
  <2> QED BY <2>1, <2>2
<1>2. PICK e \in containers : /\ ~Done(e)
                              /\ \A other \in containers \ {e} : HeardOf(heard, other) = {} \/ Done(other)
  BY <1>1
<1>3. \A s \in SettingsOf("verify-image-signatures") : /\ s.signatures \in Seq(ToSet(s.signatures))
        /\ \A entry \in ToSet(s.signatures) : entry.signers \in Seq(STRING)
  BY SettingsAssumption
<1>4. settings.signatures \in Seq(ToSet(settings.signatures))
      /\ \A entry \in ToSet(settings.signatures) : entry.signers \in Seq(STRING)
  BY <1>3 DEF ReviewInv, ConfigOK
<1>5. DOMAIN settings.signatures = 1..Len(settings.signatures) /\ Len(settings.signatures) \in Nat
  BY <1>4
<1> DEFINE open == {i \in DOMAIN settings.signatures : ~EntryIsDone(settings, heard, e, i)}
<1>6. open # {} /\ open \in SUBSET Nat
  BY <1>2, <1>5 DEF ContainerIsDone
<1>7. PICK i \in open : \A j \in open : i <= j
  BY <1>6, SomeIsLeast
<1>8. \A j \in 1..(i - 1) : EntryIsDone(settings, heard, e, j)
  BY <1>5, <1>7
<1>9. <<e, i>> \in next
  BY <1>2, <1>7, <1>8 DEF IsNext
<1> DEFINE left == CallsLeft(settings, heard, e, i)
<1>10. left # {}
  BY <1>7 DEF EntryIsDone
<1>11. left \in SUBSET Nat
  <2>1. settings.signatures[i].signers \in Seq(STRING)
    BY <1>4, <1>5, <1>7 DEF ToSet
  <2>2. DOMAIN Calls(settings.signatures[i]) \subseteq Nat
    BY <2>1 DEF Calls
  <2> QED BY <2>2 DEF CallsLeft
<1>12. PICK call \in left : \A other \in left : call <= other
  BY <1>10, <1>11, SomeIsLeast
<1>13. Verification(e, i, call) \in {Verification(e, i, k) : k \in first(e, i)}
  BY <1>12
<1> HIDE DEF next, first
<1>14. Verification(e, i, call) \in UNION {{Verification(p[1], p[2], k) : k \in first(p[1], p[2])} : p \in next}
  BY <1>9, <1>13
<1> QED BY <1>14 DEF Questions, signature_questions, first, next

--------------------------------------------------------------------------------
\* A number that is not above all of a finite list of numbers: the last of them exists.
LEMMA SomeIsLast ==
  ASSUME NEW n \in Nat, NEW S \in SUBSET (1..n), S # {} PROVE \E x \in S : \A y \in S : y <= x
<1> DEFINE above == {m \in Nat : \A y \in S : y <= m}
<1>1. n \in above
  OBVIOUS
<1>2. PICK m \in above : \A k \in above : m <= k
  <2> HIDE DEF above
  <2>1. above \in SUBSET Nat
    BY DEF above
  <2> QED BY <1>1, <2>1, SomeIsLeast
<1>3. m \in S
  <2>1. SUFFICES ASSUME m \notin S PROVE FALSE
    OBVIOUS
  <2>2. \A y \in S : y \in Nat /\ y <= m /\ y # m
    BY <2>1
  <2>3. PICK y \in S : TRUE
    OBVIOUS
  <2>4. m - 1 \in above
    BY <2>2, <2>3
  <2> QED BY <1>2, <2>4
<1> QED BY <1>2, <1>3

\* Of what was heard of a container there is a last.
LEMMA LastIsHeard ==
  ASSUME ReviewInv, NEW c, HeardOf(heard, c) # {}
  PROVE  LET of == HeardOf(heard, c) IN (CHOOSE k \in of : \A l \in of : l <= k) \in of
<1> DEFINE of == HeardOf(heard, c)
<1>1. PICK S : heard \in Seq(S)
  BY DEF ReviewInv, HeardOK
<1>2. DOMAIN heard = 1..Len(heard) /\ Len(heard) \in Nat
  BY <1>1
<1>3. of \subseteq DOMAIN heard /\ of # {}
  BY DEF HeardOf
<1> HIDE DEF of
<1>4. of \in SUBSET (1..Len(heard))
  BY <1>2, <1>3
<1>5. \E k \in of : \A l \in of : l <= k
  BY <1>2, <1>3, <1>4, SomeIsLast
<1> QED BY <1>5 DEF of

\* The signers of the entries of the settings
LEMMA SignersAreStrings ==
  ASSUME ReviewInv, policy = "verify-image-signatures", NEW i \in DOMAIN settings.signatures
  PROVE  settings.signatures[i].signers \in Seq(STRING)
<1>1. settings \in SettingsOf("verify-image-signatures")
  BY DEF ReviewInv, ConfigOK
<1>2. \A entry \in ToSet(settings.signatures) : entry.signers \in Seq(STRING)
  BY <1>1, SettingsAssumption
<1>3. settings.signatures[i] \in ToSet(settings.signatures)
  BY DEF ToSet
<1> QED BY <1>2, <1>3

\* Each signer of an entry is verified by some call, and there is one if the entry is valid.
LEMMA CallsVerifySigners ==
  ASSUME NEW entry, entry.signers \in Seq(STRING)
  PROVE  /\ \A call \in DOMAIN Calls(entry) : Calls(entry)[call] \subseteq Signers(entry)
         /\ \A signer \in Signers(entry) : \E call \in DOMAIN Calls(entry) : signer \in Calls(entry)[call]
         /\ signature_valid(entry) => 1 \in DOMAIN Calls(entry)
<1>1. CASE entry.kind = "certificate"
  <2>1. Calls(entry) = [i \in DOMAIN entry.signers |-> {entry.signers[i]}]
    BY <1>1 DEF Calls
  <2>2. signature_valid(entry) => entry.signers # <<>>
    BY <1>1 DEF signature_valid, certificate_valid
  <2>3. entry.signers # <<>> => 1 \in DOMAIN entry.signers
    OBVIOUS
  <2> QED BY <2>1, <2>2, <2>3 DEF Signers, ToSet
<1>2. CASE entry.kind # "certificate"
  <2>1. Calls(entry) = <<Signers(entry)>>
    BY <1>2 DEF Calls, Signers
  <2>2. DOMAIN Calls(entry) = {1} /\ Calls(entry)[1] = Signers(entry)
    BY <2>1
  <2> QED BY <2>2
<1> QED BY <1>1, <1>2

\* A verification that succeeded found the signers it is about on a digest of the image.
LEMMA VerifiedByAll ==
  ASSUME NEW cl, NEW q, verify(settings, cl, q) # Error
  PROVE  LET signers == Calls(settings.signatures[q.entry])[q.call] IN
         /\ signers # {} /\ verify(settings, cl, q) = Resolved(cl, q.container.image)
         /\ Resolved(cl, q.container.image) \in DOMAIN cl.signed
         /\ signers \subseteq cl.signed[Resolved(cl, q.container.image)]
  BY DEF verify

LEMMA HeardWasVerified ==
  ASSUME ReviewInv, policy = "verify-image-signatures", NEW j \in DOMAIN heard, heard[j].answer # Error
  PROVE  LET q == heard[j].question
             signers == Calls(settings.signatures[q.entry])[q.call] IN
         /\ IsVerification(q)
         /\ \E v \in views :
              /\ signers # {} /\ heard[j].answer = Resolved(v, q.container.image)
              /\ heard[j].answer \in DOMAIN v.signed /\ signers \subseteq v.signed[heard[j].answer]
<1>1. IsVerification(heard[j].question)
  BY DEF ReviewInv, HeardOK, Asks
<1>2. PICK v \in views : heard[j].answer = verify(settings, v, heard[j].question)
  BY DEF ReviewInv, HeardOK, AnswersOf
<1> QED BY <1>1, <1>2, VerifiedByAll

\* The name an accepted image is stored with, and what was found of it
LEMMA DigestWasVerified ==
  ASSUME ReviewInv, OneOpen, policy = "verify-image-signatures", Questions = {},
         resource_spec(object) # None, ~Traps(object), all_verified(heard), SettingsValid,
         NEW c \in resource_spec(object).containers,
         c = [field \in DOMAIN EmptyContainer |-> c[field]],
         c.image = [registry |-> c.image.registry, path |-> c.image.path, tag |-> c.image.tag,
                    digest |-> c.image.digest],
         NEW i \in DOMAIN settings.signatures,
         SignaturePatternMatches(settings.signatures[i], c.image),
         NEW after, after = add_digest_if_not_present(heard, c)
  PROVE  /\ [after EXCEPT !.image.digest = c.image.digest] = c
         /\ \E j \in HeardOf(heard, c) : /\ heard[j].answer # Error
                                         /\ heard[j].answer = after.image.digest
<1>1. ContainerIsDone(settings, heard, c)
  BY NothingLeftToAsk
<1>2. \A j \in HeardOf(heard, c) : j \in DOMAIN heard /\ heard[j].question.container = c /\ heard[j].answer # Error
  BY DEF HeardOf, all_verified
<1>3. EntryIsDone(settings, heard, c, i)
  BY <1>1 DEF ContainerIsDone
<1>4. CallsLeft(settings, heard, c, i) = {}
  BY <1>2, <1>3 DEF EntryIsDone
<1>5. 1 \in DOMAIN Calls(settings.signatures[i])
  <2>1. settings.signatures[i].signers \in Seq(STRING)
    BY SignersAreStrings
  <2>2. signature_valid(settings.signatures[i])
    BY DEF SettingsValid, signatures_settings_valid
  <2> QED BY <2>1, <2>2, CallsVerifySigners
<1>6. PICK j \in DOMAIN heard : heard[j].question = Verification(c, i, 1)
  BY <1>4, <1>5 DEF CallsLeft
<1>7. j \in HeardOf(heard, c)
  BY <1>6 DEF HeardOf, Verification
<1>8. CASE c.image.digest # None
  <2>1. after = c
    BY <1>8 DEF add_digest_if_not_present
  <2>2. PICK v \in views : heard[j].answer = Resolved(v, c.image)
    BY <1>2, <1>7, HeardWasVerified
  <2>3. heard[j].answer = c.image.digest
    BY <1>8, <2>2 DEF Resolved
  <2>4. [c EXCEPT !.image.digest = c.image.digest] = c
    OBVIOUS
  <2> QED BY <1>2, <1>7, <2>1, <2>3, <2>4
<1>9. CASE c.image.digest = None
  <2> DEFINE of == HeardOf(heard, c)
             last == CHOOSE k \in of : \A l \in of : l <= k
  <2>1. last \in of
    BY <1>7, LastIsHeard
  <2>2. after = set_image(c, [c.image EXCEPT !.digest = heard[last].answer])
    BY <1>7, <1>9 DEF add_digest_if_not_present
  <2> HIDE DEF last
  <2>3. PICK digest : digest = heard[last].answer
    OBVIOUS
  <2>4. after = [c EXCEPT !.image = [c.image EXCEPT !.digest = digest]]
    BY <2>2, <2>3 DEF set_image
  <2>5. "image" \in DOMAIN c
    BY DEF EmptyContainer
  <2>6. after.image.digest = digest
    BY <2>4, <2>5
  <2>7. [after EXCEPT !.image.digest = c.image.digest] = c
    BY <2>4, <2>5
  <2> QED BY <1>2, <2>1, <2>3, <2>6, <2>7
<1> QED BY <1>8, <1>9

LEMMA ImagesVerified == ReviewInv /\ OneOpen => VerifiedImagesAreStored
<1> SUFFICES ASSUME ReviewInv, OneOpen, Accepted, policy = "verify-image-signatures",
                    settings.modify_images_with_digest, NEW c \in ContainersOf(object),
                    NEW i \in DOMAIN settings.signatures,
                    SignaturePatternMatches(settings.signatures[i], c.image)
             PROVE  LET entries == {settings.signatures[k] :
                          k \in {j \in DOMAIN settings.signatures :
                                   SignaturePatternMatches(settings.signatures[j], c.image)}} IN
                    \E after \in answer.object.spec.containers, v \in views :
                      /\ [after EXCEPT !.image.digest = c.image.digest] = c
                      /\ after.image.digest \in DOMAIN v.signed
                      /\ \E entry \in entries :
                           v.signed[after.image.digest] \intersect Signers(entry) # {}
                      /\ OneView => \A entry \in entries : Signers(entry) \subseteq v.signed[after.image.digest]
  BY DEF VerifiedImagesAreStored
<1> DEFINE matching == {j \in DOMAIN settings.signatures :
                          SignaturePatternMatches(settings.signatures[j], c.image)}
           entries == {settings.signatures[k] : k \in matching}
<1>1. /\ object # None /\ Questions = {} /\ SettingsValid /\ SignedPod(object)
      /\ answer = signatures_validate(settings, object, heard)
  BY DEF ReviewInv, ConfigOK, ShapesOK, AnswerOK, Accepted, Answered, Validate, Shaped
<1>2. resource_spec(object) = object.spec /\ object.spec # None /\ c \in object.spec.containers
  BY <1>1 DEF ContainersOf, SignedPod, resource_spec
<1>3. /\ ~Traps(object) /\ all_verified(heard)
      /\ answer.object = set_spec(object, verify_all_images_in_pod(object.spec, heard))
  BY <1>1, <1>2 DEF signatures_validate, Answer, Accepted
<1>4. \A e \in object.spec.containers : e.image # None
  BY <1>2, <1>3 DEF Traps
<1>5. answer.object.spec.containers = {add_digest_if_not_present(heard, e) : e \in object.spec.containers}
  BY <1>1, <1>2, <1>3, <1>4, SignedShape
<1>6. PICK after \in answer.object.spec.containers : after = add_digest_if_not_present(heard, c)
  BY <1>2, <1>5
<1>7. /\ c = [field \in DOMAIN EmptyContainer |-> c[field]]
      /\ c.image = [registry |-> c.image.registry, path |-> c.image.path, tag |-> c.image.tag,
                    digest |-> c.image.digest]
  BY <1>1, <1>2, <1>4 DEF SignedPod, PodObject, ContainersOf, ImageName, WithDigest
<1>8. /\ [after EXCEPT !.image.digest = c.image.digest] = c
      /\ \E j \in HeardOf(heard, c) : heard[j].answer # Error /\ heard[j].answer = after.image.digest
  BY <1>1, <1>2, <1>3, <1>6, <1>7, DigestWasVerified
<1>9. PICK j \in HeardOf(heard, c) : heard[j].answer # Error /\ heard[j].answer = after.image.digest
  BY <1>8
<1> DEFINE q == heard[j].question
           signers == Calls(settings.signatures[q.entry])[q.call]
<1>10. j \in DOMAIN heard /\ q.container = c
  BY DEF HeardOf
<1>11. IsVerification(q)
  BY <1>9, <1>10, HeardWasVerified
<1>12. PICK v \in views : /\ signers # {} /\ heard[j].answer = Resolved(v, c.image)
                          /\ heard[j].answer \in DOMAIN v.signed /\ signers \subseteq v.signed[heard[j].answer]
  BY <1>9, <1>10, HeardWasVerified
<1>13. \A k \in DOMAIN settings.signatures : settings.signatures[k].signers \in Seq(STRING)
  BY <1>1, SignersAreStrings
<1>14. q.entry \in matching /\ q.call \in DOMAIN Calls(settings.signatures[q.entry])
  BY <1>10, <1>11 DEF IsVerification
<1>15. \E entry \in entries : v.signed[after.image.digest] \intersect Signers(entry) # {}
  <2>1. signers \subseteq Signers(settings.signatures[q.entry])
    BY <1>13, <1>14, CallsVerifySigners
  <2>2. settings.signatures[q.entry] \in entries
    BY <1>14
  <2> HIDE DEF entries, matching, signers, q
  <2> QED BY <1>9, <1>12, <2>1, <2>2
<1>16. ASSUME OneView, NEW k \in matching, NEW signer \in Signers(settings.signatures[k])
       PROVE  signer \in v.signed[after.image.digest]
  <2>1. PICK call \in DOMAIN Calls(settings.signatures[k]) : signer \in Calls(settings.signatures[k])[call]
    BY <1>13, CallsVerifySigners
  <2>2. EntryIsDone(settings, heard, c, k)
    BY <1>1, <1>2, <1>3, NothingLeftToAsk DEF ContainerIsDone
  <2>3. CallsLeft(settings, heard, c, k) = {}
    BY <1>3, <2>2 DEF EntryIsDone, HeardOf, all_verified
  <2>4. PICK l \in DOMAIN heard : heard[l].question = Verification(c, k, call)
    BY <2>1, <2>3 DEF CallsLeft
  <2>5. heard[l].answer # Error
    BY <1>3 DEF all_verified
  <2>6. PICK w \in views : /\ heard[l].answer = Resolved(w, c.image)
                           /\ Calls(settings.signatures[k])[call] \subseteq w.signed[heard[l].answer]
    <3>1. LET p == heard[l].question IN p.container = c /\ p.entry = k /\ p.call = call
      BY <2>4 DEF Verification
    <3>2. PICK w \in views :
            LET p == heard[l].question IN
            /\ heard[l].answer = Resolved(w, p.container.image)
            /\ Calls(settings.signatures[p.entry])[p.call] \subseteq w.signed[heard[l].answer]
      BY <1>1, <2>5, HeardWasVerified
    <3> QED BY <3>1, <3>2
  <2>7. w = v /\ heard[l].answer = after.image.digest
    BY <1>9, <1>12, <1>16, <2>6 DEF OneView
  <2> QED BY <2>1, <2>6, <2>7
<1>17. OneView => \A entry \in entries : Signers(entry) \subseteq v.signed[after.image.digest]
  BY <1>16
<1>18. after.image.digest \in DOMAIN v.signed
  BY <1>9, <1>12
<1> QED BY <1>8, <1>15, <1>17, <1>18

\* Whatever the entries of the settings, the registries and the moments at which the host
\* looks at them, an accepted image that some entry matches is stored with a digest that was
\* verified.
THEOREM ImagesAreVerified == Spec => []VerifiedImagesAreStored
<1>1. Init => OneOpen
  BY DEF Init, OneOpen, HeardOf
<1>2. Spec => [](ReviewInv /\ OneOpen)
  BY <1>1, OneOpenStep, ReviewCorrect, PTL DEF Spec
<1> QED BY <1>2, ImagesVerified, PTL

--------------------------------------------------------------------------------
\* image-cve asks for reports with the digest that the image had at some point of the review,
\* or by its name.
SelectorsOK ==
  policy = "image-cve" =>
    \A j \in DOMAIN heard :
      LET q == heard[j].question IN
      q.call = "reports" =>
        IF settings.strategy = "digest"
          THEN q.selector.digest # None /\ q.selector.digest \in DigestsOf(q.container.image)
          ELSE q.selector = IF q.container.image.digest # None THEN Selector(q.container.image, None)
                            ELSE TagSelector(settings, q.container.image)

\* What was heard of a container is the answer to some call.
LEMMA HeardIsAnswer ==
  ASSUME ReviewInv, NEW c, NEW call, Heard(heard, c, call) # None
  PROVE  \E j \in DOMAIN heard : /\ heard[j].question.container = c /\ heard[j].question.call = call
                                 /\ heard[j].answer = Heard(heard, c, call)
<1> DEFINE of == {j \in HeardOf(heard, c) : heard[j].question.call = call}
           last == CHOOSE j \in of : \A k \in of : k <= j
<1>1. of # {} /\ Heard(heard, c, call) = heard[last].answer
  BY DEF Heard
<1>2. PICK S : heard \in Seq(S)
  BY DEF ReviewInv, HeardOK
<1>3. DOMAIN heard = 1..Len(heard) /\ Len(heard) \in Nat
  BY <1>2
<1>4. of \subseteq DOMAIN heard
  BY DEF HeardOf
<1>5. \E j \in of : \A k \in of : k <= j
  <2> HIDE DEF of
  <2> QED BY <1>1, <1>3, <1>4, SomeIsLast
<1>6. last \in of
  BY <1>5
<1> HIDE DEF last
<1> QED BY <1>1, <1>6 DEF HeardOf

\* A digest that is known is one of those the registry had.
LEMMA DigestIsKnown ==
  ASSUME ReviewInv, policy = "image-cve", NEW c,
         get_image_digest(settings, heard, c) \notin {None, Error}
  PROVE  get_image_digest(settings, heard, c) \in DigestsOf(c.image)
<1> DEFINE manifest == Heard(heard, c, "manifest")
           digest == get_image_digest(settings, heard, c)
<1>1. CASE c.image.digest # None
  BY <1>1 DEF get_image_digest, DigestsOf
<1>2. CASE c.image.digest = None
  <2>1. manifest \notin {None, Error}
    BY <1>2 DEF get_image_digest
  <2>2. ASSUME NEW call \in {"manifest", "digest"}, Heard(heard, c, call) \notin {None, Error}
        PROVE  \E v \in views : /\ InRegistry(v, c.image)
                                /\ call = "manifest" => Heard(heard, c, call) = v.registry[Named(c.image)]
                                /\ call = "digest" => Heard(heard, c, call) = v.registry[Named(c.image)].digest
    <3>1. PICK j \in DOMAIN heard : /\ heard[j].question.container = c /\ heard[j].question.call = call
                                    /\ heard[j].answer = Heard(heard, c, call)
      BY <2>2, HeardIsAnswer
    <3>2. PICK v \in views : heard[j].answer \in AnswersOf(v, heard[j].question)
      BY <2>2, <3>1 DEF ReviewInv, HeardOK
    <3>3. heard[j].answer \in cve_answers(settings, v, object, heard[j].question)
      BY <3>2 DEF AnswersOf
    <3>4. /\ InRegistry(v, c.image)
          /\ heard[j].answer = IF call = "manifest" THEN v.registry[Named(c.image)]
                               ELSE v.registry[Named(c.image)].digest
      BY <2>2, <3>1, <3>3 DEF cve_answers
    <3> QED BY <3>1, <3>4
  <2>3. PICK v \in views : InRegistry(v, c.image) /\ manifest = v.registry[Named(c.image)]
    BY <2>1, <2>2
  <2>4. CASE manifest.platforms = None
    <3>1. digest = Heard(heard, c, "digest")
      BY <1>2, <2>1, <2>4 DEF get_image_digest
    <3>2. PICK w \in views : InRegistry(w, c.image) /\ digest = w.registry[Named(c.image)].digest
      BY <2>2, <3>1
    <3> DEFINE entry == w.registry[Named(c.image)]
               digests == {entry.digest} \union
                            (IF entry.platforms = None THEN {}
                             ELSE {entry.platforms[p] : p \in DOMAIN entry.platforms})
    <3>3. digests \subseteq DigestsOf(c.image)
      BY <1>2, <3>2 DEF DigestsOf
    <3> QED BY <3>2, <3>3
  <2>5. CASE manifest.platforms # None
    <3>1. platform(settings) \in DOMAIN manifest.platforms /\ digest = manifest.platforms[platform(settings)]
      BY <1>2, <2>1, <2>5 DEF get_image_digest
    <3> DEFINE entry == v.registry[Named(c.image)]
               digests == {entry.digest} \union (IF entry.platforms = None THEN {}
                                                 ELSE {entry.platforms[p] : p \in DOMAIN entry.platforms})
    <3>2. digest \in digests
      BY <2>3, <2>5, <3>1
    <3>3. digests \subseteq DigestsOf(c.image)
      <4> HIDE DEF digest
      <4> QED BY <1>2, <2>3 DEF DigestsOf
    <3> HIDE DEF digests
    <3> QED BY <3>2, <3>3
  <2> QED BY <2>4, <2>5
<1> QED BY <1>1, <1>2

\* What is asked for next
LEMMA AskedReports ==
  ASSUME ReviewInv, policy = "image-cve", NEW q \in Questions, q.call = "reports"
  PROVE  IF settings.strategy = "digest"
           THEN q.selector.digest # None /\ q.selector.digest \in DigestsOf(q.container.image)
           ELSE q.selector = IF q.container.image.digest # None THEN Selector(q.container.image, None)
                             ELSE TagSelector(settings, q.container.image)
<1>1. PICK c : q \in image_questions(settings, heard, c)
  BY DEF Questions, cve_questions
<1> DEFINE selector == report_selector(settings, heard, c)
<1>2. /\ q.container = c /\ q.selector = selector
      /\ selector.digest # Error /\ selector # Selector(None, None)
  BY <1>1 DEF image_questions
<1>3. CASE settings.strategy = "digest"
  <2>1. selector = Selector(get_image_digest(settings, heard, c), None)
    BY <1>3 DEF report_selector
  <2>2. selector.digest = get_image_digest(settings, heard, c)
    BY <2>1 DEF Selector
  <2> QED BY <1>2, <1>3, <2>1, <2>2, DigestIsKnown
<1> QED BY <1>2, <1>3 DEF report_selector

LEMMA SelectorsStep == ReviewInv /\ SelectorsOK /\ [Next]_vars => SelectorsOK'
<1> SUFFICES ASSUME ReviewInv, SelectorsOK, [Next]_vars PROVE SelectorsOK'
  OBVIOUS
<1>1. ASSUME views \subseteq views', NEW image PROVE DigestsOf(image) \subseteq DigestsOf(image)'
  BY <1>1 DEF DigestsOf
<1>2. CASE \E q \in Questions : Reviewing /\ Ask(q)
  <2> SUFFICES ASSUME policy = "image-cve" PROVE SelectorsOK'
    BY <1>2 DEF SelectorsOK, Ask, config
  <2>1. PICK q \in Questions : Ask(q)
    BY <1>2
  <2>2. PICK reply : reply.question = q /\ heard' = Append(heard, reply)
    BY <2>1 DEF Ask
  <2>3. UNCHANGED <<policy, settings, views>>
    BY <2>1 DEF Ask, config
  <2>4. PICK S : heard \in Seq(S)
    BY DEF ReviewInv, HeardOK
  <2>5. /\ \A j \in DOMAIN heard : heard'[j] = heard[j]
        /\ \A j \in DOMAIN heard' \ DOMAIN heard : heard'[j] = reply
    BY <2>2, <2>4, HeardGrows
  <2>6. \A image : DigestsOf(image)' = DigestsOf(image)
    BY <2>3 DEF DigestsOf
  <2> QED BY <2>2, <2>3, <2>5, <2>6, AskedReports DEF SelectorsOK
<1>3. CASE UNCHANGED <<policy, settings, heard>> /\ views \subseteq views'
  BY <1>1, <1>3 DEF SelectorsOK
<1>4. CASE heard' = <<>>
  BY <1>4 DEF SelectorsOK
<1>5. (\E o \in Scenarios[policy].objects \union stored : Submit(o)) \/ Store => heard' = <<>>
  BY DEF Submit, Store, ReviewInv, HeardOK
<1>6. See /\ UNCHANGED object => views \subseteq views' \/ object' = None
  BY DEF See
<1>7. object = None => heard = <<>>
  BY DEF ReviewInv, HeardOK
<1> QED BY <1>2, <1>3, <1>4, <1>5, <1>6, <1>7
        DEF Next, vars, Load, Decide, Move, Recount, Refresh, config, review

\* Every image was looked at, and its report was not refused.
LEMMA EveryImageHasReport ==
  ASSUME ReviewInv, policy = "image-cve", object \in ObjectsOf("image-cve"),
         Questions = {}, ~settings.ignore_missing,
         cve_validate(settings, object, heard), NEW c \in ContainersOf(object)
  PROVE  /\ Heard(heard, c, "reports") \notin {None, Error, {}}
         /\ verify_vulnerability_report(settings, CHOOSE report \in Heard(heard, c, "reports") : TRUE) = None
         /\ c.image # None
<1> DEFINE containers == resource_spec(object).containers
           open == {d \in containers : image_questions(settings, heard, d) # {}}
           begun == {d \in open : \E i \in DOMAIN heard : heard[i].question.container = d}
           refused == {e.image : e \in {d \in containers \ open : verify_container_image(settings, heard, d) # None}}
           asked == {d \in (IF begun = {} THEN open ELSE begun) : d.image \notin refused}
<1>1. settings \in SettingsOf("image-cve") /\ settings.strategy \in {"digest", "tag"}
  BY SettingsAssumption DEF ReviewInv, ConfigOK
<1>2. object.spec # None /\ c \in object.spec.containers /\ resource_spec(object) = object.spec
  BY <1>1, ObjectsAssumption DEF ContainersOf, resource_spec
<1>3. ~Traps(object) /\ image_validation_errors(settings, object, heard) = {}
  BY <1>1, <1>2 DEF cve_validate
<1>4. \A d \in containers : image_questions(settings, heard, d) = {} => verify_container_image(settings, heard, d) = None
  BY <1>3 DEF image_validation_errors
<1>5. refused = {}
  BY <1>4
<1>6. \A d \in asked : image_questions(settings, heard, d) = {}
  <2>1. UNION {image_questions(settings, heard, d) : d \in asked} = {}
    BY <1>2, <1>3 DEF Questions, cve_questions
  <2> HIDE DEF asked
  <2> QED BY <2>1
<1>7. open = {}
  <2>1. begun \subseteq open /\ \A d \in open : image_questions(settings, heard, d) # {}
    OBVIOUS
  <2>2. asked = IF begun = {} THEN open ELSE begun
    <3> HIDE DEF refused, open, begun
    <3> QED BY <1>5
  <2> HIDE DEF asked, open, begun
  <2> QED BY <1>6, <2>1, <2>2
<1>8. image_questions(settings, heard, c) = {} /\ verify_container_image(settings, heard, c) = None
  BY <1>2, <1>4, <1>7
<1>9. c.image # None
  BY <1>2, <1>3 DEF Traps
<1>10. c.image # Error /\ None # Error /\ None \notin ImageValidationError
  BY <1>1, NoneAssumption, ObjectsAssumption
<1> DEFINE selector == report_selector(settings, heard, c)
<1>11. Parses(c.image)
  <2>1. settings.strategy = "digest" => get_image_digest(settings, heard, c) # Error
    BY <1>8, <1>10 DEF verify_container_image, ImageValidationError
  <2>2. settings.strategy = "tag" => Parses(c.image)
    BY <1>8, <1>10 DEF verify_container_image, ImageValidationError
  <2> QED BY <1>1, <2>1, <2>2 DEF get_image_digest
<1>12. selector.digest # Error
  <2>1. settings.strategy = "digest" => get_image_digest(settings, heard, c) # Error
    BY <1>8, <1>10 DEF verify_container_image, ImageValidationError
  <2> QED BY <1>10, <2>1 DEF report_selector, TagSelector, Selector
<1>13. Heard(heard, c, "reports") # None
  BY <1>8, <1>11, <1>12 DEF image_questions
<1>14. process_vulnerability_report(settings, Heard(heard, c, "reports")) = None
  BY <1>1, <1>8, <1>10, <1>11 DEF verify_container_image, ImageValidationError
<1> QED BY <1>9, <1>10, <1>13, <1>14 DEF process_vulnerability_report, ImageValidationError

\* The report that was used is one the policy could see, of the image and in its namespace.
LEMMA ReportIsOfImage ==
  ASSUME ReviewInv, SelectorsOK, policy = "image-cve", object \in ObjectsOf("image-cve"),
         NEW c \in ContainersOf(object), c.image # None,
         Heard(heard, c, "reports") \notin {None, Error, {}}
  PROVE  \E v \in views : \E report \in v.reports :
           /\ Heard(heard, c, "reports") = {report}
           /\ report.namespace = namespace(settings, object)
           /\ IF settings.strategy = "digest" THEN report.digest \in DigestsOf(c.image)
              ELSE report.name.path = reference(c.image).path
<1> DEFINE reports == Heard(heard, c, "reports")
<1>1. PICK j \in DOMAIN heard : /\ heard[j].question.container = c /\ heard[j].question.call = "reports"
                                /\ heard[j].answer = reports
  BY HeardIsAnswer
<1> DEFINE q == heard[j].question
<1>2. PICK v \in views : reports \in cve_answers(settings, v, object, q)
  BY <1>1 DEF ReviewInv, HeardOK, AnswersOf
<1>3. PICK report \in v.reports : /\ reports = {report} /\ report.namespace = namespace(settings, object)
                                  /\ q.selector.digest \in {None, report.digest}
                                  /\ q.selector.name \in {None, report.name}
  BY <1>1, <1>2 DEF cve_answers
<1>4. v \in ClustersOf("image-cve") /\ settings \in SettingsOf("image-cve")
  BY DEF ReviewInv, ViewsOK, ConfigOK
<1>5. CASE settings.strategy = "digest"
  BY <1>1, <1>2, <1>3, <1>5 DEF SelectorsOK
<1>6. CASE settings.strategy # "digest"
  <2>1. q.selector = IF c.image.digest # None THEN Selector(c.image, None) ELSE TagSelector(settings, c.image)
    BY <1>1, <1>6 DEF SelectorsOK
  <2>2. c.image.digest = None
    <3>1. report.digest # c.image
      BY <1>4, ReportsAssumption
    <3> QED BY <1>3, <2>1, <3>1 DEF Selector
  <2>3. q.selector.name # None
    BY <1>4, <2>1, <2>2, ObjectsAssumption
  <2>4. report.name = q.selector.name
    BY <1>3, <2>3
  <2>5. q.selector.name.path = reference(c.image).path
    BY <2>1, <2>2 DEF TagSelector, Selector
  <2> QED BY <1>2, <1>3, <1>6, <2>4, <2>5
<1> QED BY <1>5, <1>6

\* A report that is not refused has no vulnerability that is denied, and no more of a kind
\* than the limits allow.
LEMMA AcceptedReportIsHarmless ==
  ASSUME policy = "image-cve", settings \in SettingsOf("image-cve"), cve_settings_valid(settings),
         NEW report, IsFiniteSet(found(report)), verify_vulnerability_report(settings, report) = None
  PROVE  Harmless(report)
<1> DEFINE v(p) == at(report, p)
           counted == {p \in found(report) : /\ v(p).cve \notin settings.allow_always
                                             /\ v(p).suppressed => settings.ignore_vex_status}
           scored == {p \in counted : /\ v(p).cvss # None /\ "nvd" \in DOMAIN v(p).cvss
                                      /\ v(p).cvss["nvd"].v3_score # None
                                      /\ v(p).cvss["nvd"].v3_score >= settings.cvss_score.threshold}
           all(severity) == {p \in counted : v(p).severity = severity}
           unfixed(severity) == {p \in all(severity) : v(p).fixed_versions \in {None, {}}}
<1>1. /\ vulnerabilities_ids(report) \intersect settings.deny_always = {}
      /\ settings.cvss_score # None =>
           ~(count_vulnerabilities_with_cvss_above_threshold(settings, report) > settings.cvss_score.max_count)
      /\ settings.max_severity # None /\ is_configured(settings.max_severity) =>
           ~has_violations(violation_stats(settings, report))
  BY NoneAssumption DEF verify_vulnerability_report, ImageValidationError
<1>2. \A p \in found(report) : v(p).cve \notin settings.deny_always
  BY <1>1 DEF vulnerabilities_ids
<1>3. \A p \in counted : p \in found(report) /\ considered(settings, v(p))
  BY DEF considered
<1>4. ASSUME settings.cvss_score # None PROVE Cardinality(scored) <= settings.cvss_score.max_count
  <2> DEFINE above == {p \in found(report) : /\ considered(settings, v(p)) /\ cvss_score(v(p)) # None
                                             /\ cvss_score(v(p)) >= settings.cvss_score.threshold}
  <2>1. ASSUME NEW p \in scored PROVE p \in above
    <3>1. cvss_score(v(p)) = v(p).cvss["nvd"].v3_score
      <4> DEFINE preferred == <<"nvd", "redhat", "ghsa", "bitnami">>
                 known == {i \in 1..4 : preferred[i] \in DOMAIN v(p).cvss}
                 first == CHOOSE i \in known : \A j \in known : i <= j
      <4>1. 1 \in known /\ \A j \in known : 1 <= j
        OBVIOUS
      <4>2. first = 1
        <5>1. first \in known /\ \A j \in known : first <= j
          BY <4>1
        <5> QED BY <4>1, <5>1
      <4>3. preferred[first] = "nvd"
        BY <4>2
      <4> QED BY <4>1, <4>3 DEF cvss_score
    <3> QED BY <1>3, <3>1
  <2>2. count_vulnerabilities_with_cvss_above_threshold(settings, report) = Cardinality(above)
    BY DEF count_vulnerabilities_with_cvss_above_threshold
  <2>3. IsFiniteSet(above)
    BY FS_Subset
  <2> HIDE DEF above, scored
  <2>4. Cardinality(scored) <= Cardinality(above) /\ Cardinality(above) \in Nat /\ Cardinality(scored) \in Nat
    <3>1. scored \in SUBSET above
      BY <2>1
    <3> QED BY <2>3, <3>1, FS_Subset, FS_CardinalityType
  <2>5. settings.cvss_score.max_count \in Nat
    BY <1>4, SettingsAssumption
  <2> QED BY <1>1, <1>4, <2>2, <2>4, <2>5
<1>5. ASSUME settings.max_severity # None, NEW severity \in Severity, settings.max_severity[severity] # None
      PROVE  LET limit == settings.max_severity[severity] IN
             /\ limit.total # None => Cardinality(all(severity)) <= limit.total
             /\ limit.totalWithoutFixes # None => Cardinality(unfixed(severity)) <= limit.totalWithoutFixes
  <2> DEFINE limit == settings.max_severity[severity]
             with == find_vulnerabilities(settings, report, severity, TRUE)
             without == find_vulnerabilities(settings, report, severity, FALSE)
  <2>1. all(severity) = with \union without /\ with \intersect without = {} /\ unfixed(severity) = without
    BY DEF find_vulnerabilities, considered, has_fix
  <2>2. with \in SUBSET found(report) /\ without \in SUBSET found(report)
    BY DEF find_vulnerabilities
  <2>3. find_violation(limit, with, without) = {}
    <3>1. is_configured(settings.max_severity)
      BY <1>5 DEF is_configured
    <3>2. violation_stats(settings, report)[severity] = {}
      BY <1>1, <1>5, <3>1 DEF has_violations
    <3> QED BY <3>2 DEF violation_stats
  <2>4. (limit.total = None) # (limit.totalWithoutFixes = None)
    BY <1>5 DEF cve_settings_valid, severity_count_valid
  <2>5. {limit.total, limit.totalWithoutFixes} \subseteq Nat \union {None}
    BY <1>5, SettingsAssumption
  <2> HIDE DEF limit, with, without, all, unfixed
  <2>6. /\ Cardinality(with) \in Nat /\ Cardinality(without) \in Nat
        /\ Cardinality(all(severity)) = Cardinality(with) + Cardinality(without)
    <3>1. IsFiniteSet(with) /\ IsFiniteSet(without)
      BY <2>2, FS_Subset
    <3>2. Cardinality(with \union without) = Cardinality(with) + Cardinality(without) - Cardinality({})
      BY <2>1, <3>1, FS_Union
    <3> QED BY <2>1, <3>1, <3>2, FS_CardinalityType, FS_EmptySet
  <2>7. limit.total # None => ~(Cardinality(with) + Cardinality(without) > limit.total)
    BY <1>5, <2>3 DEF find_violation, limit
  <2>8. limit.total = None => ~(Cardinality(without) > limit.totalWithoutFixes)
    BY <1>5, <2>3 DEF find_violation, limit
  <2> QED BY <2>1, <2>4, <2>5, <2>6, <2>7, <2>8 DEF limit
<1> QED BY <1>2, <1>4, <1>5 DEF Harmless

LEMMA ReportsChecked == ReviewInv /\ SelectorsOK => VulnerableImagesAreRejected
<1> SUFFICES ASSUME ReviewInv, SelectorsOK, Accepted, policy = "image-cve", ~settings.ignore_missing,
                    NEW c \in ContainersOf(object)
             PROVE  \E v \in views : \E report \in v.reports :
                      /\ report.namespace = namespace(settings, object)
                      /\ IF settings.strategy = "digest" THEN report.digest \in DigestsOf(c.image)
                         ELSE report.name.path = reference(c.image).path
                      /\ Harmless(report)
  BY DEF VulnerableImagesAreRejected
<1>1. /\ object \in ObjectsOf("image-cve") /\ settings \in SettingsOf("image-cve")
      /\ Questions = {} /\ cve_settings_valid(settings) /\ views \subseteq ClustersOf("image-cve")
  BY DEF ReviewInv, ConfigOK, ShapesOK, ViewsOK, AnswerOK, Accepted, Answered, Shaped, SettingsValid
<1>2. cve_validate(settings, object, heard)
  BY DEF ReviewInv, AnswerOK, Accepted, Answered, Validate, Accepts, Answer
<1>3. /\ Heard(heard, c, "reports") \notin {None, Error, {}}
      /\ verify_vulnerability_report(settings, CHOOSE report \in Heard(heard, c, "reports") : TRUE) = None
      /\ c.image # None
  BY <1>1, <1>2, EveryImageHasReport
<1>4. PICK v \in views : \E report \in v.reports :
           /\ Heard(heard, c, "reports") = {report}
           /\ report.namespace = namespace(settings, object)
           /\ IF settings.strategy = "digest" THEN report.digest \in DigestsOf(c.image)
              ELSE report.name.path = reference(c.image).path
  BY <1>1, <1>3, ReportIsOfImage
<1>5. PICK report \in v.reports :
           /\ Heard(heard, c, "reports") = {report}
           /\ report.namespace = namespace(settings, object)
           /\ IF settings.strategy = "digest" THEN report.digest \in DigestsOf(c.image)
              ELSE report.name.path = reference(c.image).path
  BY <1>4
<1>6. (CHOOSE r \in Heard(heard, c, "reports") : TRUE) = report
  BY <1>5
<1>7. IsFiniteSet(found(report))
  BY <1>1, ReportsAssumption
<1>8. Harmless(report)
  BY <1>1, <1>3, <1>6, <1>7, AcceptedReportIsHarmless
<1> QED BY <1>5, <1>8

\* Whatever the images, the limits and the reports, and however tags move while the policy
\* asks: unless missing reports are ignored, every image of an accepted pod had a report that
\* the limits allow.
THEOREM VulnerableRejected == Spec => []VulnerableImagesAreRejected
<1>1. Init => SelectorsOK
  BY DEF Init, SelectorsOK
<1>2. Spec => [](ReviewInv /\ SelectorsOK)
  BY <1>1, SelectorsStep, ReviewCorrect, PTL DEF Spec
<1> QED BY <1>2, ReportsChecked, PTL

--------------------------------------------------------------------------------
\* rancher-project-quotas.  A Namespace adds what it may use itself.
LEMMA UnitsAdd ==
  ASSUME NEW S, NEW o, NEW r, Amount(o.limits[r]) \in Nat, IsFiniteSet(Units(S, r))
  PROVE  /\ IsFiniteSet(Units(S \union {o}, r))
         /\ Used(S, r) \in Nat /\ Used(S \union {o}, r) \in Nat
         /\ Used(S \union {o}, r) <= Used(S, r) + Amount(o.limits[r])
         /\ ~parseProjectIDAnnotation(o) => Used(S \union {o}, r) = Used(S, r)
<1> DEFINE own == {o} \X (1..Amount(o.limits[r]))
<1>1. /\ parseProjectIDAnnotation(o) => Units(S \union {o}, r) = Units(S, r) \union own
      /\ ~parseProjectIDAnnotation(o) => Units(S \union {o}, r) = Units(S, r)
  BY DEF Units
<1>2. IsFiniteSet(own) /\ Cardinality(own) = Amount(o.limits[r])
  <2>1. IsFiniteSet({o}) /\ Cardinality({o}) = 1
    BY FS_Singleton
  <2>2. IsFiniteSet(1..Amount(o.limits[r])) /\ Cardinality(1..Amount(o.limits[r])) = Amount(o.limits[r])
    BY FS_Interval
  <2>3. IsFiniteSet(own) /\ Cardinality(own) = Cardinality({o}) * Cardinality(1..Amount(o.limits[r]))
    BY <2>1, <2>2, FS_Product
  <2> QED BY <2>1, <2>2, <2>3
<1> HIDE DEF own
<1>3. /\ IsFiniteSet(Units(S, r) \union own)
      /\ Cardinality(Units(S, r) \union own) =
           Cardinality(Units(S, r)) + Cardinality(own) - Cardinality(Units(S, r) \intersect own)
  BY <1>2, FS_Union
<1>4. Cardinality(Units(S, r) \intersect own) \in Nat /\ Cardinality(Units(S, r)) \in Nat
  <2>1. IsFiniteSet(Units(S, r) \intersect own)
    BY <1>2, FS_Subset
  <2> QED BY <2>1, FS_CardinalityType
<1>5. Cardinality(Units(S, r) \union own) \in Nat
  BY <1>3, FS_CardinalityType
<1>6. CASE parseProjectIDAnnotation(o)
  <2>1. /\ Used(S, r) = Cardinality(Units(S, r))
        /\ Used(S \union {o}, r) = Cardinality(Units(S, r) \union own)
    BY <1>1, <1>6 DEF Used
  <2>2. IsFiniteSet(Units(S \union {o}, r))
    BY <1>1, <1>3, <1>6
  <2> QED BY <1>2, <1>3, <1>4, <1>5, <1>6, <2>1, <2>2
<1>7. CASE ~parseProjectIDAnnotation(o)
  BY <1>1, <1>4, <1>7 DEF Used
<1> QED BY <1>6, <1>7

\* The limits that a project may get
Limits == {c.quota.limit : c \in {d \in ClustersOf("project-quotas") : d.quota # None}}

QuotaInv ==
  policy = "project-quotas" =>
    /\ cluster = [quota |-> cluster.quota]
    /\ cluster.quota # None =>
         /\ cluster.quota = [limit |-> cluster.quota.limit, used |-> cluster.quota.used]
         /\ cluster.quota.limit \in Limits
    /\ \A limit \in Limits : \A r \in DOMAIN limit : IsFiniteSet(Units(stored, r))
    /\ QuotaKept

LEMMA LimitsAreNumbers ==
  ASSUME NEW limit \in Limits, NEW r \in DOMAIN limit
  PROVE  Amount(limit[r]) \in Nat /\ \A o \in ObjectsOf("project-quotas") : Amount(o.limits[r]) \in Nat
<1>1. PICK c \in ClustersOf("project-quotas") : c.quota # None /\ limit = c.quota.limit
  BY DEF Limits
<1> QED BY <1>1, QuotasAssumption, ObjectsAssumption

LEMMA QuotaInit == Init => QuotaInv
<1> SUFFICES ASSUME Init, policy = "project-quotas" PROVE QuotaInv
  BY DEF QuotaInv
<1>1. cluster \in ClustersOf("project-quotas") /\ stored = {}
  BY DEF Init, ClustersOf
<1>2. cluster.quota # None => cluster.quota.limit \in Limits
  BY <1>1 DEF Limits
<1>3. \A r : Units({}, r) = {}
  BY DEF Units
<1>4. \A r : IsFiniteSet(Units({}, r)) /\ Used({}, r) = 0
  BY <1>3, FS_EmptySet DEF Used
<1>5. QuotaKept
  <2> SUFFICES ASSUME cluster.quota # None, NEW r \in DOMAIN cluster.quota.limit
               PROVE  0 <= Amount(cluster.quota.limit[r])
    BY <1>1, <1>4 DEF QuotaKept, WithinQuota
  <2> QED BY <1>2, LimitsAreNumbers
<1> QED BY <1>1, <1>2, <1>4, <1>5, QuotasAssumption DEF QuotaInv

\* A Namespace that is stored on numbers that were current keeps the quota.
LEMMA QuotaStore ==
  ASSUME ReviewInv, QuotaInv, Store, policy = "project-quotas" PROVE QuotaInv'
<1>1. /\ answer # None /\ UNCHANGED <<policy, cluster>>
      /\ stored' = IF answer.allowed THEN stored \union {answer.object} ELSE stored
      /\ outdated' = (outdated \/ (answer.allowed /\ ~QuotaIsCurrent))
  BY DEF Store, config
<1>2. object \in ObjectsOf("project-quotas") /\ answer = Answer(quotas_validate(object, heard), object)
  BY <1>1 DEF ReviewInv, AnswerOK, ShapesOK, Shaped, Validate, Accepts
<1>3. answer.object = object /\ answer.allowed = quotas_validate(object, heard)
  BY <1>2 DEF Answer
<1>4. CASE ~answer.allowed
  BY <1>1, <1>4 DEF QuotaInv, QuotaKept, WithinQuota
<1>5. CASE answer.allowed
  <2>1. stored' = stored \union {object}
    BY <1>1, <1>3, <1>5
  <2>2. ASSUME NEW limit \in Limits, NEW r \in DOMAIN limit
        PROVE  /\ IsFiniteSet(Units(stored', r))
               /\ Amount(limit[r]) \in Nat /\ Amount(object.limits[r]) \in Nat
               /\ Used(stored, r) \in Nat /\ Used(stored', r) \in Nat
               /\ Used(stored', r) <= Used(stored, r) + Amount(object.limits[r])
               /\ ~parseProjectIDAnnotation(object) => Used(stored', r) = Used(stored, r)
    <3>1. IsFiniteSet(Units(stored, r))
      BY DEF QuotaInv
    <3>2. Amount(object.limits[r]) \in Nat /\ Amount(limit[r]) \in Nat
      BY <1>2, LimitsAreNumbers
    <3> QED BY <2>1, <3>1, <3>2, UnitsAdd
  <2>3. ASSUME ~outdated', cluster.quota # None, NEW r \in DOMAIN cluster.quota.limit
        PROVE  Used(stored', r) <= Amount(cluster.quota.limit[r])
    <3>1. cluster.quota.limit \in Limits
      BY <2>3 DEF QuotaInv
    <3>2. Used(stored, r) <= Amount(cluster.quota.limit[r])
      BY <1>1, <2>3 DEF QuotaInv, QuotaKept, WithinQuota
    <3>3. CASE ~parseProjectIDAnnotation(object)
      BY <2>2, <3>1, <3>2, <3>3
    <3>4. CASE parseProjectIDAnnotation(object)
      <4>1. Read(heard) = cluster /\ cluster.quota.used = Usage(stored, cluster.quota)
        BY <1>1, <1>5, <2>3, <3>4 DEF QuotaIsCurrent
      <4>2. object.project # None
        BY <3>4 DEF parseProjectIDAnnotation, NamesProject
      <4>3. Amount(object.limits[r]) <= Amount(cluster.quota.limit[r]) - Amount(cluster.quota.used[r])
        BY <1>3, <1>5, <2>3, <4>1, <4>2
           DEF quotas_validate, validateQuotas, checkLimitVsAvailableQuota
      <4>4. cluster.quota.used[r] = Used(stored, r)
        BY <2>3, <4>1 DEF Usage
      <4>5. Amount(cluster.quota.used[r]) = Used(stored, r)
        BY <2>2, <3>1, <4>4, NoneAssumption DEF Amount
      <4> QED BY <2>2, <3>1, <4>3, <4>5
    <3> QED BY <3>3, <3>4
  <2>4. QuotaKept'
    BY <1>1, <2>3 DEF QuotaKept, WithinQuota
  <2> QED BY <1>1, <2>2, <2>4 DEF QuotaInv
<1> QED BY <1>4, <1>5

LEMMA QuotaMove ==
  ASSUME QuotaInv, policy = "project-quotas", NEW c \in Scenarios[policy].clusters, Move(c), policy \in Policy
  PROVE  QuotaInv'
<1>1. /\ UNCHANGED <<policy, stored>> /\ c.quota # None
      /\ cluster' = [c EXCEPT !.quota.used = cluster.quota.used]
      /\ outdated' = (outdated \/ ~WithinQuota(stored, c.quota))
  BY DEF Move, config
<1>2. c \in ClustersOf("project-quotas")
  BY DEF ClustersOf
<1>3. c.quota.limit \in Limits
  BY <1>1, <1>2 DEF Limits
<1>4. PICK used : used = cluster.quota.used
  OBVIOUS
<1>5. c = [quota |-> c.quota] /\ c.quota = [limit |-> c.quota.limit, used |-> c.quota.used]
  BY <1>1, <1>2, QuotasAssumption
<1>6. [c EXCEPT !.quota.used = used] = [quota |-> [limit |-> c.quota.limit, used |-> used]]
  BY <1>5
<1>7. cluster' = [quota |-> [limit |-> c.quota.limit, used |-> used]]
  BY <1>1, <1>4, <1>6
<1>8. ~outdated' => WithinQuota(stored, c.quota)
  BY <1>1
<1>9. QuotaKept'
  BY <1>1, <1>7, <1>8 DEF QuotaKept, WithinQuota
<1>10. /\ cluster' = [quota |-> cluster.quota']
       /\ cluster.quota' = [limit |-> cluster.quota.limit', used |-> cluster.quota.used']
       /\ cluster.quota.limit' \in Limits
  BY <1>3, <1>7
<1>11. \A limit \in Limits : \A r \in DOMAIN limit : IsFiniteSet(Units(stored', r))
  BY <1>1 DEF QuotaInv
<1> QED BY <1>9, <1>10, <1>11 DEF QuotaInv

LEMMA QuotaStep == ReviewInv /\ QuotaInv /\ [Next]_vars => QuotaInv'
<1> SUFFICES ASSUME ReviewInv, QuotaInv, [Next]_vars, policy' = "project-quotas" PROVE QuotaInv'
  BY DEF QuotaInv
<1>1. UNCHANGED policy /\ policy = "project-quotas"
  BY DEF Next, vars, Load, Submit, Ask, Decide, Store, Move, Recount, Refresh, config
<1>2. CASE UNCHANGED <<cluster, stored, outdated>>
  BY <1>1, <1>2 DEF QuotaInv, QuotaKept, WithinQuota
<1>3. CASE Store
  BY <1>1, <1>3, QuotaStore
<1>4. CASE \E c \in Scenarios[policy].clusters : Move(c)
  BY <1>1, <1>4, QuotaMove DEF ReviewInv, ConfigOK
<1>5. CASE Recount
  <2>1. /\ UNCHANGED <<policy, stored, outdated>> /\ cluster.quota # None
        /\ cluster' = [cluster EXCEPT !.quota.used = Usage(stored, cluster.quota)]
    BY <1>5 DEF Recount, config
  <2>2. PICK used : used = Usage(stored, cluster.quota)
    OBVIOUS
  <2>3. cluster = [quota |-> cluster.quota]
        /\ cluster.quota = [limit |-> cluster.quota.limit, used |-> cluster.quota.used]
    BY <1>1, <2>1 DEF QuotaInv
  <2>4. [cluster EXCEPT !.quota.used = used] = [quota |-> [limit |-> cluster.quota.limit, used |-> used]]
    BY <2>3
  <2>5. cluster' = [quota |-> [limit |-> cluster.quota.limit, used |-> used]]
    BY <2>1, <2>2, <2>4
  <2> QED BY <1>1, <2>1, <2>5 DEF QuotaInv, QuotaKept, WithinQuota
<1> QED BY <1>2, <1>3, <1>4, <1>5 DEF Next, vars, Load, Submit, Ask, Decide, Refresh, config, review

\* Whatever the limits and the Namespaces: a quota is only exceeded after a Namespace was
\* stored on numbers that were out of date, or limits were lowered below what was stored.
THEOREM QuotasAreKept == Spec => []QuotaKept
<1>1. QuotaInv => QuotaKept
  BY DEF QuotaInv, QuotaKept
<1> QED BY <1>1, QuotaInit, QuotaStep, ReviewCorrect, PTL DEF Spec

--------------------------------------------------------------------------------
\* The policies that change objects, of one they change no more, in the cluster as it is: the
\* images of a container are signed, and named with the digest that is.
SettledImage(c) ==
  \A i \in DOMAIN settings.signatures :
    /\ SignaturePatternMatches(settings.signatures[i], c.image)
    /\ settings.signatures[i].glob \/ c.image.digest = None
    => \A call \in DOMAIN Calls(settings.signatures[i]) :
         LET digest == verify(settings, cluster, Verification(c, i, call)) IN
         digest # Error /\ (settings.modify_images_with_digest => digest = c.image.digest)

SettledContainer(c) ==
  \/ shouldSkipContainer(c.image, settings.ignoreImages)
  \/ validateAndAdjustContainer(c, settings) /\ adjusted(c, settings) = c

Settled(o) ==
  /\ policy = "verify-image-signatures" /\ resource_spec(o) # None =>
       \A c \in o.spec.containers : c.image # None /\ SettledImage(c)
  /\ policy = "project-labels" =>
       \/ o.project = None
       \/ NamesProject(o) /\ o.project[1] # "local" /\ settings.downstream_cluster_failure_mode = "Ignore"
       \/ NamesProject(o) /\ o.project[1] = "local" /\ o.labels = merge_labels(cluster.labels, o.labels)
  /\ policy = "namespace-labels" =>
       LET propagated == labelsToPropagate(settings, cluster.labels) IN
       /\ o.kind \in PodKinds /\ o.labels = merge_labels(propagated, o.labels)
       /\ o.kind # "Pod" => o.template = merge_labels(propagated, o.template)
  /\ policy = "context-aware-demo" => IsPod(o) /\ o.labels = merge_labels(cluster.annotations, o.labels)
  /\ policy = "policyserver-mapper" =>
       cluster.policyServer # None /\ o.spec # None /\ o.spec.policyServer = cluster.policyServer
  /\ policy = "psa-label-enforcer" /\ o.kind = "Namespace" => o.labels = merge_labels(psa_labels(settings), o.labels)
  /\ policy = "storage-class" /\ o.kind = "PersistentVolumeClaim" =>
       is_allowed_class(settings, storage_class_name(o))
  /\ policy = "container-resources" => Extracted(o) /\ \A c \in o.containers : SettledContainer(c)

\* Before the cluster changes every review sees the same, and what was stored is settled.
SettledInv ==
  /\ moves \in Nat
  /\ moves = 0 /\ policy # "project-quotas" => cache = cluster /\ views \subseteq {cluster}
  /\ moves = 0 => \A o \in stored : Settled(o)

\* One view: what was heard is what the cluster holds.
LEMMA OnlyView ==
  ASSUME ReviewInv, Accepted, views \subseteq {cluster}, policy \in Readers, heard # <<>>,
         Read(heard) # Error
  PROVE  Read(heard) = cluster
  BY ReadIsSeen

\* No call failed, and the cache is the cluster: the same.
LEMMA ReadNow ==
  ASSUME ReviewInv, NoneFailed, cache = cluster, policy \in Readers
  PROVE  ~Failed(heard) /\ (heard # <<>> => Read(heard) = cluster /\ Read(heard) # Error)
<1>1. \A q : HostAnswers(q) = {cluster}
  BY DEF HostAnswers, Source, Readers
<1>2. cluster # Error
  BY ClustersAssumption DEF ReviewInv, ConfigOK, Readers
<1>3. \A i \in DOMAIN heard : heard[i].answer = cluster
  BY <1>1 DEF NoneFailed
<1>4. PICK S : heard \in Seq(S)
  BY DEF ReviewInv, HeardOK
<1>5. heard # <<>> => 1 \in DOMAIN heard
  BY <1>4
<1> QED BY <1>2, <1>3, <1>5 DEF Failed, Read

\* Labels that were merged once are merged.
LEMMA MergeSettles ==
  ASSUME NEW given, NEW labels, NEW merged, merged = merge_labels(given, labels)
  PROVE  merged = merge_labels(given, merged)
<1>1. DOMAIN merged = DOMAIN given \union DOMAIN labels
  BY DEF merge_labels
<1>2. DOMAIN given \union DOMAIN merged = DOMAIN merged
  BY <1>1
<1>3. merged = [k \in DOMAIN merged |-> IF k \in DOMAIN given THEN given[k] ELSE merged[k]]
  BY <1>1 DEF merge_labels
<1> QED BY <1>2, <1>3 DEF merge_labels

--------------------------------------------------------------------------------
\* What each policy stores is settled.
LEMMA ProjectSettles ==
  ASSUME ReviewInv, Accepted, views \subseteq {cluster}, policy = "project-labels"
  PROVE  Settled(answer.object)
<1>1. /\ object # None /\ Questions = {} /\ answer = project_validate(settings, object, heard)
      /\ answer.allowed
      /\ object = [project |-> object.project, labels |-> object.labels]
  BY DEF ReviewInv, AnswerOK, ShapesOK, Shaped, Accepted, Answered, Validate
<1>2. CASE object.project = None
  BY <1>1, <1>2 DEF project_validate, Answer, Settled
<1>3. CASE object.project # None /\ (NamesProject(object) => object.project[1] # "local")
  BY <1>1, <1>3 DEF project_validate, Answer, Settled
<1>4. CASE object.project # None /\ NamesProject(object) /\ object.project[1] = "local"
  <2>1. heard # <<>>
    BY <1>1, <1>4 DEF Questions, project_questions, read_questions
  <2>2. /\ ~Failed(heard)
        /\ answer.object = [object EXCEPT !.labels = merge_labels(Read(heard).labels, @)]
    BY <1>1, <1>4 DEF project_validate, Answer
  <2>3. Read(heard) = cluster
    BY <2>1, <2>2, ReadWorked, OnlyView DEF Readers
  <2>4. PICK merged : merged = merge_labels(cluster.labels, object.labels)
    OBVIOUS
  <2>5. answer.object.labels = merged /\ answer.object.project = object.project
    BY <1>1, <2>2, <2>3, <2>4
  <2>6. merged = merge_labels(cluster.labels, merged)
    BY <2>4, MergeSettles
  <2>7. NamesProject(answer.object)
    BY <1>4, <2>5 DEF NamesProject
  <2> QED BY <1>1, <1>4, <2>5, <2>6, <2>7 DEF Settled
<1> QED BY <1>2, <1>3, <1>4

LEMMA NamespaceSettles ==
  ASSUME ReviewInv, Accepted, views \subseteq {cluster}, policy = "namespace-labels"
  PROVE  Settled(answer.object)
<1>1. /\ object # None /\ Questions = {} /\ answer = propagator_validate(settings, object, heard)
      /\ answer.allowed
      /\ object = [kind |-> object.kind, labels |-> object.labels, template |-> object.template]
  BY DEF ReviewInv, AnswerOK, ShapesOK, Shaped, Accepted, Answered, Validate
<1> DEFINE propagated == labelsToPropagate(settings, cluster.labels)
<1>2. heard # <<>>
  BY <1>1 DEF Questions, read_questions
<1>3. ~Failed(heard) /\ object.kind \in PodKinds
  BY <1>1 DEF propagator_validate, Answer
<1>4. Read(heard) = cluster
  BY <1>2, <1>3, ReadWorked, OnlyView DEF Readers
<1>5. answer.object = [object EXCEPT
                         !.labels = merge_labels(propagated, @),
                         !.template = IF object.kind = "Pod" THEN @ ELSE merge_labels(propagated, @)]
  BY <1>1, <1>3, <1>4 DEF propagator_validate, Answer
<1> HIDE DEF propagated
<1>6. PICK labels : labels = merge_labels(propagated, object.labels)
  OBVIOUS
<1>7. PICK template : template = merge_labels(propagated, object.template)
  OBVIOUS
<1>8. /\ answer.object.kind = object.kind /\ answer.object.labels = labels
      /\ object.kind # "Pod" => answer.object.template = template
  BY <1>1, <1>5, <1>6, <1>7
<1>9. labels = merge_labels(propagated, labels) /\ template = merge_labels(propagated, template)
  BY <1>6, <1>7, MergeSettles
<1> QED BY <1>1, <1>3, <1>8, <1>9 DEF Settled, propagated

LEMMA DemoSettles ==
  ASSUME ReviewInv, Accepted, views \subseteq {cluster}, policy = "context-aware-demo"
  PROVE  Settled(answer.object)
<1>1. /\ object # None /\ Questions = {} /\ answer = demo_validate(object, heard) /\ answer.allowed
      /\ object = [kind |-> object.kind, labels |-> object.labels]
  BY DEF ReviewInv, AnswerOK, ShapesOK, Shaped, Accepted, Answered, Validate
<1>2. /\ IsPod(object) /\ Read(heard) # Error
      /\ answer.object = [object EXCEPT !.labels = merge_labels(Read(heard).annotations, @)]
  BY <1>1 DEF demo_validate, Answer
<1>3. heard # <<>>
  BY <1>1, <1>2 DEF Questions, demo_questions
<1>4. Read(heard) = cluster
  BY <1>2, <1>3, OnlyView DEF Readers
<1>5. PICK labels : labels = merge_labels(cluster.annotations, object.labels)
  OBVIOUS
<1>6. answer.object.kind = object.kind /\ answer.object.labels = labels
  BY <1>1, <1>2, <1>4, <1>5
<1>7. labels = merge_labels(cluster.annotations, labels)
  BY <1>5, MergeSettles
<1> QED BY <1>1, <1>2, <1>6, <1>7 DEF Settled, IsPod

LEMMA MapperSettles ==
  ASSUME ReviewInv, Accepted, views \subseteq {cluster}, policy = "policyserver-mapper"
  PROVE  Settled(answer.object)
<1>1. /\ object # None /\ Questions = {} /\ answer = mapper_validate(object, heard) /\ answer.allowed
      /\ object = [spec |-> object.spec]
      /\ object.spec # None => object.spec = [policyServer |-> object.spec.policyServer]
  BY DEF ReviewInv, AnswerOK, ShapesOK, Shaped, Accepted, Answered, Validate
<1>2. /\ ~Failed(heard) /\ object.spec # None /\ Read(heard).policyServer # None
      /\ answer.object = [object EXCEPT !.spec.policyServer = Read(heard).policyServer]
  BY <1>1 DEF mapper_validate, Answer
<1>3. heard # <<>>
  BY <1>1 DEF Questions, read_questions
<1>4. Read(heard) = cluster
  BY <1>2, <1>3, ReadWorked, OnlyView DEF Readers
<1>5. PICK spec : spec = [policyServer |-> cluster.policyServer]
  OBVIOUS
<1>6. answer.object.spec = spec /\ spec.policyServer = cluster.policyServer
  BY <1>1, <1>2, <1>4, <1>5
<1>7. spec # None
  BY <1>5, NoneAssumption DEF ReviewInv, ConfigOK
<1> QED BY <1>1, <1>2, <1>4, <1>6, <1>7 DEF Settled

LEMMA LevelsSettle ==
  ASSUME ReviewInv, Accepted, policy = "psa-label-enforcer"
  PROVE  Settled(answer.object)
<1>1. /\ answer = psa_validate(settings, object) /\ object = [kind |-> object.kind, labels |-> object.labels]
  BY DEF ReviewInv, AnswerOK, ShapesOK, Shaped, Accepted, Answered, Validate
<1>2. CASE object.kind # "Namespace"
  BY <1>1, <1>2 DEF psa_validate, Answer, Settled
<1>3. CASE object.kind = "Namespace"
  <2>1. PICK labels : labels = merge_labels(psa_labels(settings), object.labels)
    OBVIOUS
  <2>2. answer.object.labels = labels
    BY <1>1, <1>3, <2>1 DEF psa_validate, Answer
  <2>3. labels = merge_labels(psa_labels(settings), labels)
    BY <2>1, MergeSettles
  <2> QED BY <1>3, <2>2, <2>3 DEF Settled
<1> QED BY <1>2, <1>3

LEMMA ClassSettles ==
  ASSUME ReviewInv, Accepted, policy = "storage-class"
  PROVE  Settled(answer.object)
<1>1. /\ storage_settings_valid(settings) /\ answer = storage_validate(settings, object)
      /\ answer.allowed /\ object = [kind |-> object.kind, storageClass |-> object.storageClass]
  BY DEF ReviewInv, ConfigOK, AnswerOK, ShapesOK, Shaped, Accepted, Answered, Validate, SettingsValid
<1>2. CASE answer.object = object
  BY <1>1, <1>2 DEF storage_validate, mutate_or_reject, Answer, Settled, is_allowed_class,
                    storage_settings_valid, storage_class_name
<1>3. CASE answer.object # object
  <2>1. settings.fallback # None /\ answer.object = [object EXCEPT !.storageClass = settings.fallback]
    BY <1>1, <1>3 DEF storage_validate, mutate_or_reject, Answer
  <2>2. answer.object.storageClass = settings.fallback
    BY <1>1, <2>1
  <2>3. is_allowed_class(settings, settings.fallback)
    BY <1>1, <2>1 DEF storage_settings_valid, is_allowed_class
  <2> QED BY <1>1, <2>1, <2>2, <2>3 DEF Settled, storage_class_name
<1> QED BY <1>2, <1>3

\* A container that was filled in once needs nothing more.
LEMMA AdjustedSettles ==
  ASSUME resources_settings_valid(settings),
         \A r \in Resource : settings[r] # None => \A i \in 1..6 : settings[r][Chain[i]] \in Nat,
         NEW c, c = [image |-> c.image, limits |-> c.limits, requests |-> c.requests],
         c.limits = [r \in Resource |-> c.limits[r]], c.requests = [r \in Resource |-> c.requests[r]],
         validateAndAdjustContainer(c, settings), NEW a, a = adjusted(c, settings)
  PROVE  validateAndAdjustContainer(a, settings) /\ adjusted(a, settings) = a
<1>1. /\ a = [image |-> c.image, limits |-> a.limits, requests |-> a.requests]
      /\ a.limits = [r \in Resource |-> a.limits[r]] /\ a.requests = [r \in Resource |-> a.requests[r]]
  BY DEF adjusted
<1>2. ASSUME NEW r \in Resource, settings[r] # None
      PROVE  IF shouldIgnoreValues(settings[r]) THEN a.limits[r] # None /\ a.requests[r] # None
             ELSE /\ a.limits[r] = None => settings[r].defaultLimit = 0
                  /\ a.requests[r] = None => settings[r].defaultRequest = 0
                  /\ a.limits[r] # None => within(a.limits[r], settings[r].minLimit, settings[r].maxLimit)
                  /\ a.requests[r] # None => within(a.requests[r], settings[r].minRequest, settings[r].maxRequest)
  BY <1>2, AdjustedFits
<1>3. validateContainerCheckPresence(a, settings)
  BY <1>2 DEF validateContainerCheckPresence, missingResourceQuantity, shouldIgnoreValues
<1>4. validateContainerConstraints(a, settings)
  BY <1>2 DEF validateContainerConstraints, validateContainerResourceLimits, validateContainerResourceRequests,
              missingResourceQuantity, Constrained
<1>5. adjusted(a, settings) = a
  <2> DEFINE lim == [r \in Resource |->
               IF a.limits[r] = None /\ Constrained(settings, r) /\ settings[r].defaultLimit # 0
                 THEN settings[r].defaultLimit ELSE a.limits[r]]
             req == [r \in Resource |->
               IF a.requests[r] = None /\ settings[r] # None /\ settings[r].defaultRequest # 0
                 THEN settings[r].defaultRequest ELSE a.requests[r]]
  <2>1. lim = a.limits
    BY <1>1, <1>2 DEF Constrained
  <2>2. req = a.requests
    BY <1>1, <1>2
  <2>3. adjusted(a, settings) = [a EXCEPT !.limits = lim, !.requests = req]
    BY DEF adjusted
  <2> HIDE DEF lim, req
  <2> QED BY <1>1, <2>1, <2>2, <2>3
<1> QED BY <1>3, <1>4, <1>5 DEF validateAndAdjustContainer

LEMMA ResourcesSettle ==
  ASSUME ReviewInv, Accepted, policy = "container-resources"
  PROVE  Settled(answer.object)
<1>1. /\ resources_settings_valid(settings) /\ LimitedObject(object)
      /\ answer = resources_validate(settings, object) /\ answer.allowed
  BY DEF ReviewInv, ConfigOK, ShapesOK, AnswerOK, Accepted, Answered, SettingsValid, Shaped, Validate
<1>2. \A r \in Resource : settings[r] # None => \A i \in 1..6 : settings[r][Chain[i]] \in Nat
  BY SettingsAssumption DEF ReviewInv, ConfigOK
<1>3. /\ Extracted(object) /\ validatePodSpec(settings, object.containers)
      /\ answer.object.kind = object.kind
      /\ answer.object.containers = {adjusted_container(settings, c) : c \in object.containers}
  BY <1>1 DEF resources_validate, Answer, LimitedObject
<1>4. Extracted(answer.object)
  BY <1>3 DEF Extracted
<1>5. ASSUME NEW a \in answer.object.containers PROVE SettledContainer(a)
  <2>1. PICK c \in object.containers : a = adjusted_container(settings, c)
    BY <1>3
  <2>2. /\ c = [image |-> c.image, limits |-> c.limits, requests |-> c.requests]
        /\ c.limits = [r \in Resource |-> c.limits[r]] /\ c.requests = [r \in Resource |-> c.requests[r]]
    BY <1>1 DEF LimitedObject
  <2>3. CASE shouldSkipContainer(c.image, settings.ignoreImages)
    BY <2>1, <2>3 DEF adjusted_container, SettledContainer
  <2>4. CASE ~shouldSkipContainer(c.image, settings.ignoreImages)
    <3>1. validateAndAdjustContainer(c, settings) /\ a = adjusted(c, settings)
      BY <1>3, <2>1, <2>4 DEF validatePodSpec, adjusted_container
    <3> QED BY <1>1, <1>2, <2>2, <3>1, AdjustedSettles DEF SettledContainer
  <2> QED BY <2>3, <2>4
<1> QED BY <1>4, <1>5 DEF Settled

\* The digest an image is named with is the one of the cluster.
LEMMA DigestIsResolved ==
  ASSUME ReviewInv, policy = "verify-image-signatures", all_verified(heard), views \subseteq {cluster},
         NEW c, NEW after, after = add_digest_if_not_present(heard, c)
  PROVE  \/ after = c /\ (HeardOf(heard, c) = {} \/ c.image.digest # None)
         \/ /\ c.image.digest = None /\ Resolved(cluster, c.image) \in DOMAIN cluster.signed
            /\ after = set_image(c, [c.image EXCEPT !.digest = Resolved(cluster, c.image)])
<1>1. CASE HeardOf(heard, c) = {} \/ c.image.digest # None
  BY <1>1 DEF add_digest_if_not_present
<1>2. CASE HeardOf(heard, c) # {} /\ c.image.digest = None
  <2> DEFINE of == HeardOf(heard, c)
             last == CHOOSE k \in of : \A l \in of : l <= k
  <2>1. last \in of
    BY <1>2, LastIsHeard
  <2>2. last \in DOMAIN heard /\ heard[last].question.container = c
    BY <2>1 DEF HeardOf
  <2>3. after = set_image(c, [c.image EXCEPT !.digest = heard[last].answer])
    BY <1>2 DEF add_digest_if_not_present
  <2> HIDE DEF last
  <2>4. heard[last].answer = Resolved(cluster, c.image) /\ heard[last].answer \in DOMAIN cluster.signed
    BY <2>2, HeardWasVerified DEF all_verified
  <2> QED BY <1>2, <2>3, <2>4
<1> QED BY <1>1, <1>2

\* Nothing is left to ask: each call of an entry that matches was made and worked.
LEMMA EachCallWorked ==
  ASSUME ReviewInv, OneOpen, policy = "verify-image-signatures", Questions = {},
         resource_spec(object) # None, ~Traps(object), all_verified(heard), views \subseteq {cluster},
         NEW c \in resource_spec(object).containers, NEW i \in DOMAIN settings.signatures,
         SignaturePatternMatches(settings.signatures[i], c.image),
         NEW call \in DOMAIN Calls(settings.signatures[i])
  PROVE  HeardOf(heard, c) # {} /\ verify(settings, cluster, Verification(c, i, call)) # Error
<1>1. EntryIsDone(settings, heard, c, i)
  BY NothingLeftToAsk DEF ContainerIsDone
<1>2. CallsLeft(settings, heard, c, i) = {}
  BY <1>1 DEF EntryIsDone, HeardOf, all_verified
<1>3. PICK j \in DOMAIN heard : heard[j].question = Verification(c, i, call)
  BY <1>2 DEF CallsLeft
<1>4. j \in HeardOf(heard, c)
  BY <1>3 DEF HeardOf, Verification
<1>5. heard[j].answer # Error /\ heard[j].answer \in AnswersOf(cluster, heard[j].question)
  BY DEF ReviewInv, HeardOK, all_verified
<1> QED BY <1>3, <1>4, <1>5 DEF AnswersOf

\* A pattern does not see the digest.
LEMMA StrippedAlike ==
  ASSUME NEW image, ImageName(image), NEW digest, NEW named, named = WithDigest(image, digest),
         NEW entry, entry.glob, SignaturePatternMatches(entry, named)
  PROVE  SignaturePatternMatches(entry, image)
<1>1. image = WithDigest(image, image.digest)
  BY DEF ImageName
<1>2. \A other : DOMAIN WithDigest(image, other) = {"registry", "path", "tag", "digest"}
  BY DEF WithDigest
<1>3. DOMAIN image = {"registry", "path", "tag", "digest"} /\ DOMAIN named = DOMAIN image
  BY <1>1, <1>2
<1>4. image = [f \in DOMAIN image |-> image[f]] /\ named = [f \in DOMAIN named |-> named[f]]
  BY <1>1 DEF WithDigest
<1>5. \A f \in {"registry", "path"} : named[f] = image[f]
  BY DEF WithDigest
<1>6. [named EXCEPT !.tag = None, !.digest = None] = [image EXCEPT !.tag = None, !.digest = None]
  BY <1>3, <1>4, <1>5
<1> QED BY <1>6 DEF SignaturePatternMatches

LEMMA ImageSettles ==
  ASSUME ReviewInv, OneOpen, policy = "verify-image-signatures", Questions = {},
         resource_spec(object) # None, ~Traps(object), all_verified(heard), views \subseteq {cluster},
         NEW c \in resource_spec(object).containers,
         c = [field \in DOMAIN EmptyContainer |-> c[field]], ImageName(c.image), c.image # None,
         NEW after, after = IF settings.modify_images_with_digest
                              THEN add_digest_if_not_present(heard, c) ELSE c
  PROVE  after.image # None /\ SettledImage(after)
<1> DEFINE digest == Resolved(cluster, c.image)
           named == [c.image EXCEPT !.digest = digest]
<1>1. \/ /\ after = c
         /\ settings.modify_images_with_digest => HeardOf(heard, c) = {} \/ c.image.digest # None
      \/ /\ c.image.digest = None /\ digest \in DOMAIN cluster.signed
         /\ settings.modify_images_with_digest /\ after = set_image(c, named)
  BY DigestIsResolved
<1>2. named = WithDigest(c.image, digest) /\ named.digest = digest
  BY DigestedName
<1>3. ASSUME after # c
      PROVE  /\ after.image = WithDigest(c.image, digest) /\ after.image.digest = digest
             /\ digest # None /\ digest \in DOMAIN cluster.signed
             /\ c.image.digest = None
  <2>1. /\ c.image.digest = None /\ digest \in DOMAIN cluster.signed /\ after = set_image(c, named)
    BY <1>1, <1>3
  <2> HIDE DEF named, digest
  <2>2. "image" \in DOMAIN c
    BY DEF EmptyContainer
  <2>3. after.image = named
    BY <2>1, <2>2 DEF set_image
  <2>4. digest # None
    <3>1. SUFFICES ASSUME digest = None PROVE FALSE
      OBVIOUS
    <3>2. named = c.image
      BY <1>2, <2>1, <3>1 DEF ImageName
    <3>3. set_image(c, c.image) = c
      BY DEF set_image
    <3> QED BY <1>3, <2>1, <3>2, <3>3
  <2> QED BY <1>2, <2>1, <2>3, <2>4
<1>4. after.image # None
  <2>1. CASE after = c
    BY <2>1
  <2>2. CASE after # c
    <3>1. cluster \in ClustersOf("verify-image-signatures")
      BY DEF ReviewInv, ConfigOK
    <3>2. digest \in SignedDigests
      BY <1>3, <2>2, <3>1 DEF SignedDigests
    <3> QED BY <1>3, <2>2, <3>2 DEF ImageName
  <2> QED BY <2>1, <2>2
<1>5. ASSUME NEW i \in DOMAIN settings.signatures,
             SignaturePatternMatches(settings.signatures[i], after.image),
             settings.signatures[i].glob \/ after.image.digest = None,
             NEW call \in DOMAIN Calls(settings.signatures[i]),
             NEW now, now = verify(settings, cluster, Verification(after, i, call))
      PROVE  now # Error /\ (settings.modify_images_with_digest => now = after.image.digest)
  <2> DEFINE entry == settings.signatures[i]
             before == verify(settings, cluster, Verification(c, i, call))
  <2>1. SignaturePatternMatches(entry, c.image)
    <3>1. CASE after = c
      BY <1>5, <3>1
    <3>2. CASE after # c
      <4>1. entry.glob /\ after.image = WithDigest(c.image, digest)
        BY <1>3, <1>5, <3>2
      <4> HIDE DEF digest, named, entry
      <4> QED BY <1>5, <4>1, StrippedAlike DEF entry
    <3> QED BY <3>1, <3>2
  <2>2. HeardOf(heard, c) # {} /\ before # Error
    BY <2>1, EachCallWorked
  <2>3. LET signers == Calls(entry)[call] IN
        /\ signers # {} /\ before = digest /\ digest \in DOMAIN cluster.signed
        /\ signers \subseteq cluster.signed[digest]
    BY <2>2, VerifiedByAll DEF Verification
  <2>4. CASE after = c
    <3>1. now = digest /\ now # Error
      BY <1>5, <2>2, <2>3, <2>4
    <3>2. settings.modify_images_with_digest => digest = c.image.digest
      <4>1. CASE c.image.digest # None
        BY <4>1 DEF Resolved
      <4>2. CASE c.image.digest = None
        <5>1. settings.modify_images_with_digest => after = set_image(c, named)
          BY <1>1, <2>2, <4>2
        <5> HIDE DEF named, digest
        <5>2. "image" \in DOMAIN c
          BY DEF EmptyContainer
        <5>3. settings.modify_images_with_digest => after.image = named
          BY <5>1, <5>2 DEF set_image
        <5> QED BY <1>2, <2>4, <5>3
      <4> QED BY <4>1, <4>2
    <3> QED BY <2>4, <3>1, <3>2
  <2>5. CASE after # c
    <3>1. Resolved(cluster, after.image) = digest /\ after.image.digest # None
      BY <1>3, <2>5 DEF Resolved
    <3> HIDE DEF digest
    <3>2. now = digest
      BY <1>5, <2>3, <3>1 DEF verify, Verification
    <3> QED BY <1>3, <2>2, <2>3, <2>5, <3>2
  <2> QED BY <2>4, <2>5
<1> QED BY <1>4, <1>5 DEF SettledImage

LEMMA ImagesSettle ==
  ASSUME ReviewInv, OneOpen, Accepted, views \subseteq {cluster}, policy = "verify-image-signatures"
  PROVE  Settled(answer.object)
<1>1. /\ object # None /\ Questions = {} /\ SignedPod(object) /\ answer.allowed
      /\ answer = signatures_validate(settings, object, heard)
  BY DEF ReviewInv, ShapesOK, AnswerOK, Accepted, Answered, Validate, Shaped
<1>2. CASE resource_spec(object) = None
  <2>1. answer.object = object
    BY <1>1, <1>2 DEF signatures_validate, Answer
  <2> QED BY <1>2, <2>1 DEF Settled
<1>3. CASE resource_spec(object) # None
  <2>1. resource_spec(object) = object.spec /\ object.spec # None
    BY <1>3 DEF resource_spec
  <2>2. /\ ~Traps(object) /\ all_verified(heard)
        /\ answer.object = IF settings.modify_images_with_digest
                             THEN set_spec(object, verify_all_images_in_pod(object.spec, heard)) ELSE object
    BY <1>1, <2>1 DEF signatures_validate, Answer
  <2>3. \A c \in object.spec.containers :
          c.image # None /\ ImageName(c.image) /\ c = [field \in DOMAIN EmptyContainer |-> c[field]]
    BY <1>1, <2>1, <2>2 DEF Traps, SignedPod, PodObject, ContainersOf
  <2>4. answer.object.spec.containers
          = {IF settings.modify_images_with_digest THEN add_digest_if_not_present(heard, c) ELSE c :
               c \in object.spec.containers}
    <3>1. CASE settings.modify_images_with_digest
      <4>1. answer.object = set_spec(object, verify_all_images_in_pod(object.spec, heard))
        BY <2>2, <3>1
      <4>2. answer.object.spec.containers = {add_digest_if_not_present(heard, c) : c \in object.spec.containers}
        BY <1>1, <2>1, <2>3, <4>1, SignedShape
      <4> QED BY <3>1, <4>2
    <3>2. CASE ~settings.modify_images_with_digest
      BY <2>2, <3>2
    <3> QED BY <3>1, <3>2
  <2>5. ASSUME NEW after \in answer.object.spec.containers PROVE after.image # None /\ SettledImage(after)
    <3>1. PICK c \in object.spec.containers :
            after = IF settings.modify_images_with_digest THEN add_digest_if_not_present(heard, c) ELSE c
      BY <2>4
    <3> QED BY <1>1, <1>3, <2>1, <2>2, <2>3, <3>1, ImageSettles
  <2> QED BY <2>5 DEF Settled
<1> QED BY <1>2, <1>3

--------------------------------------------------------------------------------
\* What is settled is answered with itself.
LEMMA ProjectStays ==
  ASSUME ReviewInv, Answered, NoneFailed, cache = cluster, Settled(object), policy = "project-labels"
  PROVE  answer = Answer(TRUE, object)
<1>1. /\ Questions = {} /\ answer = project_validate(settings, object, heard)
      /\ object = [project |-> object.project, labels |-> object.labels]
  BY DEF ReviewInv, AnswerOK, ShapesOK, Shaped, Answered, Validate
<1>2. CASE object.project = None
  BY <1>1, <1>2 DEF project_validate, NamesProject
<1>3. CASE NamesProject(object) /\ object.project[1] # "local"
  BY <1>1, <1>3 DEF project_validate, Settled, NamesProject
<1>4. CASE NamesProject(object) /\ object.project[1] = "local"
  <2>1. heard # <<>>
    BY <1>1, <1>4 DEF Questions, project_questions, read_questions
  <2>2. ~Failed(heard) /\ Read(heard) = cluster
    BY <2>1, ReadNow DEF Readers
  <2>3. object.project # None /\ object.labels = merge_labels(cluster.labels, object.labels)
    BY <1>4 DEF Settled, NamesProject
  <2>4. answer = Answer(TRUE, [object EXCEPT !.labels = merge_labels(cluster.labels, @)])
    BY <1>1, <1>4, <2>2, <2>3 DEF project_validate
  <2>5. PICK merged : merged = merge_labels(cluster.labels, object.labels)
    OBVIOUS
  <2>6. [object EXCEPT !.labels = merged] = object
    BY <1>1, <2>3, <2>5
  <2> QED BY <2>4, <2>5, <2>6
<1> QED BY <1>2, <1>3, <1>4 DEF Settled

LEMMA NamespaceStays ==
  ASSUME ReviewInv, Answered, NoneFailed, cache = cluster, Settled(object), policy = "namespace-labels"
  PROVE  answer = Answer(TRUE, object)
<1>1. /\ Questions = {} /\ answer = propagator_validate(settings, object, heard)
      /\ object = [kind |-> object.kind, labels |-> object.labels, template |-> object.template]
  BY DEF ReviewInv, AnswerOK, ShapesOK, Shaped, Answered, Validate
<1>2. heard # <<>>
  BY <1>1 DEF Questions, read_questions
<1>3. ~Failed(heard) /\ Read(heard) = cluster
  BY <1>2, ReadNow DEF Readers
<1> DEFINE propagated == labelsToPropagate(settings, cluster.labels)
<1>4. /\ object.kind \in PodKinds /\ object.labels = merge_labels(propagated, object.labels)
      /\ object.kind # "Pod" => object.template = merge_labels(propagated, object.template)
  BY DEF Settled
<1>5. answer = Answer(TRUE, [object EXCEPT
                 !.labels = merge_labels(propagated, @),
                 !.template = IF object.kind = "Pod" THEN @ ELSE merge_labels(propagated, @)])
  BY <1>1, <1>3, <1>4 DEF propagator_validate
<1> HIDE DEF propagated
<1>6. PICK labels : labels = merge_labels(propagated, object.labels)
  OBVIOUS
<1>7. PICK template : template = IF object.kind = "Pod" THEN object.template
                                 ELSE merge_labels(propagated, object.template)
  OBVIOUS
<1>8. [object EXCEPT !.labels = labels, !.template = template] = object
  BY <1>1, <1>4, <1>6, <1>7
<1> QED BY <1>5, <1>6, <1>7, <1>8

LEMMA DemoStays ==
  ASSUME ReviewInv, Answered, NoneFailed, cache = cluster, Settled(object), policy = "context-aware-demo"
  PROVE  answer = Answer(TRUE, object)
<1>1. /\ Questions = {} /\ answer = demo_validate(object, heard)
      /\ object = [kind |-> object.kind, labels |-> object.labels]
  BY DEF ReviewInv, AnswerOK, ShapesOK, Shaped, Answered, Validate
<1>2. IsPod(object) /\ object.labels = merge_labels(cluster.annotations, object.labels)
  BY DEF Settled
<1>3. heard # <<>>
  BY <1>1, <1>2 DEF Questions, demo_questions
<1>4. Read(heard) = cluster /\ Read(heard) # Error
  BY <1>3, ReadNow DEF Readers
<1>5. answer = Answer(TRUE, [object EXCEPT !.labels = merge_labels(cluster.annotations, @)])
  BY <1>1, <1>2, <1>4 DEF demo_validate
<1>6. PICK merged : merged = merge_labels(cluster.annotations, object.labels)
  OBVIOUS
<1>7. [object EXCEPT !.labels = merged] = object
  BY <1>1, <1>2, <1>6
<1> QED BY <1>5, <1>6, <1>7

LEMMA MapperStays ==
  ASSUME ReviewInv, Answered, NoneFailed, cache = cluster, Settled(object), policy = "policyserver-mapper"
  PROVE  answer = Answer(TRUE, object)
<1>1. /\ Questions = {} /\ answer = mapper_validate(object, heard)
      /\ object = [spec |-> object.spec]
      /\ object.spec # None => object.spec = [policyServer |-> object.spec.policyServer]
  BY DEF ReviewInv, AnswerOK, ShapesOK, Shaped, Answered, Validate
<1>2. cluster.policyServer # None /\ object.spec # None /\ object.spec.policyServer = cluster.policyServer
  BY DEF Settled
<1>3. heard # <<>>
  BY <1>1 DEF Questions, read_questions
<1>4. ~Failed(heard) /\ Read(heard) = cluster
  BY <1>3, ReadNow DEF Readers
<1>5. answer = Answer(TRUE, [object EXCEPT !.spec.policyServer = cluster.policyServer])
  BY <1>1, <1>2, <1>4 DEF mapper_validate
<1>6. [object EXCEPT !.spec.policyServer = cluster.policyServer] = object
  BY <1>1, <1>2
<1> QED BY <1>5, <1>6

LEMMA LevelsStay ==
  ASSUME ReviewInv, Answered, Settled(object), policy = "psa-label-enforcer"
  PROVE  answer = Answer(TRUE, object)
<1>1. answer = psa_validate(settings, object) /\ object = [kind |-> object.kind, labels |-> object.labels]
  BY DEF ReviewInv, AnswerOK, ShapesOK, Shaped, Answered, Validate
<1>2. PICK merged : merged = merge_labels(psa_labels(settings), object.labels)
  OBVIOUS
<1>3. object.kind = "Namespace" => [object EXCEPT !.labels = merged] = object
  BY <1>1, <1>2 DEF Settled
<1> QED BY <1>1, <1>2, <1>3 DEF psa_validate

LEMMA ClassStays ==
  ASSUME ReviewInv, Answered, Settled(object), policy = "storage-class"
  PROVE  answer = Answer(TRUE, object)
<1>1. answer = storage_validate(settings, object)
  BY DEF ReviewInv, AnswerOK, Answered, Validate
<1> QED BY <1>1 DEF Settled, storage_validate

LEMMA ResourcesStay ==
  ASSUME ReviewInv, Answered, Settled(object), policy = "container-resources"
  PROVE  answer = Answer(TRUE, object)
<1>1. /\ answer = resources_validate(settings, object)
      /\ object = [kind |-> object.kind, containers |-> object.containers]
  BY DEF ReviewInv, AnswerOK, ShapesOK, Shaped, LimitedObject, Answered, Validate
<1>2. Extracted(object) /\ \A c \in object.containers : SettledContainer(c)
  BY DEF Settled
<1>3. \A c \in object.containers : adjusted_container(settings, c) = c
  BY <1>2 DEF SettledContainer, adjusted_container
<1>4. validatePodSpec(settings, object.containers)
  BY <1>2 DEF SettledContainer, validatePodSpec
<1> DEFINE filled == {adjusted_container(settings, c) : c \in object.containers}
<1>5. filled = object.containers
  BY <1>3
<1>6. answer = Answer(TRUE, [object EXCEPT !.containers = filled])
  BY <1>1, <1>2, <1>4 DEF resources_validate
<1> HIDE DEF filled
<1>7. [object EXCEPT !.containers = filled] = object
  BY <1>1, <1>5
<1> QED BY <1>6, <1>7

\* The images of a settled pod are verified again, with the digest they have.
LEMMA ImagesStay ==
  ASSUME ReviewInv, Answered, NoneFailed, cache = cluster, Settled(object),
         policy = "verify-image-signatures", ~NamedWithDigest(object)
  PROVE  answer = Answer(TRUE, object)
<1>1. object # None /\ SignedPod(object) /\ answer = signatures_validate(settings, object, heard)
  BY DEF ReviewInv, ShapesOK, AnswerOK, Answered, Validate, Shaped
<1>2. CASE resource_spec(object) = None
  BY <1>1, <1>2 DEF signatures_validate
<1>3. CASE resource_spec(object) # None
  <2>1. /\ resource_spec(object) = object.spec /\ object.spec # None
        /\ ContainersOf(object) = object.spec.containers
    BY <1>3 DEF resource_spec, ContainersOf
  <2>2. \A c \in object.spec.containers : c.image # None /\ SettledImage(c)
    BY <1>3 DEF Settled
  <2>3. ~Traps(object)
    BY <2>1, <2>2 DEF Traps
  <2>4. ASSUME NEW j \in DOMAIN heard
        PROVE  /\ heard[j].question.container \in object.spec.containers /\ heard[j].answer # Error
               /\ settings.modify_images_with_digest =>
                    heard[j].answer = heard[j].question.container.image.digest
    <3> DEFINE q == heard[j].question
    <3>1. IsVerification(q)
      BY DEF ReviewInv, HeardOK, Asks
    <3>2. heard[j].answer = verify(settings, cluster, q)
      BY DEF NoneFailed, HostAnswers, Source
    <3>3. settings.signatures[q.entry].glob \/ q.container.image.digest = None
      BY <2>1, <3>1 DEF NamedWithDigest, IsVerification
    <3> QED BY <2>1, <2>2, <3>1, <3>2, <3>3 DEF SettledImage, IsVerification
  <2>5. all_verified(heard)
    BY <2>4 DEF all_verified
  <2>6. CASE ~settings.modify_images_with_digest
    BY <1>1, <1>3, <2>3, <2>5, <2>6 DEF signatures_validate
  <2>7. CASE settings.modify_images_with_digest
    <3>1. ASSUME NEW c \in object.spec.containers PROVE add_digest_if_not_present(heard, c) = c
      <4>1. CASE HeardOf(heard, c) = {} \/ c.image.digest # None
        BY <4>1 DEF add_digest_if_not_present
      <4>2. CASE HeardOf(heard, c) # {} /\ c.image.digest = None
        <5> DEFINE of == HeardOf(heard, c)
                   last == CHOOSE k \in of : \A l \in of : l <= k
        <5>1. last \in of
          BY <4>2, LastIsHeard
        <5>2. heard[last].answer = None
          BY <2>4, <2>7, <4>2, <5>1 DEF HeardOf
        <5>3. add_digest_if_not_present(heard, c)
                = set_image(c, [c.image EXCEPT !.digest = heard[last].answer])
          BY <4>2 DEF add_digest_if_not_present
        <5> HIDE DEF last
        <5>4. ImageName(c.image) /\ c = [field \in DOMAIN EmptyContainer |-> c[field]]
          BY <1>1, <2>1, <2>2 DEF SignedPod, PodObject
        <5>5. [c.image EXCEPT !.digest = None] = c.image
          BY <4>2, <5>4 DEF ImageName, WithDigest
        <5>6. set_image(c, c.image) = c
          BY <5>4 DEF set_image
        <5> QED BY <5>2, <5>3, <5>5, <5>6
      <4> QED BY <4>1, <4>2
    <3> DEFINE named == {add_digest_if_not_present(heard, c) : c \in object.spec.containers}
    <3>2. named = object.spec.containers
      BY <3>1
    <3>3. verify_all_images_in_pod(object.spec, heard) = [object.spec EXCEPT !.containers = named]
      BY DEF verify_all_images_in_pod
    <3> HIDE DEF named
    <3>4. object.spec = [field \in DOMAIN EmptySpec |-> object.spec[field]]
      BY <1>1, <2>1 DEF SignedPod, PodObject
    <3>5. verify_all_images_in_pod(object.spec, heard) = object.spec
      BY <3>2, <3>3, <3>4
    <3>6. set_spec(object, object.spec) = object
      BY <1>1 DEF SignedPod, PodObject, set_spec
    <3> QED BY <1>1, <1>3, <2>1, <2>3, <2>5, <2>7, <3>5, <3>6 DEF signatures_validate
  <2> QED BY <2>6, <2>7
<1> QED BY <1>2, <1>3

--------------------------------------------------------------------------------
LEMMA SettledInit == Init => SettledInv
  BY DEF Init, SettledInv

\* What is stored as long as the cluster stayed is settled.
LEMMA SettledStore ==
  ASSUME ReviewInv, OneOpen, SettledInv, Store PROVE SettledInv'
<1>1. /\ UNCHANGED <<policy, settings, cluster, cache, moves>> /\ views' = {}
      /\ answer # None
      /\ stored' = IF answer.allowed THEN stored \union {answer.object} ELSE stored
  BY DEF Store, config
<1>2. \A o : Settled(o)' <=> Settled(o)
  BY <1>1 DEF Settled, SettledImage, SettledContainer
<1>3. ASSUME moves = 0, answer.allowed PROVE Settled(answer.object)
  <2>1. Accepted
    BY <1>1, <1>3 DEF Accepted, Answered
  <2>2. policy # "project-quotas" => views \subseteq {cluster}
    BY <1>3 DEF SettledInv
  <2>3. policy \notin {"verify-image-signatures", "project-labels", "namespace-labels",
                       "context-aware-demo", "policyserver-mapper", "psa-label-enforcer",
                       "storage-class", "container-resources"} => Settled(answer.object)
    BY DEF Settled
  <2> QED BY <2>1, <2>2, <2>3, ImagesSettle, ProjectSettles, NamespaceSettles, DemoSettles,
             MapperSettles, LevelsSettle, ClassSettles, ResourcesSettle
<1>4. moves = 0 => \A o \in stored' : Settled(o)
  BY <1>1, <1>3 DEF SettledInv
<1> QED BY <1>1, <1>2, <1>4 DEF SettledInv

LEMMA SettledStep == ReviewInv /\ OneOpen /\ SettledInv /\ [Next]_vars => SettledInv'
<1> SUFFICES ASSUME ReviewInv, OneOpen, SettledInv, [Next]_vars PROVE SettledInv'
  OBVIOUS
<1>1. CASE Store
  BY <1>1, SettledStore
<1>2. ASSUME UNCHANGED <<policy, settings, cluster, stored>> PROVE \A o : Settled(o)' <=> Settled(o)
  BY <1>2 DEF Settled, SettledImage, SettledContainer
<1>3. CASE UNCHANGED <<policy, settings, cluster, cache, views, stored, moves>>
  BY <1>2, <1>3 DEF SettledInv
<1>4. CASE \E o \in Scenarios[policy].objects \union stored : Submit(o)
  <2>1. UNCHANGED <<policy, settings, cluster, cache, stored, moves>> /\ views' = {Source}
    BY <1>4 DEF Submit, config
  <2> QED BY <1>2, <2>1 DEF SettledInv, Source
<1>5. CASE \E c \in Scenarios[policy].clusters : Move(c)
  <2>1. moves' # 0 /\ moves' \in Nat
    BY <1>5 DEF Move, SettledInv
  <2> QED BY <2>1 DEF SettledInv
<1>6. CASE Recount
  <2>1. policy' = "project-quotas" /\ UNCHANGED <<stored, moves>>
    BY <1>6 DEF Recount, config
  <2>2. \A o : Settled(o)'
    BY <2>1 DEF Settled
  <2> QED BY <2>1, <2>2 DEF SettledInv
<1>7. CASE Refresh
  <2>1. moves # 0 /\ moves \in Nat /\ moves' = moves
    BY <1>7 DEF Refresh, SettledInv
  <2> QED BY <2>1 DEF SettledInv
<1> QED BY <1>1, <1>3, <1>4, <1>5, <1>6, <1>7 DEF Next, vars, Load, Ask, Decide, config

\* A policy that changes objects changes nothing of what it stored: as long as the cluster stays
\* and no call fails, what is sent again is accepted as it is, however often and whatever else
\* was reviewed meanwhile (validate of the eight policies that mutate).
THEOREM MutationsAreSettled == Spec => []MutationsSettle
<1>1. ReviewInv /\ SettledInv => MutationsSettle
  <2> SUFFICES ASSUME ReviewInv, SettledInv, Answered, object \in stored, moves = 0, NoneFailed,
                      policy = "verify-image-signatures" => ~NamedWithDigest(object),
                      policy \in {"verify-image-signatures", "project-labels", "namespace-labels",
                                  "context-aware-demo", "policyserver-mapper", "psa-label-enforcer",
                                  "storage-class", "container-resources"}
               PROVE  answer = Answer(TRUE, object)
    BY DEF MutationsSettle
  <2>1. Settled(object) /\ cache = cluster
    BY DEF SettledInv
  <2> QED BY <2>1, ImagesStay, ProjectStays, NamespaceStays, DemoStays, MapperStays, LevelsStay,
             ClassStays, ResourcesStay
<1>2. Init => OneOpen
  BY DEF Init, OneOpen, HeardOf
<1> QED BY <1>1, <1>2, OneOpenStep, SettledInit, SettledStep, ReviewCorrect, PTL DEF Spec
================================================================================
