------------------------------ MODULE TrustedRepos ------------------------------
(***************************************************************************)
(* policies/trusted-repos-policy: the registries, tags and names of the    *)
(* images of a pod against lists of what is allowed or rejected.           *)
(*                                                                         *)
(* An image is [registry, path, tag, digest], the optional parts None; a   *)
(* name that does not parse has an empty path.                             *)
(***************************************************************************)
EXTENDS CriteriaPolicies

\* oci_spec's Reference: the name with its defaults
Parses(image) == image.path # <<>>

reference(image) ==
  LET hub == image.registry \in {None, "docker.io", "index.docker.io"} IN
  [registry |-> IF hub THEN "docker.io" ELSE image.registry,
   path     |-> IF hub /\ Len(image.path) = 1 THEN <<"library">> \o image.path ELSE image.path,
   tag      |-> IF image.tag = None /\ image.digest = None THEN "latest" ELSE image.tag,
   digest   |-> image.digest]

\* GHCR.io stands for the registries that are not in lower case.
to_lowercase(registry) == IF registry = "GHCR.io" THEN "ghcr.io" ELSE registry

\* ImageRef::from_reference
ImageRef(image) == [reference(image) EXCEPT !.registry = to_lowercase(@)]

--------------------------------------------------------------------------------
\* StringMatcher: an exact string, or the pattern that matches all
Wildcard == "*"

matches(matcher, value) == matcher \in {Wildcard, value}

registry_matches_any(registry, matchers) == \E m \in matchers : matches(m, registry)

tag_matches_any(tag, matchers) == \E m \in matchers : matches(m, tag)

is_allowed_registry(registry, settings) ==
  /\ ~registry_matches_any(registry, settings.registries.reject)
  /\ settings.registries.allow # {} => registry_matches_any(registry, settings.registries.allow)

is_allowed_tag(tag, settings) == ~tag_matches_any(tag, settings.tags.reject)

\* ImageMatcher: [glob, image].  An exact one is parsed when the settings are read.  A
\* pattern is compared as it is written: one with a tag ends with the wildcard as tag, one
\* without has the wildcard in its path and no end of its own.
Exact(image) == [glob |-> FALSE, image |-> image]
Pattern(image) == [glob |-> TRUE, image |-> image]

MatcherParses(matcher) == matcher.glob \/ Parses(matcher.image)

pattern_matches(pattern, name) ==
  /\ pattern.registry = name.registry /\ pattern.path = name.path
  /\ IF pattern.tag = Wildcard THEN name.tag # None ELSE name.tag = None /\ name.digest = None

\* Mutant: names are compared as they are written.
whole_only(image_ref, matchers) == \E m \in matchers : ~m.glob /\ m.image = image_ref

image_matches_any(image_ref, matchers) ==
  LET registry_repo == [image_ref EXCEPT !.tag = None, !.digest = None]
      repository == [registry_repo EXCEPT !.registry = None] IN
  \E m \in matchers :
    \/ ~m.glob /\ ImageRef(m.image) \in {image_ref, ImageRef(repository), ImageRef(registry_repo)}
    \/ m.glob /\ pattern_matches(m.image, image_ref)
    \/ /\ m.glob /\ m.image.tag = None
       /\ pattern_matches(m.image, registry_repo) \/ pattern_matches(m.image, repository)

is_allowed_image(image_ref, settings) ==
  /\ ~image_matches_any(image_ref, settings.images.reject)
  /\ settings.images.allow # {} => image_matches_any(image_ref, settings.images.allow)

--------------------------------------------------------------------------------
\* Tags::validate: BadTag stands for what is no tag.
BadTag == "-latest"
tags_valid(tags) == BadTag \notin tags.reject

\* Settings that do not parse are refused as well.
repos_settings_valid(settings) ==
  /\ settings.registries.allow = {} \/ settings.registries.reject = {}
  /\ settings.images.allow = {} \/ settings.images.reject = {}
  /\ tags_valid(settings.tags)
  /\ \A m \in settings.images.allow \union settings.images.reject : MatcherParses(m)

\* A list of init or ephemeral containers counts only if all of them have an image.
discover_images(spec) ==
  LET images(role) == {c.image : c \in InRole(spec, {role})} IN
  (images("app") \ {None})
    \union UNION {images(role) : role \in {r \in {"init", "ephemeral"} : None \notin images(r)}}

\* PodRejectionReasons
RejectionReasons(registries, tags, images) ==
  [registries_not_allowed |-> registries, tags_not_allowed |-> tags, images_not_allowed |-> images]

is_empty(reasons) == reasons = RejectionReasons({}, {}, {})

\* PodSpecValidationResult as an answer: NotAllowed lists the reasons in its message only.
response(reasons) == is_empty(reasons)

\* What does not parse is left to others.
validate_images(images, settings) ==
  LET known == {image \in images : Parses(image)}
      tag(image) == IF ImageRef(image).tag = None THEN "latest" ELSE ImageRef(image).tag IN
  RejectionReasons(
    {r \in {ImageRef(image).registry : image \in known} : ~is_allowed_registry(r, settings)},
    {t \in {tag(image) : image \in known} : ~is_allowed_tag(t, settings)},
    {image \in known : ~is_allowed_image(ImageRef(image), settings)})

validate_pod_spec(spec, settings) == validate_images(discover_images(spec), settings)

repos_validate(settings, object) ==
  Extracted(object) /\ object.spec # None => response(validate_pod_spec(object.spec, settings))
================================================================================
