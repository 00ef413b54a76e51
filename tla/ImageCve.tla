-------------------------------- MODULE ImageCve --------------------------------
(***************************************************************************)
(* policies/image-cve-policy: what a scanner found in the images of a pod. *)
(* The digest of an image is in its name or has to be asked for, then the  *)
(* scanner's report of it is listed and compared with the limits of the    *)
(* settings.  An operator gives the questions the policy may ask next,     *)
(* given what it heard so far, another one its answer.                     *)
(***************************************************************************)
EXTENDS ImageSignatures, FiniteSets

\* A report is [name, namespace, digest, results], the name [path, tag, platform] of what
\* was scanned; a result is the sequence of vulnerabilities of one target.
VulnerabilityReport(name, in, digest, results) ==
  [name |-> name, namespace |-> in, digest |-> digest, results |-> results]

Severity == {"critical", "high", "medium", "low", "unknown"}

\* A score of some source in whole numbers, None if it does not parse
Cvss(v3_score) == [v3_score |-> v3_score]

\* fixed_versions and cvss may be None; cvss has the scores by their sources.
Vulnerability(cve, severity, fixed_versions, cvss, suppressed) ==
  [cve |-> cve, severity |-> severity, fixed_versions |-> fixed_versions, cvss |-> cvss,
   suppressed |-> suppressed]

has_fix(v) == v.fixed_versions # None /\ v.fixed_versions # {}

\* Where vulnerabilities were found, as [target, number]: they count as often as they were.
found(report) ==
  UNION {{<<target, n>> : n \in DOMAIN report.results[target]} : target \in DOMAIN report.results}

at(report, place) == report.results[place[1]][place[2]]

vulnerabilities_ids(report) == {at(report, place).cve : place \in found(report)}

--------------------------------------------------------------------------------
\* The settings.  A limit is [total, totalWithoutFixes], one of them None; the limits of
\* max_severity may be None, and all of it.
severity_count_valid(limit) == (limit.total = None) # (limit.totalWithoutFixes = None)

is_configured(max_severity) == \E severity \in Severity : max_severity[severity] # None

cvss_score_valid(cvss_score) == cvss_score.threshold \in 0..10

cve_settings_valid(settings) ==
  /\ settings.allow_always \intersect settings.deny_always = {}
  /\ settings.cvss_score # None => cvss_score_valid(settings.cvss_score)
  /\ settings.max_severity # None =>
       \A severity \in Severity :
         settings.max_severity[severity] # None => severity_count_valid(settings.max_severity[severity])

host_platform == "linux/amd64"
platform(settings) == IF settings.platform = None THEN host_platform ELSE settings.platform

--------------------------------------------------------------------------------
\* The verification of a report
considered(settings, v) ==
  v.cve \notin settings.allow_always /\ (settings.ignore_vex_status \/ ~v.suppressed)

\* The score of the first of the preferred sources that has one, or else of any other
cvss_score(v) ==
  LET preferred == <<"nvd", "redhat", "ghsa", "bitnami">>
      known == {i \in 1..4 : preferred[i] \in DOMAIN v.cvss}
      first == CHOOSE i \in known : \A j \in known : i <= j IN
  CASE v.cvss = None -> None
    [] v.cvss # None /\ known # {} -> v.cvss[preferred[first]].v3_score
    [] OTHER -> IF DOMAIN v.cvss = {} THEN None ELSE v.cvss[CHOOSE s \in DOMAIN v.cvss : TRUE].v3_score

count_vulnerabilities_with_cvss_above_threshold(settings, report) ==
  Cardinality({place \in found(report) :
                 LET v == at(report, place) IN
                 /\ considered(settings, v)
                 /\ cvss_score(v) # None /\ cvss_score(v) >= settings.cvss_score.threshold})

find_vulnerabilities(settings, report, severity, fix) ==
  {place \in found(report) : /\ considered(settings, at(report, place))
                             /\ at(report, place).severity = severity
                             /\ has_fix(at(report, place)) = fix}

Violation(allowed, actual) == [allowed |-> allowed, actual |-> actual]

\* The violation, none if the limit is kept
find_violation(limit, with_fixes, without_fixes) ==
  LET unfixed == Cardinality(without_fixes)
      total == Cardinality(with_fixes) + unfixed IN
  CASE limit = None -> {}
    [] limit # None /\ limit.total # None -> {Violation(limit, n) : n \in {m \in {total} : m > limit.total}}
    [] OTHER -> {Violation(limit, n) : n \in {m \in {unfixed} : m > limit.totalWithoutFixes}}

violation_stats(settings, report) ==
  [severity \in Severity |->
     find_violation(settings.max_severity[severity],
                    find_vulnerabilities(settings, report, severity, TRUE),
                    find_vulnerabilities(settings, report, severity, FALSE))]

has_violations(stats) == \E severity \in Severity : stats[severity] # {}

\* The error of an image, None if it is accepted
ImageValidationError ==
  {"CvssScoreThresholdExceeded", "MaxSeverityExceeded", "AffectedByDeniedCVE",
   "VulnerabilityReportNotFound", "ManifestFetchError", "MalformedImageName", "CVENameMatchFailed"}

verify_vulnerability_report(settings, report) ==
  CASE vulnerabilities_ids(report) \intersect settings.deny_always # {} -> "AffectedByDeniedCVE"
    [] settings.cve_name # None /\ ~validate_values(settings.cve_name, vulnerabilities_ids(report)) ->
         "CVENameMatchFailed"
    [] /\ settings.cvss_score # None
       /\ count_vulnerabilities_with_cvss_above_threshold(settings, report) > settings.cvss_score.max_count ->
         "CvssScoreThresholdExceeded"
    [] /\ settings.max_severity # None /\ is_configured(settings.max_severity)
       /\ has_violations(violation_stats(settings, report)) -> "MaxSeverityExceeded"
    [] OTHER -> None

--------------------------------------------------------------------------------
\* A question is [container, call, selector]; a report is selected by [digest, name].
Heard(heard, container, call) ==
  LET of == {j \in HeardOf(heard, container) : heard[j].question.call = call} IN
  IF of = {} THEN None ELSE heard[CHOOSE j \in of : \A k \in of : k <= j].answer

Selector(digest, name) == [digest |-> digest, name |-> name]

\* The selector has no registry.
TagSelector(settings, image) ==
  LET image_ref == reference(image) IN
  Selector(None, [path |-> image_ref.path, tag |-> image_ref.tag, platform |-> platform(settings)])

\* The digest of the image: in its name, that of its manifest, which takes a second call, or
\* of the manifest an index has for the platform.  None while it is not known yet.
get_image_digest(settings, heard, container) ==
  LET manifest == Heard(heard, container, "manifest") IN
  IF ~Parses(container.image) THEN Error
  ELSE IF container.image.digest # None THEN container.image.digest
  ELSE IF manifest \in {None, Error} THEN manifest
  ELSE IF manifest.platforms = None THEN Heard(heard, container, "digest")
  ELSE IF platform(settings) \in DOMAIN manifest.platforms THEN manifest.platforms[platform(settings)]
  ELSE Error

\* What selects the report.  By tag, the name that has a digest is taken for the digest.
report_selector(settings, heard, container) ==
  IF settings.strategy = "digest" THEN Selector(get_image_digest(settings, heard, container), None)
  ELSE IF container.image.digest # None THEN Selector(container.image, None)
  ELSE TagSelector(settings, container.image)

\* The digest is looked for first; a name that does not parse has no report to ask for.
image_questions(settings, heard, container) ==
  LET selector == report_selector(settings, heard, container)
      known == Parses(container.image) /\ selector.digest # Error
      ask(call) == [container |-> container, call |-> call,
                    selector |-> IF call = "reports" THEN selector ELSE Selector(None, None)] IN
  CASE ~known -> {}
    [] known /\ selector = Selector(None, None) ->
         {ask(IF Heard(heard, container, "manifest") = None THEN "manifest" ELSE "digest")}
    [] OTHER -> IF Heard(heard, container, "reports") = None THEN {ask("reports")} ELSE {}

\* Mutant: a report that is missing shows no vulnerability.
missing_is_clean(settings, reports) ==
  IF reports \in {Error, {}} THEN None
  ELSE verify_vulnerability_report(settings, CHOOSE report \in reports : TRUE)

\* A listing that fails is a report that is missing.
process_vulnerability_report(settings, reports) ==
  IF reports \in {Error, {}}
    THEN IF settings.ignore_missing THEN None ELSE "VulnerabilityReportNotFound"
    ELSE verify_vulnerability_report(settings, CHOOSE report \in reports : TRUE)

\* Without the digest there is no report to look for; by tag the name has to parse.
verify_container_image(settings, heard, container) ==
  CASE settings.strategy = "digest" /\ get_image_digest(settings, heard, container) = Error ->
         IF settings.ignore_missing THEN None
         ELSE IF Parses(container.image) THEN "ManifestFetchError" ELSE "MalformedImageName"
    [] settings.strategy = "tag" /\ ~Parses(container.image) -> "MalformedImageName"
    [] OTHER -> process_vulnerability_report(settings, Heard(heard, container, "reports"))

\* One image after the other; a name that was refused is not looked at again.
cve_questions(settings, object, heard) ==
  IF resource_spec(object) = None \/ Traps(object) THEN {}
  ELSE LET containers == resource_spec(object).containers
           open == {c \in containers : image_questions(settings, heard, c) # {}}
           begun == {c \in open : \E i \in DOMAIN heard : heard[i].question.container = c}
           refused == {c.image : c \in {d \in containers \ open :
                                          verify_container_image(settings, heard, d) # None}} IN
       UNION {image_questions(settings, heard, c) :
                c \in {d \in (IF begun = {} THEN open ELSE begun) : d.image \notin refused}}

\* The errors of the images by their names
image_validation_errors(settings, object, heard) ==
  {[image |-> c.image, error |-> verify_container_image(settings, heard, c)] :
     c \in {d \in resource_spec(object).containers :
              /\ image_questions(settings, heard, d) = {}
              /\ verify_container_image(settings, heard, d) # None}}

cve_validate(settings, object, heard) ==
  resource_spec(object) # None =>
    ~Traps(object) /\ image_validation_errors(settings, object, heard) = {}

--------------------------------------------------------------------------------
\* What the host may answer.  A listing has some report first, which is the one used; the
\* reports are in the namespace of the settings, or else of the object.
namespace(settings, object) ==
  IF settings.report_namespace = None THEN object.namespace ELSE settings.report_namespace

cve_answers(settings, cluster, object, q) ==
  LET image == q.container.image
      selected == {r \in cluster.reports :
                     /\ r.namespace = namespace(settings, object)
                     /\ q.selector.digest \in {None, r.digest}
                     /\ q.selector.name \in {None, r.name}} IN
  CASE q.call = "reports" -> IF selected = {} THEN {{}} ELSE {{r} : r \in selected}
    [] q.call # "reports" /\ ~InRegistry(cluster, image) -> {Error}
    [] OTHER -> {IF q.call = "manifest" THEN cluster.registry[Named(image)]
                 ELSE cluster.registry[Named(image)].digest}
================================================================================
