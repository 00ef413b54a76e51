---------------------------- MODULE ReleasePipeline ----------------------------
(***************************************************************************)
(* The release of one policy, .github/workflows: trigger-policy-release    *)
(* opens a pull request that bumps the version, release-tag tags the merge *)
(* and dispatches release.yml, whose run for the tag pushes the image,     *)
(* fills and publishes a GitHub release and updates the artifacthub branch.*)
(* Runs for several tags overlap; jobs fail and maintainers start them     *)
(* again.                                                                  *)
(*                                                                         *)
(* GitHub (pull requests, jobs, releases), release-drafter, the registry   *)
(* and the maintainers are external.  Versions are numbered in the order   *)
(* of semver.                                                              *)
(***************************************************************************)
EXTENDS Integers

CONSTANTS
  MaxVersion,    \* bound: versions
  MaxReleases,   \* bound: GitHub releases that are created
  MaxTrouble,    \* bound: failures, restarts and races
  AssetCount,    \* files of a release
  MaxAttempts    \* pushes to the artifacthub branch that are tried

Version == 1..MaxVersion
MaybeVersion == 0..MaxVersion
ReleaseId == 1..MaxReleases

ASSUME BoundAssumption ==
  /\ MaxVersion \in Nat \ {0} /\ MaxReleases \in Nat \ {0}
  /\ MaxTrouble \in Nat /\ AssetCount \in Nat \ {0} /\ MaxAttempts \in Nat \ {0}

VARIABLES
  version,    \* the version in metadata.yml of the main branch
  pr,         \* the version in the open release pull request, 0 if there is none
  tagQueue,   \* the merge commit whose release-tag job waits, by its version
  tagJob,     \* the release-tag job that runs
  tags,       \* for each tag the version in metadata.yml of the commit, 0 if no tag
  release,    \* GitHub releases
  run,        \* for each tag the latest run of release.yml
  images,     \* tags of the image in the registry, with the version of the policy in it
  latest,     \* the version GitHub marks as latest
  hub,        \* the version on the artifacthub branch
  hubbed,     \* the versions that were ever pushed there
  trouble,    \* what went wrong so far
  overlap     \* two releases of the policy were under way at the same time

vars == <<version, pr, tagQueue, tagJob, tags, release, run, images,
          latest, hub, hubbed, trouble, overlap>>

branch == <<version, pr>>
tagging == <<tagQueue, tagJob>>
published == <<images, latest, hub, hubbed>>

NoTagJob == [step |-> "idle", version |-> 0]
TagJob == {NoTagJob} \union [step : {"tag", "dispatch"}, version : Version]

ReleaseState == {"none", "draft", "deleted", "published"}
Asset == 1..AssetCount
\* files: for each file the version it was built from, 0 if it is missing
ReleaseRecord == [state : ReleaseState, tag : MaybeVersion, files : [Asset -> MaybeVersion]]
NoRelease == [state |-> "none", tag |-> 0, files |-> [i \in Asset |-> 0]]

\* failed: a job of the release failed; hub failed: only push-artifacthub did
Step == {"none", "check", "image", "draft", "upload", "hub", "push",
         "done", "failed", "hub failed"}
\* count: the files that are uploaded, or the pushes that were tried
Run == [step : Step, id : 0..MaxReleases, count : Nat]
NoRun == [step |-> "none", id |-> 0, count |-> 0]
FirstStep == [step |-> "check", id |-> 0, count |-> 0]

Active(v) == run[v].step \notin {"none", "done", "failed", "hub failed"}

Drafts == {id \in ReleaseId : release[id].state = "draft"}

Released(v) == \E id \in ReleaseId : release[id].state = "published" /\ release[id].tag = v

--------------------------------------------------------------------------------
\* release-drafter: the draft of the policy is used again, or a new one is created
DraftIsMade(id) ==
  IF Drafts # {} THEN id \in Drafts /\ release' = release
  ELSE /\ release[id].state = "none"
       /\ \A lower \in 1..(id - 1) : release[lower].state # "none"
       /\ release' = [release EXCEPT ![id].state = "draft"]

\* Mutant: any version is accepted.
every_version(current, requested) == TRUE

\* open-release-pr: "Ensure that the requested version is not a downgrade"
not_a_downgrade(current, requested) == ~(current > requested)

\* Without an input, the next version is computed from the latest release, and
\* only if the current version has a tag.
resolves(resolved) ==
  \/ resolved \in Version                          \* input policy-version
  \/ tags[version] # 0 /\ \E v \in MaybeVersion :
       /\ v = 0 \/ Released(v)
       /\ \A w \in Version : Released(w) => w <= v
       /\ resolved = v + 1

\* trigger-policy-release: the draft is made, then the version is compared and the
\* pull request opened, or the open one updated.  Nothing is changed if the version
\* is the current one.
OpenReleasePR(resolved, id) ==
  /\ resolved \in Version /\ resolves(resolved)
  /\ DraftIsMade(id)
  /\ pr' = IF not_a_downgrade(version, resolved) /\ resolved # version THEN resolved ELSE pr
  /\ UNCHANGED <<version, tagging, tags, run, published, trouble, overlap>>

\* A maintainer or merge-green-prs.sh merges, which starts release-tag.  A job that
\* was already waiting for the one that runs is cancelled: the concurrency group keeps
\* one.
Merge ==
  /\ pr # 0
  /\ version' = pr /\ pr' = 0
  /\ tagQueue' = pr
  /\ overlap' = (overlap \/ tagQueue # 0 \/ tagJob # NoTagJob \/ \E v \in Version : Active(v))
  /\ UNCHANGED <<tagJob, tags, release, run, published, trouble>>

--------------------------------------------------------------------------------
\* release-tag starts with the oldest commit that waits.
StartTagJob ==
  /\ tagJob = NoTagJob /\ tagQueue # 0
  /\ tagJob' = [step |-> "tag", version |-> tagQueue]
  /\ tagQueue' = 0
  /\ UNCHANGED <<branch, tags, release, run, published, trouble, overlap>>

\* git tag fails if the tag exists.
CreateTag ==
  /\ tagJob.step = "tag"
  /\ IF tags[tagJob.version] # 0
       THEN tagJob' = NoTagJob /\ UNCHANGED tags
       ELSE /\ tags' = [tags EXCEPT ![tagJob.version] = tagJob.version]
            /\ tagJob' = [tagJob EXCEPT !.step = "dispatch"]
  /\ UNCHANGED <<branch, tagQueue, release, run, published, trouble, overlap>>

\* Mutant: the push of the tag is meant to start release.yml.
tag_push_only(v) == UNCHANGED <<run, overlap>>

\* A release that is started while another one is under way overlaps with it.
Start(v) ==
  /\ run' = [run EXCEPT ![v] = FirstStep]
  /\ overlap' = (overlap \/ \E other \in Version \ {v} : Active(other))

\* gh workflow run release.yml --ref <tag>
Dispatch ==
  /\ tagJob.step = "dispatch"
  /\ Start(tagJob.version)
  /\ tagJob' = NoTagJob
  /\ UNCHANGED <<branch, tagQueue, tags, release, published, trouble>>

Trouble == trouble < MaxTrouble /\ trouble' = trouble + 1

\* Between any two steps the job may fail; continue-on-error keeps the workflow green.
TagJobFails ==
  /\ tagJob # NoTagJob
  /\ Trouble
  /\ tagJob' = NoTagJob
  /\ UNCHANGED <<branch, tagQueue, tags, release, run, published, overlap>>

\* workflow_dispatch of release-tag checks main out.
RerunTagJob ==
  /\ Trouble
  /\ tagQueue' = version
  /\ UNCHANGED <<branch, tagJob, tags, release, run, published, overlap>>

\* A maintainer pushes a tag on main, which starts release.yml.  The tag may be one
\* that main is not at, by mistake.
PushTagByHand(v) ==
  /\ tags[v] = 0
  /\ IF v = version THEN UNCHANGED trouble ELSE Trouble
  /\ tags' = [tags EXCEPT ![v] = version]
  /\ Start(v)
  /\ UNCHANGED <<branch, tagging, release, published>>

\* workflow_dispatch of release.yml on a tag, or a rerun of all jobs
StartAgain(v) ==
  /\ tags[v] # 0 /\ ~Active(v)
  /\ Trouble
  /\ Start(v)
  /\ UNCHANGED <<branch, tagging, tags, release, published>>

--------------------------------------------------------------------------------
Goes(v, step) == run' = [run EXCEPT ![v] = [step |-> step, id |-> @.id, count |-> 0]]

\* Mutant: a tag on a commit with another version passes.
any_version(v) == TRUE

\* pre-release-checks
is_in_sync(v) == tags[v] = v

Check(v) ==
  /\ run[v].step = "check"
  /\ Goes(v, IF is_in_sync(v) THEN "image" ELSE "failed")
  /\ UNCHANGED <<branch, tagging, tags, release, published, trouble, overlap>>

\* The image with the version tag is pushed, and signed.
PushImage(v) ==
  /\ run[v].step = "image"
  /\ images' = [images EXCEPT ![v] = tags[v]]
  /\ Goes(v, "draft")
  /\ UNCHANGED <<branch, tagging, tags, release, latest, hub, hubbed, trouble, overlap>>

CreateRelease(v, id) ==
  /\ run[v].step = "draft"
  /\ DraftIsMade(id)
  /\ run' = [run EXCEPT ![v] = [step |-> "upload", id |-> id, count |-> 0]]
  /\ UNCHANGED <<branch, tagging, tags, published, trouble, overlap>>

\* Mutant: a file that is there already is replaced.
replaces(id, asset) == release[id].state = "draft"

\* uploadReleaseAsset: the name of a file may be used once in a release.
accepts_file(id, asset) == release[id].state = "draft" /\ release[id].files[asset] = 0

\* The files are uploaded one after the other; the first error fails the job.
UploadAsset(v) ==
  LET id == run[v].id  asset == run[v].count + 1 IN
  /\ run[v].step = "upload" /\ asset \in Asset
  /\ IF accepts_file(id, asset)
       THEN /\ release' = [release EXCEPT ![id].files[asset] = v]
            /\ run' = [run EXCEPT ![v].count = asset]
       ELSE Goes(v, "failed") /\ UNCHANGED release
  /\ UNCHANGED <<branch, tagging, tags, published, trouble, overlap>>

\* updateRelease publishes the draft under the tag, which may have one release.
PublishRelease(v) ==
  LET id == run[v].id IN
  /\ run[v].step = "upload" /\ run[v].count = AssetCount
  /\ IF release[id].state = "draft" /\ ~Released(v)
       THEN /\ release' = [release EXCEPT ![id] = [@ EXCEPT !.state = "published", !.tag = v]]
            /\ latest' = v
            /\ Goes(v, "hub")
       ELSE Goes(v, "failed") /\ UNCHANGED <<release, latest>>
  /\ UNCHANGED <<branch, tagging, tags, images, hub, hubbed, trouble, overlap>>

\* push-artifacthub: one job at a time checks the branch out and commits.
StartHubJob(v) ==
  /\ run[v].step = "hub"
  /\ \A other \in Version : run[other].step # "push"
  /\ Goes(v, "push")
  /\ UNCHANGED <<branch, tagging, tags, release, published, trouble, overlap>>

PushHub(v) ==
  /\ run[v].step = "push"
  /\ hub' = v /\ hubbed' = hubbed \union {v}
  /\ Goes(v, "done")
  /\ UNCHANGED <<branch, tagging, tags, release, images, latest, trouble, overlap>>

\* The branch moved between pull and push.  After the last attempt the status of
\* the loop is the one of sleep: the job succeeds.
LoseHubRace(v) ==
  /\ run[v].step = "push"
  /\ Trouble
  /\ IF run[v].count + 1 = MaxAttempts THEN Goes(v, "done")
     ELSE run' = [run EXCEPT ![v].count = @ + 1]
  /\ UNCHANGED <<branch, tagging, tags, release, published, overlap>>

\* A job of the run fails between two steps.
RunFails(v) ==
  /\ Active(v)
  /\ Trouble
  /\ Goes(v, IF run[v].step \in {"hub", "push"} THEN "hub failed" ELSE "failed")
  /\ UNCHANGED <<branch, tagging, tags, release, published, overlap>>

\* Re-run of the failed jobs.  push-artifacthub keeps the finished release job.
RerunFailedJobs(v) ==
  /\ run[v].step \in {"failed", "hub failed"}
  /\ Trouble
  /\ IF run[v].step = "failed" THEN Start(v)
     ELSE Goes(v, "hub") /\ UNCHANGED overlap
  /\ UNCHANGED <<branch, tagging, tags, release, published>>

\* A maintainer deletes the draft.
DeleteDraft(id) ==
  /\ id \in Drafts
  /\ Trouble
  /\ release' = [release EXCEPT ![id].state = "deleted"]
  /\ UNCHANGED <<branch, tagging, tags, run, published, overlap>>

--------------------------------------------------------------------------------
Init ==
  /\ version = 1 /\ pr = 0
  /\ tagQueue = 0 /\ tagJob = NoTagJob
  /\ tags = [v \in Version |-> 0]
  /\ release = [id \in ReleaseId |-> NoRelease]
  /\ run = [v \in Version |-> NoRun]
  /\ images = [v \in Version |-> 0]
  /\ latest = 0 /\ hub = 0 /\ hubbed = {}
  /\ trouble = 0 /\ overlap = FALSE

Next ==
  \/ \E resolved \in Version, id \in ReleaseId : OpenReleasePR(resolved, id)
  \/ Merge \/ StartTagJob \/ CreateTag \/ Dispatch \/ TagJobFails \/ RerunTagJob
  \/ \E v \in Version :
       \/ PushTagByHand(v) \/ StartAgain(v)
       \/ Check(v) \/ PushImage(v) \/ UploadAsset(v) \/ PublishRelease(v)
       \/ StartHubJob(v) \/ PushHub(v) \/ LoseHubRace(v)
       \/ RunFails(v) \/ RerunFailedJobs(v)
       \/ \E id \in ReleaseId : CreateRelease(v, id)
  \/ \E id \in ReleaseId : DeleteDraft(id)

Spec == Init /\ [][Next]_vars

\* The jobs run, and GitHub starts the ones that wait.  Nobody has to open or merge a
\* pull request, to push a tag, to start anything again or to delete a draft.
JobStep(v) ==
  \/ Check(v) \/ PushImage(v) \/ UploadAsset(v) \/ PublishRelease(v)
  \/ StartHubJob(v) \/ PushHub(v)
  \/ \E id \in ReleaseId : CreateRelease(v, id)

FairSpec ==
  /\ Spec
  /\ WF_vars(StartTagJob) /\ WF_vars(CreateTag) /\ WF_vars(Dispatch)
  /\ \A v \in Version : WF_vars(JobStep(v))

--------------------------------------------------------------------------------
TypeOK ==
  /\ version \in Version /\ pr \in MaybeVersion
  /\ tagQueue \in MaybeVersion /\ tagJob \in TagJob
  /\ tags \in [Version -> MaybeVersion]
  /\ release \in [ReleaseId -> ReleaseRecord]
  /\ run \in [Version -> Run]
  /\ images \in [Version -> MaybeVersion]
  /\ latest \in MaybeVersion /\ hub \in MaybeVersion /\ hubbed \subseteq Version
  /\ trouble \in 0..MaxTrouble /\ overlap \in BOOLEAN

Published(id) == release[id].state = "published"

\* A published release has the files of one build, the one of its own tag.
FilesAreOwn ==
  \A id \in ReleaseId : Published(id) =>
    release[id].files = [i \in Asset |-> release[id].tag]

\* A tag has one release, and release-drafter keeps one draft.
ReleasesAreUnique ==
  \A id, other \in ReleaseId :
    \/ release[id].state = "draft" /\ release[other].state = "draft"
    \/ Published(id) /\ Published(other) /\ release[id].tag = release[other].tag
    => id = other

\* Past pre-release-checks the tag is on a commit with its version; the image is
\* pushed before the release is drafted.
RunIsChecked(v) ==
  /\ run[v].step \in {"image", "draft", "upload", "hub", "push", "done", "hub failed"} => tags[v] = v
  /\ run[v].step \in {"draft", "upload", "hub", "push", "done", "hub failed"} => images[v] = v
  /\ run[v].step \in {"hub", "push", "done", "hub failed"} => Released(v)

\* A release has its first file from one run, and only that run goes on with it.
FirstAssetIsFirst ==
  \A id \in ReleaseId : release[id].files[1] = 0 => release[id].files = NoRelease.files

RunOwnsAssets(v) ==
  run[v].step = "upload" =>
    /\ run[v].id \in ReleaseId
    /\ run[v].count \in 0..AssetCount
    /\ run[v].count > 0 =>
         release[run[v].id].files = [i \in Asset |-> IF i <= run[v].count THEN v ELSE 0]

ReleasedAreTagged == \A v \in Version : Released(v) => tags[v] = v /\ images[v] = v

ListedAreReleased == \A v \in hubbed \union ({hub, latest} \ {0}) : Released(v)

\* What users find: a published release has its tag, on the commit with its version,
\* its image and the files built from that commit, and ArtifactHub and "latest" name
\* published releases.
ReleaseInv ==
  /\ TypeOK
  /\ FilesAreOwn /\ ReleasesAreUnique
  /\ FirstAssetIsFirst
  /\ \A v \in Version : RunIsChecked(v) /\ RunOwnsAssets(v)
  /\ ReleasedAreTagged /\ ListedAreReleased

\* Nobody restarted anything and no releases overlapped: the newest release is the
\* latest one, and ArtifactHub is never ahead of it.
NewestIsLatest ==
  trouble = 0 /\ ~overlap =>
    /\ \A v \in Version : Released(v) => v <= latest
    /\ hub <= latest

\* The pipeline implements PolicyReleases: a published release never changes.
Downloads == {[version |-> release[id].tag, files |-> release[id].files] :
                id \in {known \in ReleaseId : Published(known)}}

Releases == INSTANCE PolicyReleases WITH released <- Downloads, listed <- hub

ReleasesAreImmutable == Releases!Spec

\* A merged version is tagged, released and listed with no hand on it, unless something
\* went wrong or another release of the policy was under way.
MergedVersionsAreReleased ==
  \A v \in Version :
    tagQueue = v ~> (Released(v) /\ v \in hubbed) \/ trouble > 0 \/ overlap

\* release.yml: "Failed to push to artifacthub branch after 5 retries", exit 1.  A run
\* that ends well has pushed.
CompletedRunsAreListed == \A v \in Version : run[v].step = "done" => v \in hubbed
================================================================================
