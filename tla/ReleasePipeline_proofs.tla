------------------------ MODULE ReleasePipeline_proofs ------------------------
(***************************************************************************)
(* What users find of a release is consistent, for any number of versions, *)
(* releases, failures and files: ReleaseInv is inductive, and with it every *)
(* step of the pipeline is a step of PolicyReleases or changes nothing that *)
(* users see.                                                              *)
(***************************************************************************)
EXTENDS ReleasePipeline, TLAPS

USE BoundAssumption

LEMMA Sizes ==
  /\ Version \subseteq MaybeVersion /\ 0 \in MaybeVersion
  /\ \A v \in MaybeVersion : v # 0 => v \in Version
  /\ ReleaseId \subseteq 0..MaxReleases
  /\ 1 \in Asset
  /\ \A asset \in Asset : asset \in Nat
  BY DEF BoundAssumption, Version, MaybeVersion, ReleaseId, Asset

\* A draft is made: no other variable of ReleaseInv changes but the pull request.
LEMMA DraftIsTyped ==
  ASSUME TypeOK, NEW id \in ReleaseId, DraftIsMade(id)
  PROVE  release' \in [ReleaseId -> ReleaseRecord]
<1>1. release[id] \in ReleaseRecord
  BY DEF TypeOK
<1>2. [release[id] EXCEPT !.state = "draft"] \in ReleaseRecord
  BY <1>1 DEF ReleaseRecord, ReleaseState
<1> QED
  BY <1>2 DEF TypeOK, DraftIsMade

LEMMA TroubleTyped ==
  ASSUME TypeOK, trouble < MaxTrouble, trouble' = trouble + 1
  PROVE  trouble' \in 0..MaxTrouble
  BY DEF TypeOK, BoundAssumption

LEMMA RunTyped ==
  ASSUME TypeOK, NEW v \in Version, NEW r \in Run, run' = [run EXCEPT ![v] = r]
  PROVE  run' \in [Version -> Run]
  BY DEF TypeOK

LEMMA ReleaseTyped ==
  ASSUME TypeOK, NEW id \in ReleaseId, NEW r \in ReleaseRecord,
         release' = [release EXCEPT ![id] = r]
  PROVE  release' \in [ReleaseId -> ReleaseRecord]
  BY DEF TypeOK

LEMMA GoesTyped ==
  ASSUME TypeOK, NEW v \in Version, NEW step \in Step, Goes(v, step)
  PROVE  run' \in [Version -> Run]
<1>1. run[v] \in Run
  BY DEF TypeOK
<1>2. [step |-> step, id |-> run[v].id, count |-> 0] \in Run
  BY <1>1 DEF Run
<1> QED
  BY <1>2 DEF TypeOK, Goes

LEMMA StartTyped ==
  ASSUME TypeOK, NEW v \in Version, Start(v)
  PROVE  run' \in [Version -> Run] /\ overlap' \in BOOLEAN
<1>1. FirstStep \in Run
  BY DEF FirstStep, Run, Step, BoundAssumption
<1>2. run' \in [Version -> Run]
  BY <1>1 DEF TypeOK, Start
<1>3. overlap' \in BOOLEAN
  BY Zenon DEF Start
<1> QED
  BY <1>2, <1>3

\* Every action keeps the types.
LEMMA TypeStep == TypeOK /\ [Next]_vars => TypeOK'
<1> SUFFICES ASSUME TypeOK, [Next]_vars PROVE TypeOK'
  OBVIOUS
<1> USE Sizes DEF TypeOK, Trouble, branch, tagging, published
<1>1. ASSUME NEW resolved \in Version, NEW id \in ReleaseId, OpenReleasePR(resolved, id)
      PROVE TypeOK'
  BY <1>1, DraftIsTyped DEF OpenReleasePR
<1>2. CASE Merge
<2>1. overlap' \in BOOLEAN
  BY <1>2, Zenon DEF Merge
<2> QED
  BY <1>2, <2>1 DEF Merge
<1>3. CASE StartTagJob
  BY <1>3 DEF StartTagJob, TagJob
<1>4. CASE CreateTag
  BY <1>4 DEF CreateTag, TagJob, NoTagJob
<1>5. CASE Dispatch
  BY <1>5, StartTyped DEF Dispatch, TagJob, NoTagJob
<1>6. CASE TagJobFails \/ RerunTagJob
  BY <1>6 DEF TagJobFails, RerunTagJob, TagJob
<1>7. ASSUME NEW v \in Version, PushTagByHand(v) \/ StartAgain(v) PROVE TypeOK'
  BY <1>7, StartTyped DEF PushTagByHand, StartAgain
<1>8. ASSUME NEW v \in Version, Check(v) PROVE TypeOK'
  BY <1>8, GoesTyped DEF Check, Step
<1>9. ASSUME NEW v \in Version, PushImage(v) PROVE TypeOK'
  BY <1>9, GoesTyped DEF PushImage, Step
<1>10. ASSUME NEW v \in Version, UploadAsset(v) PROVE TypeOK'
<2> DEFINE id == run[v].id
           asset == run[v].count + 1
<2>1. run[v] \in Run /\ "failed" \in Step
  BY DEF Step
<2>2. CASE accepts_file(id, asset)
  <3>1. release' = [release EXCEPT ![id].files[asset] = v] /\ run' = [run EXCEPT ![v].count = asset]
    BY <1>10, <2>2 DEF UploadAsset
  <3>2. asset \in Asset
    BY <1>10 DEF UploadAsset
  <3>3. [run[v] EXCEPT !.count = asset] \in Run
    BY <2>1, <3>2 DEF Run
  <3>4. run' \in [Version -> Run]
    BY <3>1, <3>3, RunTyped
  <3>5. ASSUME id \in ReleaseId PROVE release' \in [ReleaseId -> ReleaseRecord]
    <4>1. [release[id] EXCEPT !.files[asset] = v] \in ReleaseRecord
      BY <3>2, <3>5 DEF ReleaseRecord
    <4> QED
      BY <3>1, <3>5, <4>1, ReleaseTyped
  <3>6. ASSUME id \notin ReleaseId PROVE release' \in [ReleaseId -> ReleaseRecord]
    BY <3>1, <3>6
  <3> QED
    BY <1>10, <3>4, <3>5, <3>6 DEF UploadAsset
<2>3. CASE ~accepts_file(id, asset)
  BY <1>10, <2>1, <2>3, GoesTyped DEF UploadAsset
<2> QED
  BY <2>2, <2>3
<1>11. ASSUME NEW v \in Version, PublishRelease(v) PROVE TypeOK'
<2> DEFINE id == run[v].id
<2>1. run' \in [Version -> Run]
  BY <1>11, GoesTyped DEF PublishRelease, Step
<2>2. CASE release[id].state = "draft" /\ ~Released(v)
  <3>1. release' = [release EXCEPT ![id] = [@ EXCEPT !.state = "published", !.tag = v]]
    BY <1>11, <2>2 DEF PublishRelease
  <3>2. ASSUME id \in ReleaseId PROVE release' \in [ReleaseId -> ReleaseRecord]
    <4>1. [release[id] EXCEPT !.state = "published", !.tag = v] \in ReleaseRecord
      BY <3>2 DEF ReleaseRecord, ReleaseState
    <4> QED
      BY <3>1, <3>2, <4>1, ReleaseTyped
  <3>3. ASSUME id \notin ReleaseId PROVE release' \in [ReleaseId -> ReleaseRecord]
    BY <3>1, <3>3
  <3> QED
    BY <1>11, <2>1, <2>2, <3>2, <3>3 DEF PublishRelease
<2>3. CASE ~(release[id].state = "draft" /\ ~Released(v))
  BY <1>11, <2>1, <2>3 DEF PublishRelease
<2> QED
  BY <2>2, <2>3
<1>12. ASSUME NEW v \in Version, StartHubJob(v) \/ PushHub(v) PROVE TypeOK'
  BY <1>12, GoesTyped DEF StartHubJob, PushHub, Step
<1>13. ASSUME NEW v \in Version, LoseHubRace(v) PROVE TypeOK'
<2>1. [run[v] EXCEPT !.count = @ + 1] \in Run
  BY DEF Run
<2>2. run' \in [Version -> Run]
  BY <1>13, <2>1, GoesTyped, RunTyped DEF LoseHubRace, Step
<2> QED
  BY <1>13, <2>2 DEF LoseHubRace
<1>14. ASSUME NEW v \in Version, RunFails(v) PROVE TypeOK'
<2>1. Goes(v, "failed") \/ Goes(v, "hub failed")
  BY <1>14 DEF RunFails
<2>2. run' \in [Version -> Run]
  BY <2>1, GoesTyped DEF Step
<2>3. trouble' \in 0..MaxTrouble
  BY <1>14, TroubleTyped DEF RunFails
<2> QED
  BY <1>14, <2>2, <2>3 DEF RunFails
<1>15. ASSUME NEW v \in Version, RerunFailedJobs(v) PROVE TypeOK'
<2>1. Start(v) \/ (Goes(v, "hub") /\ UNCHANGED overlap)
  BY <1>15 DEF RerunFailedJobs
<2>2. run' \in [Version -> Run]
  BY <2>1, GoesTyped, StartTyped DEF Step
<2>3. overlap' \in BOOLEAN
  BY <2>1, StartTyped
<2>4. trouble' \in 0..MaxTrouble
  BY <1>15, TroubleTyped DEF RerunFailedJobs
<2> QED
  BY <1>15, <2>2, <2>3, <2>4 DEF RerunFailedJobs
<1>16. ASSUME NEW v \in Version, NEW id \in ReleaseId, CreateRelease(v, id) PROVE TypeOK'
  BY <1>16, DraftIsTyped DEF CreateRelease, Step, Run
<1>17. ASSUME NEW id \in ReleaseId, DeleteDraft(id) PROVE TypeOK'
  BY <1>17 DEF DeleteDraft, ReleaseRecord, ReleaseState
<1>18. CASE UNCHANGED vars
  BY <1>18 DEF vars
<1> QED
  BY <1>1, <1>2, <1>3, <1>4, <1>5, <1>6, <1>7, <1>8, <1>9, <1>10, <1>11, <1>12, <1>13,
     <1>14, <1>15, <1>16, <1>17, <1>18 DEF Next

--------------------------------------------------------------------------------
\* At most one run moves and releases become drafts at most: nothing that is
\* published or tagged changes.
SameRelease(id) ==
  /\ release'[id].files = release[id].files
  /\ release'[id].tag = release[id].tag
  /\ Published(id)' <=> Published(id)

LEMMA RunMoves ==
  ASSUME ReleaseInv, TypeOK', NEW v \in Version,
         \A id \in ReleaseId : SameRelease(id),
         ReleasesAreUnique',
         UNCHANGED <<images, latest, hub, hubbed>>,
         \A w \in Version : tags[w] # 0 => tags'[w] = tags[w],
         \A w \in Version \ {v} : run'[w] = run[w],
         RunIsChecked(v)', RunOwnsAssets(v)'
  PROVE  ReleaseInv'
<1>1. \A w : Released(w)' <=> Released(w)
  BY DEF Released, Published, SameRelease
<1>2. FilesAreOwn'
  <2>1. FilesAreOwn
    BY DEF ReleaseInv
  <2>2. ASSUME NEW id \in ReleaseId, Published(id)'
        PROVE  release'[id].files = [i \in Asset |-> release'[id].tag]
    <3>1. SameRelease(id)
      OBVIOUS
    <3>2. Published(id)
      BY <2>2, <3>1 DEF SameRelease
    <3>3. release[id].files = [i \in Asset |-> release[id].tag]
      BY <2>1, <3>2 DEF FilesAreOwn
    <3> QED
      BY <3>1, <3>3 DEF SameRelease
  <2> QED
    BY <2>2 DEF FilesAreOwn
<1>3. FirstAssetIsFirst'
  BY DEF ReleaseInv, FirstAssetIsFirst, NoRelease, SameRelease
<1>4. \A w \in Version : tags[w] = w => tags'[w] = w
  BY DEF Version, BoundAssumption
<1>5. ASSUME NEW w \in Version \ {v} PROVE RunIsChecked(w)' /\ RunOwnsAssets(w)'
  <2>1. run'[w] = run[w] /\ RunIsChecked(w) /\ RunOwnsAssets(w)
    BY DEF ReleaseInv
  <2>2. RunIsChecked(w)'
    BY <1>1, <1>4, <2>1 DEF RunIsChecked
  <2>3. RunOwnsAssets(w)'
    BY <2>1 DEF RunOwnsAssets, SameRelease
  <2> QED
    BY <2>2, <2>3
<1>6. ReleasedAreTagged' /\ ListedAreReleased'
  BY <1>1, <1>4 DEF ReleaseInv, ReleasedAreTagged, ListedAreReleased
<1> QED
  BY <1>2, <1>3, <1>5, <1>6 DEF ReleaseInv

LEMMA NoRunMoves ==
  ASSUME ReleaseInv, TypeOK',
         \A id \in ReleaseId : SameRelease(id),
         ReleasesAreUnique',
         UNCHANGED <<run, images, latest, hub, hubbed>>,
         \A w \in Version : tags[w] # 0 => tags'[w] = tags[w]
  PROVE  ReleaseInv'
<1>1. 1 \in Version /\ 1 # 0
  BY DEF Version, BoundAssumption
<1>2. \A w : Released(w)' <=> Released(w)
  BY DEF Released, Published, SameRelease
<1>3. RunIsChecked(1) /\ RunOwnsAssets(1)
  BY <1>1 DEF ReleaseInv
<1>4. RunIsChecked(1)'
  BY <1>1, <1>2, <1>3 DEF RunIsChecked
<1>5. RunOwnsAssets(1)'
  BY <1>3 DEF RunOwnsAssets, SameRelease
<1> QED
  BY <1>1, <1>4, <1>5, RunMoves

LEMMA SameReleaseRecords ==
  ASSUME ReleaseInv, UNCHANGED release
  PROVE  (\A id \in ReleaseId : SameRelease(id)) /\ ReleasesAreUnique'
<1>1. \A id : Published(id)' <=> Published(id)
  BY DEF Published
<1> QED
  BY <1>1 DEF ReleaseInv, ReleasesAreUnique, SameRelease

\* The draft that is used again or created is the only one.
LEMMA DraftIsOnlyOne ==
  ASSUME ReleaseInv, NEW new \in ReleaseId, DraftIsMade(new)
  PROVE  /\ \A id \in ReleaseId : SameRelease(id)
         /\ ReleasesAreUnique'
         /\ ~Published(new)'
<1>1. CASE Drafts # {}
  BY <1>1, SameReleaseRecords DEF DraftIsMade, Drafts, Published
<1>2. CASE Drafts = {}
  <2>1. release[new].state = "none" /\ release' = [release EXCEPT ![new].state = "draft"]
    BY <1>2 DEF DraftIsMade
  <2>2. ASSUME NEW id \in ReleaseId
        PROVE  SameRelease(id) /\ (id # new => release'[id] = release[id])
    BY <2>1 DEF SameRelease, ReleaseInv, TypeOK, ReleaseRecord, Published
  <2>3. \A id \in ReleaseId : release[id].state # "draft"
    BY <1>2 DEF Drafts
  <2>4. ReleasesAreUnique'
    <3> SUFFICES ASSUME NEW id \in ReleaseId, NEW other \in ReleaseId, id # other,
                        \/ release'[id].state = "draft" /\ release'[other].state = "draft"
                        \/ Published(id)' /\ Published(other)' /\ release'[id].tag = release'[other].tag
                 PROVE  FALSE
      BY DEF ReleasesAreUnique
    <3>1. ~(release'[id].state = "draft" /\ release'[other].state = "draft")
      BY <2>2, <2>3
    <3> QED
      BY <2>2, <3>1 DEF SameRelease, ReleaseInv, ReleasesAreUnique
  <2>5. ~Published(new)'
    BY <2>1 DEF Published, ReleaseInv, TypeOK, ReleaseRecord
  <2> QED
    BY <2>2, <2>4, <2>5
<1> QED
  BY <1>1, <1>2

--------------------------------------------------------------------------------
\* A file is added to a draft by the run that has its first file.
LEMMA UploadKeepsReleases ==
  ASSUME ReleaseInv, TypeOK', NEW v \in Version, UploadAsset(v),
         accepts_file(run[v].id, run[v].count + 1)
  PROVE  ReleaseInv'
<1> DEFINE id == run[v].id
           asset == run[v].count + 1
<1>1. /\ run[v].step = "upload" /\ asset \in Asset
      /\ release' = [release EXCEPT ![id].files[asset] = v]
      /\ run' = [run EXCEPT ![v].count = asset]
      /\ UNCHANGED <<tags, images, latest, hub, hubbed>>
  BY DEF UploadAsset, tagging, published
<1>2. id \in ReleaseId /\ run[v].count \in 0..AssetCount /\ RunOwnsAssets(v)
  BY <1>1 DEF ReleaseInv, RunOwnsAssets
<1>3. release[id].state = "draft" /\ release[id].files[asset] = 0
  BY DEF accepts_file
<1>4. release[id] \in ReleaseRecord /\ run[v] \in Run
  BY <1>2 DEF ReleaseInv, TypeOK
<1>5. /\ release'[id] = [release[id] EXCEPT !.files[asset] = v]
      /\ \A other \in ReleaseId \ {id} : release'[other] = release[other]
      /\ run'[v] = [run[v] EXCEPT !.count = asset]
      /\ \A w \in Version \ {v} : run'[w] = run[w]
  BY <1>1, <1>2 DEF ReleaseInv, TypeOK
<1>6. /\ release'[id].state = "draft" /\ release'[id].tag = release[id].tag
      /\ release'[id].files = [release[id].files EXCEPT ![asset] = v]
  BY <1>3, <1>4, <1>5 DEF ReleaseRecord
<1>7. \A other \in ReleaseId : /\ release'[other].state = release[other].state
                               /\ release'[other].tag = release[other].tag
                               /\ Published(other)' <=> Published(other)
                               /\ Published(other) => release'[other] = release[other]
  <2>1. ASSUME NEW other \in ReleaseId, other = id
        PROVE  /\ release'[other].state = release[other].state
               /\ release'[other].tag = release[other].tag
               /\ ~Published(other)' /\ ~Published(other)
    BY <1>3, <1>6, <2>1 DEF Published
  <2>2. ASSUME NEW other \in ReleaseId, other # id
        PROVE  /\ release'[other] = release[other]
               /\ Published(other)' <=> Published(other)
    BY <1>5, <2>2 DEF Published
  <2> QED
    BY <2>1, <2>2
<1>8. \A w : Released(w)' <=> Released(w)
  BY <1>7 DEF Released
<1>9. FilesAreOwn' /\ ReleasesAreUnique'
<2>1. FilesAreOwn /\ ReleasesAreUnique
  BY DEF ReleaseInv
<2>2. ASSUME NEW other \in ReleaseId, Published(other)'
      PROVE  release'[other].files = [i \in Asset |-> release'[other].tag]
  <3>1. Published(other) /\ release'[other] = release[other]
    BY <1>7, <2>2
  <3>2. release[other].files = [i \in Asset |-> release[other].tag]
    BY <2>1, <3>1 DEF FilesAreOwn
  <3> QED
    BY <3>1, <3>2
<2>3. FilesAreOwn'
  BY <2>2 DEF FilesAreOwn
<2>4. ReleasesAreUnique'
  BY <1>7, <2>1 DEF ReleasesAreUnique
<2> QED
  BY <2>3, <2>4
<1>10. release'[id].files = [i \in Asset |-> IF i <= asset THEN v ELSE 0]
  <2>1. release[id].files = [i \in Asset |-> IF i <= run[v].count THEN v ELSE 0]
    <3>1. CASE run[v].count = 0
      <4>1. asset = 1
        BY <3>1
      <4>2. release[id].files = [i \in Asset |-> 0]
        BY <1>2, <1>3, <4>1 DEF ReleaseInv, FirstAssetIsFirst, NoRelease
      <4> QED
        BY <3>1, <4>2 DEF Asset, BoundAssumption
    <3>2. CASE run[v].count > 0
      BY <1>1, <1>2, <3>2 DEF RunOwnsAssets
    <3> QED
      BY <1>2, <3>1, <3>2
  <2> QED
    <3> DEFINE before == [i \in Asset |-> IF i <= run[v].count THEN v ELSE 0]
               after == [i \in Asset |-> IF i <= asset THEN v ELSE 0]
    <3>1. release'[id].files = [before EXCEPT ![asset] = v]
      BY <1>6, <2>1
    <3>2. ASSUME NEW i \in Asset PROVE [before EXCEPT ![asset] = v][i] = after[i]
      BY <1>1, <1>2 DEF Asset, BoundAssumption
    <3>3. [before EXCEPT ![asset] = v] = after
      BY <3>2
    <3> QED
      BY <3>1, <3>3
<1>11. FirstAssetIsFirst'
  <2>1. release'[id].files[1] = v /\ v # 0
    BY <1>1, <1>2, <1>10 DEF Asset, Version, BoundAssumption
  <2> QED
    BY <1>5, <2>1 DEF ReleaseInv, FirstAssetIsFirst, NoRelease
<1>12. RunOwnsAssets(v)'
  <2>1. run'[v].id = id /\ run'[v].count = asset /\ asset \in 0..AssetCount
    BY <1>1, <1>2, <1>4, <1>5 DEF Run, Asset, BoundAssumption
  <2> QED
    BY <1>2, <1>10, <2>1 DEF RunOwnsAssets
<1>13. ASSUME NEW w \in Version \ {v} PROVE RunOwnsAssets(w)'
  <2>1. RunOwnsAssets(w) /\ run'[w] = run[w]
    BY <1>5 DEF ReleaseInv
  <2>2. CASE run[w].step = "upload" /\ run[w].count > 0 /\ run[w].id = id
    \* the first file of the draft is w's: v does not start, nor go on, there
    <3>1. release[id].files = [i \in Asset |-> IF i <= run[w].count THEN w ELSE 0]
      BY <2>1, <2>2 DEF RunOwnsAssets
    <3>2. release[id].files[1] = w
      BY <2>2, <3>1, Sizes, <2>1 DEF RunOwnsAssets
    <3>3. CASE run[v].count = 0
      BY <1>3, <3>2, <3>3 DEF Version, BoundAssumption
    <3>4. CASE run[v].count > 0
      <4>1. release[id].files[1] = v
        BY <1>1, <1>2, <3>4, Sizes DEF RunOwnsAssets
      <4> QED
        BY <3>2, <4>1
    <3> QED
      BY <1>2, <3>3, <3>4
  <2>3. CASE ~(run[w].step = "upload" /\ run[w].count > 0 /\ run[w].id = id)
    BY <1>5, <2>1, <2>3 DEF RunOwnsAssets
  <2> QED
    BY <2>2, <2>3
<1>14. ASSUME NEW w \in Version PROVE RunIsChecked(w)'
  <2>1. RunIsChecked(w) /\ run'[w].step = run[w].step
    BY <1>4, <1>5 DEF ReleaseInv, Run
  <2> QED
    BY <1>1, <1>8, <2>1 DEF RunIsChecked
<1>15. ReleasedAreTagged' /\ ListedAreReleased'
  BY <1>1, <1>8 DEF ReleaseInv, ReleasedAreTagged, ListedAreReleased
<1> QED
  BY <1>9, <1>11, <1>12, <1>13, <1>14, <1>15 DEF ReleaseInv

\* The draft becomes the one release of its tag, with the files of this run.
LEMMA PublishKeepsReleases ==
  ASSUME ReleaseInv, TypeOK', NEW v \in Version, PublishRelease(v),
         release[run[v].id].state = "draft", ~Released(v)
  PROVE  /\ ReleaseInv'
         /\ run[v].id \in ReleaseId
         /\ \A other \in ReleaseId \ {run[v].id} : release'[other] = release[other]
         /\ release'[run[v].id].state = "published"
         /\ release'[run[v].id].tag = v
         /\ release'[run[v].id].files = [i \in Asset |-> v]
<1> DEFINE id == run[v].id
<1>1. /\ run[v].step = "upload" /\ run[v].count = AssetCount
      /\ release' = [release EXCEPT ![id] = [@ EXCEPT !.state = "published", !.tag = v]]
      /\ latest' = v /\ Goes(v, "hub")
      /\ UNCHANGED <<tags, images, hub, hubbed>>
  BY DEF PublishRelease, tagging, published
<1>2. /\ id \in ReleaseId
      /\ release[id].files = [i \in Asset |-> IF i <= AssetCount THEN v ELSE 0]
      /\ tags[v] = v /\ images[v] = v
<2>1. RunOwnsAssets(v) /\ RunIsChecked(v) /\ AssetCount > 0
  BY DEF ReleaseInv, BoundAssumption
<2> QED
  BY <1>1, <2>1 DEF RunOwnsAssets, RunIsChecked
<1>3. release[id].files = [i \in Asset |-> v]
  BY <1>2 DEF Asset, BoundAssumption
<1>4. release[id] \in ReleaseRecord
  BY <1>2 DEF ReleaseInv, TypeOK
<1>5. /\ release'[id] = [release[id] EXCEPT !.state = "published", !.tag = v]
      /\ \A other \in ReleaseId \ {id} : release'[other] = release[other]
  BY <1>1, <1>2 DEF ReleaseInv, TypeOK
<1>6. /\ release'[id].state = "published" /\ release'[id].tag = v
      /\ release'[id].files = [i \in Asset |-> v]
  BY <1>3, <1>4, <1>5 DEF ReleaseRecord
<1>7. \A w : Released(w)' <=> Released(w) \/ w = v
<2>1. ASSUME NEW w, Released(w)' PROVE Released(w) \/ w = v
  BY <1>5, <1>6, <2>1 DEF Released
<2>2. ASSUME NEW w, Released(w) PROVE Released(w)'
  BY <1>5, <2>2 DEF Released
<2>3. Released(v)'
  BY <1>2, <1>6 DEF Released
<2> QED
  BY <2>1, <2>2, <2>3
<1>8. FilesAreOwn'
  <2> SUFFICES ASSUME NEW other \in ReleaseId, Published(other)'
               PROVE  release'[other].files = [i \in Asset |-> release'[other].tag]
    BY DEF FilesAreOwn
  <2>1. CASE other = id
    BY <1>6, <2>1
  <2>2. CASE other # id
    <3>1. release'[other] = release[other]
      BY <1>5, <2>2
    <3>2. Published(other)
      BY <3>1 DEF Published
    <3> QED
      BY <3>1, <3>2 DEF ReleaseInv, FilesAreOwn
  <2> QED
    BY <2>1, <2>2
<1>9. ReleasesAreUnique'
  <2>1. ASSUME NEW other \in ReleaseId \ {id}, Published(other)' PROVE release'[other].tag # v
    BY <1>5, <2>1 DEF Published, Released
  <2>2. ReleasesAreUnique
    BY DEF ReleaseInv
  <2>3. ASSUME NEW other \in ReleaseId \ {id}, NEW another \in ReleaseId \ {id},
               \/ release'[other].state = "draft" /\ release'[another].state = "draft"
               \/ Published(other)' /\ Published(another)'
                    /\ release'[other].tag = release'[another].tag
        PROVE  other = another
    BY <1>5, <2>2, <2>3 DEF ReleasesAreUnique, Published
  <2> QED
    BY <1>6, <2>1, <2>3 DEF ReleasesAreUnique
<1>10. FirstAssetIsFirst'
  <2>1. release'[id].files[1] = v /\ v # 0
    BY <1>6, Sizes DEF Version, BoundAssumption
  <2> QED
    BY <1>5, <2>1 DEF ReleaseInv, FirstAssetIsFirst, NoRelease
<1>11. /\ run'[v].step = "hub"
       /\ \A w \in Version \ {v} : run'[w] = run[w]
  BY <1>1 DEF Goes, ReleaseInv, TypeOK
<1>12. ASSUME NEW w \in Version PROVE RunIsChecked(w)' /\ RunOwnsAssets(w)'
  <2>1. CASE w = v
    BY <1>1, <1>2, <1>7, <1>11, <2>1 DEF RunIsChecked, RunOwnsAssets
  <2>2. CASE w # v
    <3>1. run'[w] = run[w] /\ RunIsChecked(w) /\ RunOwnsAssets(w)
      BY <1>11, <2>2 DEF ReleaseInv
    <3>2. RunIsChecked(w)'
      BY <1>1, <1>7, <3>1 DEF RunIsChecked
    <3>3. RunOwnsAssets(w)'
      <4>1. \A other \in ReleaseId : release'[other].files = release[other].files
        BY <1>3, <1>5, <1>6
      <4> QED
        BY <3>1, <4>1 DEF RunOwnsAssets
    <3> QED
      BY <3>2, <3>3
  <2> QED
    BY <2>1, <2>2
<1>13. ReleasedAreTagged' /\ ListedAreReleased'
  BY <1>1, <1>2, <1>7 DEF ReleaseInv, ReleasedAreTagged, ListedAreReleased
<1> QED
  BY <1>2, <1>5, <1>6, <1>8, <1>9, <1>10, <1>12, <1>13 DEF ReleaseInv

--------------------------------------------------------------------------------
\* One step for each action: most only move one run, or none.
LEMMA InvStep == ReleaseInv /\ [Next]_vars => ReleaseInv'
<1> SUFFICES ASSUME ReleaseInv, [Next]_vars PROVE ReleaseInv'
  OBVIOUS
<1>1. TypeOK /\ TypeOK'
  BY TypeStep DEF ReleaseInv
<1>2. ASSUME NEW v \in Version, UNCHANGED <<release, images, latest, hub, hubbed>>,
             \A w \in Version : tags[w] # 0 => tags'[w] = tags[w],
             \A w \in Version \ {v} : run'[w] = run[w],
             RunIsChecked(v)', RunOwnsAssets(v)'
      PROVE  ReleaseInv'
  BY <1>1, <1>2, SameReleaseRecords, RunMoves
<1>3. ASSUME UNCHANGED <<tags, release, run, published>> PROVE ReleaseInv'
  BY <1>1, <1>3, SameReleaseRecords, NoRunMoves DEF published
\* The first steps of a run say nothing about the release yet.
<1>4. ASSUME NEW v \in Version,
             run'[v].step \in {"none", "check", "failed"},
             \A w \in Version \ {v} : run'[w] = run[w],
             \A w \in Version : tags[w] # 0 => tags'[w] = tags[w],
             UNCHANGED <<release, images, latest, hub, hubbed>>
      PROVE  ReleaseInv'
  BY <1>2, <1>4 DEF RunIsChecked, RunOwnsAssets
<1>5. ASSUME NEW v \in Version, Start(v)
      PROVE  run'[v].step = "check" /\ \A w \in Version \ {v} : run'[w] = run[w]
  BY <1>1, <1>5 DEF Start, FirstStep, TypeOK
<1>6. ASSUME NEW v \in Version, NEW step, Goes(v, step)
      PROVE  run'[v].step = step /\ \A w \in Version \ {v} : run'[w] = run[w]
  BY <1>1, <1>6 DEF Goes, TypeOK
<1>7. ASSUME NEW resolved \in Version, NEW id \in ReleaseId, OpenReleasePR(resolved, id)
      PROVE  ReleaseInv'
  <2>1. DraftIsMade(id) /\ UNCHANGED <<tags, run, images, latest, hub, hubbed>>
    BY <1>7 DEF OpenReleasePR, published
  <2>2. (\A other \in ReleaseId : SameRelease(other)) /\ ReleasesAreUnique'
    BY <2>1, DraftIsOnlyOne
  <2> QED
    BY <1>1, <2>1, <2>2, NoRunMoves
<1>8. CASE Merge \/ StartTagJob \/ TagJobFails \/ RerunTagJob
  BY <1>3, <1>8 DEF Merge, StartTagJob, TagJobFails, RerunTagJob
<1>9. CASE CreateTag
  <2>1. \A w \in Version : tags[w] # 0 => tags'[w] = tags[w]
    BY <1>1, <1>9 DEF CreateTag, TypeOK
  <2>2. UNCHANGED <<release, run, images, latest, hub, hubbed>>
    BY <1>9 DEF CreateTag, published
  <2> QED
    BY <1>1, <2>1, <2>2, SameReleaseRecords, NoRunMoves
<1>10. CASE Dispatch
  <2>1. tagJob.version \in Version
    BY <1>1, <1>10 DEF Dispatch, TypeOK, TagJob, NoTagJob
  <2> QED
    BY <1>4, <1>5, <1>10, <2>1 DEF Dispatch, published
<1>11. ASSUME NEW v \in Version, PushTagByHand(v) PROVE ReleaseInv'
  <2>1. \A w \in Version : tags[w] # 0 => tags'[w] = tags[w]
    BY <1>1, <1>11 DEF PushTagByHand, TypeOK
  <2> QED
    BY <1>4, <1>5, <1>11, <2>1 DEF PushTagByHand, published
<1>12. ASSUME NEW v \in Version, StartAgain(v) PROVE ReleaseInv'
  BY <1>4, <1>5, <1>12 DEF StartAgain, published
<1>13. ASSUME NEW v \in Version, Check(v) PROVE ReleaseInv'
  <2>1. CASE is_in_sync(v)
    <3>1. run'[v].step = "image" /\ \A w \in Version \ {v} : run'[w] = run[w]
      BY <1>6, <1>13, <2>1 DEF Check
    <3>2. RunIsChecked(v)' /\ RunOwnsAssets(v)'
      BY <1>13, <2>1, <3>1 DEF Check, is_in_sync, RunIsChecked, RunOwnsAssets
    <3> QED
      BY <1>2, <1>13, <3>1, <3>2 DEF Check, published
  <2>2. CASE ~is_in_sync(v)
    BY <1>4, <1>6, <1>13, <2>2 DEF Check, published
  <2> QED
    BY <2>1, <2>2
<1>14. ASSUME NEW v \in Version, PushImage(v) PROVE ReleaseInv'
  <2>1. /\ run[v].step = "image" /\ tags[v] = v /\ images' = [images EXCEPT ![v] = v]
        /\ UNCHANGED <<tags, release, latest, hub, hubbed>>
    BY <1>14 DEF PushImage, ReleaseInv, RunIsChecked
  <2>2. run'[v].step = "draft" /\ \A w \in Version \ {v} : run'[w] = run[w]
    BY <1>6, <1>14 DEF PushImage
  <2>3. images'[v] = v /\ \A w \in Version \ {v} : images'[w] = images[w]
    BY <1>1, <2>1 DEF TypeOK
  <2>4. \A w : Released(w)' <=> Released(w)
    BY <2>1 DEF Released
  <2>5. FilesAreOwn' /\ ReleasesAreUnique' /\ FirstAssetIsFirst'
    BY <2>1 DEF ReleaseInv, FilesAreOwn, ReleasesAreUnique, FirstAssetIsFirst, Published, NoRelease
  <2>6. ASSUME NEW w \in Version PROVE RunIsChecked(w)' /\ RunOwnsAssets(w)'
    <3>1. RunIsChecked(w) /\ RunOwnsAssets(w)
      BY DEF ReleaseInv
    <3>2. RunIsChecked(w)'
      BY <2>1, <2>2, <2>3, <2>4, <3>1 DEF RunIsChecked
    <3>3. RunOwnsAssets(w)'
      BY <2>1, <2>2, <3>1 DEF RunOwnsAssets
    <3> QED
      BY <3>2, <3>3
  <2>7. ReleasedAreTagged' /\ ListedAreReleased'
    BY <2>1, <2>3, <2>4 DEF ReleaseInv, ReleasedAreTagged, ListedAreReleased
  <2> QED
    BY <1>1, <2>5, <2>6, <2>7 DEF ReleaseInv
<1>15. ASSUME NEW v \in Version, NEW id \in ReleaseId, CreateRelease(v, id) PROVE ReleaseInv'
  <2>1. /\ DraftIsMade(id) /\ run[v].step = "draft"
        /\ run' = [run EXCEPT ![v] = [step |-> "upload", id |-> id, count |-> 0]]
        /\ UNCHANGED <<tags, images, latest, hub, hubbed>>
    BY <1>15 DEF CreateRelease, published
  <2>2. (\A other \in ReleaseId : SameRelease(other)) /\ ReleasesAreUnique'
    BY <2>1, DraftIsOnlyOne
  <2>3. /\ run'[v] = [step |-> "upload", id |-> id, count |-> 0]
        /\ \A w \in Version \ {v} : run'[w] = run[w]
    BY <1>1, <2>1 DEF TypeOK
  <2>4. RunIsChecked(v)'
    <3>1. tags[v] = v /\ images[v] = v
      BY <2>1 DEF ReleaseInv, RunIsChecked
    <3>2. run'[v].step = "upload"
      BY <2>3
    <3> QED
      BY <2>1, <3>1, <3>2 DEF RunIsChecked
  <2>5. RunOwnsAssets(v)'
    BY <2>3 DEF RunOwnsAssets, BoundAssumption
  <2> QED
    BY <1>1, <2>1, <2>2, <2>3, <2>4, <2>5, RunMoves
<1>16. ASSUME NEW v \in Version, UploadAsset(v) PROVE ReleaseInv'
  <2>1. CASE accepts_file(run[v].id, run[v].count + 1)
    BY <1>1, <1>16, <2>1, UploadKeepsReleases
  <2>2. CASE ~accepts_file(run[v].id, run[v].count + 1)
    <3>1. Goes(v, "failed") /\ UNCHANGED <<tags, release, images, latest, hub, hubbed>>
      BY <1>16, <2>2 DEF UploadAsset, published
    <3> QED
      BY <1>4, <1>6, <3>1
  <2> QED
    BY <2>1, <2>2
<1>17. ASSUME NEW v \in Version, PublishRelease(v) PROVE ReleaseInv'
  <2>1. CASE release[run[v].id].state = "draft" /\ ~Released(v)
    BY <1>1, <1>17, <2>1, PublishKeepsReleases
  <2>2. CASE ~(release[run[v].id].state = "draft" /\ ~Released(v))
    <3>1. Goes(v, "failed") /\ UNCHANGED <<tags, release, images, latest, hub, hubbed>>
      BY <1>17, <2>2 DEF PublishRelease
    <3> QED
      BY <1>4, <1>6, <3>1
  <2> QED
    BY <2>1, <2>2
<1>18. ASSUME NEW v \in Version, NEW step \in {"hub", "push", "done", "hub failed"},
              run[v].step \in {"hub", "push", "hub failed"}, run'[v].step = step,
              \A w \in Version \ {v} : run'[w] = run[w],
              UNCHANGED <<tags, release, images, latest, hub, hubbed>>
       PROVE  ReleaseInv'
  <2>1. RunIsChecked(v)' /\ RunOwnsAssets(v)'
    BY <1>18 DEF ReleaseInv, RunIsChecked, RunOwnsAssets, Released
  <2> QED
    BY <1>2, <1>18, <2>1
<1>19. ASSUME NEW v \in Version, StartHubJob(v) PROVE ReleaseInv'
  BY <1>6, <1>18, <1>19 DEF StartHubJob, published
<1>20. ASSUME NEW v \in Version, LoseHubRace(v) PROVE ReleaseInv'
  <2>1. run[v].step = "push" /\ UNCHANGED <<tags, release, images, latest, hub, hubbed>>
    BY <1>20 DEF LoseHubRace, published
  <2>2. CASE Goes(v, "done")
    BY <1>6, <1>18, <2>1, <2>2
  <2>3. CASE run' = [run EXCEPT ![v].count = @ + 1]
    <3>1. run'[v].step = "push" /\ \A w \in Version \ {v} : run'[w] = run[w]
      BY <1>1, <2>1, <2>3 DEF TypeOK, Run
    <3> QED
      BY <1>18, <2>1, <3>1
  <2> QED
    BY <1>20, <2>2, <2>3 DEF LoseHubRace
<1>21. ASSUME NEW v \in Version, PushHub(v) PROVE ReleaseInv'
  <2>1. /\ run[v].step = "push" /\ Released(v)
        /\ hub' = v /\ hubbed' = hubbed \union {v}
        /\ UNCHANGED <<tags, release, images, latest>>
    BY <1>21 DEF PushHub, ReleaseInv, RunIsChecked
  <2>2. run'[v].step = "done" /\ \A w \in Version \ {v} : run'[w] = run[w]
    BY <1>6, <1>21 DEF PushHub
  <2>3. \A w : Released(w)' <=> Released(w)
    BY <2>1 DEF Released
  <2>4. FilesAreOwn' /\ ReleasesAreUnique' /\ FirstAssetIsFirst'
    BY <2>1 DEF ReleaseInv, FilesAreOwn, ReleasesAreUnique, FirstAssetIsFirst, Published, NoRelease
  <2>5. ASSUME NEW w \in Version PROVE RunIsChecked(w)' /\ RunOwnsAssets(w)'
    BY <2>1, <2>2, <2>3 DEF ReleaseInv, RunIsChecked, RunOwnsAssets
  <2>6. ReleasedAreTagged' /\ ListedAreReleased'
    BY <2>1, <2>3 DEF ReleaseInv, ReleasedAreTagged, ListedAreReleased
  <2> QED
    BY <1>1, <2>4, <2>5, <2>6 DEF ReleaseInv
<1>22. ASSUME NEW v \in Version, RunFails(v) PROVE ReleaseInv'
  <2>1. UNCHANGED <<tags, release, images, latest, hub, hubbed>>
    BY <1>22 DEF RunFails, published
  <2>2. CASE run[v].step \in {"hub", "push"}
    <3>1. Goes(v, "hub failed")
      BY <1>22, <2>2 DEF RunFails
    <3> QED
      BY <1>6, <1>18, <2>1, <2>2, <3>1
  <2>3. CASE run[v].step \notin {"hub", "push"}
    <3>1. Goes(v, "failed")
      BY <1>22, <2>3 DEF RunFails
    <3> QED
      BY <1>4, <1>6, <2>1, <3>1
  <2> QED
    BY <2>2, <2>3
<1>23. ASSUME NEW v \in Version, RerunFailedJobs(v) PROVE ReleaseInv'
  <2>1. UNCHANGED <<tags, release, images, latest, hub, hubbed>>
    BY <1>23 DEF RerunFailedJobs, published
  <2>2. CASE run[v].step = "failed"
    BY <1>4, <1>5, <1>23, <2>1, <2>2 DEF RerunFailedJobs
  <2>3. CASE run[v].step = "hub failed"
    BY <1>6, <1>18, <1>23, <2>1, <2>3 DEF RerunFailedJobs
  <2> QED
    BY <1>23, <2>2, <2>3 DEF RerunFailedJobs
<1>24. ASSUME NEW id \in ReleaseId, DeleteDraft(id) PROVE ReleaseInv'
  <2>1. /\ release[id].state = "draft" /\ release' = [release EXCEPT ![id].state = "deleted"]
        /\ UNCHANGED <<tags, run, images, latest, hub, hubbed>>
    BY <1>24 DEF DeleteDraft, Drafts, published
  <2>2. \A other \in ReleaseId : SameRelease(other) /\ (other # id => release'[other] = release[other])
    BY <1>1, <2>1 DEF TypeOK, ReleaseRecord, SameRelease, Published
  <2>3. release'[id].state = "deleted"
    BY <1>1, <2>1 DEF TypeOK, ReleaseRecord
  <2>4. ReleasesAreUnique'
    BY <2>2, <2>3 DEF ReleaseInv, ReleasesAreUnique, Published
  <2> QED
    BY <1>1, <2>1, <2>2, <2>4, NoRunMoves
<1>25. CASE UNCHANGED vars
  BY <1>3, <1>25 DEF vars, published
<1> QED
  BY <1>7, <1>8, <1>9, <1>10, <1>11, <1>12, <1>13, <1>14, <1>15, <1>16, <1>17, <1>19, <1>20,
     <1>21, <1>22, <1>23, <1>24, <1>25 DEF Next

LEMMA InvInit == Init => ReleaseInv
<1> SUFFICES ASSUME Init PROVE ReleaseInv
  OBVIOUS
<1>1. NoRelease \in ReleaseRecord /\ NoRun \in Run
  BY Sizes DEF NoRelease, ReleaseRecord, ReleaseState, NoRun, Run, Step, BoundAssumption
<1>2. TypeOK
  <2>1. 1 \in Version /\ 0 \in 0..MaxTrouble
    BY DEF Version, BoundAssumption
  <2>2. tagJob \in TagJob
    BY DEF Init, TagJob
  <2>3. release \in [ReleaseId -> ReleaseRecord] /\ run \in [Version -> Run]
    BY <1>1 DEF Init
  <2> QED
    BY <2>1, <2>2, <2>3, Sizes DEF Init, TypeOK
<1>3. \A v : ~Released(v)
  BY DEF Init, Released, NoRelease
<1>4. FilesAreOwn /\ ReleasesAreUnique /\ FirstAssetIsFirst
  BY DEF Init, FilesAreOwn, ReleasesAreUnique, FirstAssetIsFirst, Published, NoRelease
<1>5. ASSUME NEW v \in Version PROVE RunIsChecked(v) /\ RunOwnsAssets(v)
  BY DEF Init, RunIsChecked, RunOwnsAssets, NoRun
<1>6. ReleasedAreTagged /\ ListedAreReleased
  BY <1>3 DEF Init, ReleasedAreTagged, ListedAreReleased
<1> QED
  BY <1>2, <1>4, <1>5, <1>6 DEF ReleaseInv

\* What users find of a release is consistent, whatever fails and is started again:
\* its tag, image and files are of one version, and only releases are listed.
THEOREM ReleasesAreConsistent == Spec => []ReleaseInv
<1>1. Init => ReleaseInv
  BY InvInit
<1>2. ReleaseInv /\ [Next]_vars => ReleaseInv'
  BY InvStep
<1> QED
  BY <1>1, <1>2, PTL DEF Spec

--------------------------------------------------------------------------------
\* A step that publishes and lists nothing is a stutter of PolicyReleases.
LEMMA NothingIsPublished ==
  ASSUME \A id \in ReleaseId : Published(id)' <=> Published(id),
         \A id \in ReleaseId : Published(id) =>
           /\ release'[id].tag = release[id].tag
           /\ release'[id].files = release[id].files,
         UNCHANGED <<latest, hub>>
  PROVE  UNCHANGED Releases!vars
<1>1. Downloads' = Downloads
  BY DEF Downloads
<1> QED
  BY <1>1 DEF Releases!vars

LEMMA DraftPublishesNothing ==
  ASSUME ReleaseInv, NEW id \in ReleaseId, DraftIsMade(id), UNCHANGED <<latest, hub>>
  PROVE  UNCHANGED Releases!vars
<1>1. \A other \in ReleaseId : SameRelease(other)
  BY DraftIsOnlyOne
<1> QED
  BY <1>1, NothingIsPublished DEF SameRelease

\* The publication of a draft is the one step that adds a release.
LEMMA PublishRefines ==
  ASSUME ReleaseInv, TypeOK', NEW v \in Version, PublishRelease(v),
         release[run[v].id].state = "draft", ~Released(v)
  PROVE  Releases!Publish(v)
<1>0. PICK id \in ReleaseId : id = run[v].id
  BY PublishKeepsReleases
<1>1. /\ \A other \in ReleaseId \ {id} : release'[other] = release[other]
      /\ release'[id].state = "published" /\ release'[id].tag = v
      /\ release'[id].files = [i \in Asset |-> v]
  BY <1>0, PublishKeepsReleases
<1>2. latest' = v /\ hub' = hub
  BY DEF PublishRelease
<1>3. \A r \in Downloads : r.version # v
  BY DEF Downloads, Released, Published
<1>4. Published(id)' /\ ~Published(id)
  <2>1. release[id].state = "draft"
    BY <1>0
  <2> QED
    BY <1>1, <2>1 DEF Published
<1>5. \A other \in ReleaseId \ {id} : Published(other)' <=> Published(other)
  BY <1>1 DEF Published
<1> DEFINE new == [version |-> v, files |-> [i \in Asset |-> v]]
<1>6. [version |-> release'[id].tag, files |-> release'[id].files] = new
  BY <1>1
<1>7. Downloads' \subseteq Downloads \union {new}
  <2> SUFFICES ASSUME NEW other \in ReleaseId, Published(other)'
               PROVE  [version |-> release'[other].tag, files |-> release'[other].files]
                        \in Downloads \union {new}
    BY DEF Downloads
  <2>1. CASE other = id
    BY <1>6, <2>1
  <2>2. CASE other # id
    BY <1>1, <1>5, <2>2 DEF Downloads
  <2> QED
    BY <2>1, <2>2
<1>8. new \in Downloads'
  <2>1. [version |-> release'[id].tag, files |-> release'[id].files] \in Downloads'
    BY <1>1, <1>4 DEF Downloads
  <2> QED
    BY <1>6, <2>1
<1>9. Downloads \subseteq Downloads'
  <2> SUFFICES ASSUME NEW other \in ReleaseId, Published(other)
               PROVE  [version |-> release[other].tag, files |-> release[other].files] \in Downloads'
    BY DEF Downloads
  <2>1. other # id
    BY <1>4
  <2>2. release'[other] = release[other] /\ Published(other)'
    BY <1>1, <1>5, <2>1
  <2> QED
    BY <2>2 DEF Downloads
<1>10. Downloads' = Downloads \union {new}
  BY <1>7, <1>8, <1>9
<1> QED
  BY <1>2, <1>3, <1>10 DEF Releases!Publish, Releases!Files, Asset

\* Every step publishes one release, lists a published one, or shows users nothing.
LEMMA StepRefines ==
  ReleaseInv /\ TypeOK' /\ [Next]_vars => [Releases!Next]_(Releases!vars)
<1> SUFFICES ASSUME ReleaseInv, TypeOK', [Next]_vars
             PROVE  Releases!Next \/ UNCHANGED Releases!vars
  OBVIOUS
<1>1. ASSUME UNCHANGED <<release, latest, hub>> PROVE UNCHANGED Releases!vars
  BY <1>1, NothingIsPublished DEF Published
<1>2. CASE Merge \/ StartTagJob \/ CreateTag \/ Dispatch \/ TagJobFails \/ RerunTagJob
  BY <1>1, <1>2 DEF Merge, StartTagJob, CreateTag, Dispatch, TagJobFails, RerunTagJob, published
<1>3. ASSUME NEW v \in Version,
             \/ PushTagByHand(v) \/ StartAgain(v) \/ Check(v) \/ PushImage(v) \/ StartHubJob(v)
             \/ LoseHubRace(v) \/ RunFails(v) \/ RerunFailedJobs(v)
      PROVE  UNCHANGED Releases!vars
  BY <1>1, <1>3 DEF PushTagByHand, StartAgain, Check, PushImage, StartHubJob, LoseHubRace,
                    RunFails, RerunFailedJobs, published
<1>4. ASSUME NEW resolved \in Version, NEW id \in ReleaseId, OpenReleasePR(resolved, id)
      PROVE  UNCHANGED Releases!vars
  BY <1>4, DraftPublishesNothing DEF OpenReleasePR, published
<1>5. ASSUME NEW v \in Version, NEW id \in ReleaseId, CreateRelease(v, id)
      PROVE  UNCHANGED Releases!vars
  BY <1>5, DraftPublishesNothing DEF CreateRelease, published
<1>6. ASSUME NEW v \in Version, UploadAsset(v) PROVE UNCHANGED Releases!vars
  <2> DEFINE id == run[v].id
             asset == run[v].count + 1
  <2>1. CASE accepts_file(id, asset)
    <3>1. /\ release' = [release EXCEPT ![id].files[asset] = v]
          /\ UNCHANGED <<latest, hub>>
          /\ id \in ReleaseId
      BY <1>6, <2>1 DEF UploadAsset, published, ReleaseInv, RunOwnsAssets
    <3>2. release[id] \in ReleaseRecord /\ release[id].state = "draft"
      BY <2>1, <3>1 DEF accepts_file, ReleaseInv, TypeOK
    <3>3. release'[id].state = "draft"
      BY <3>1, <3>2 DEF ReleaseInv, TypeOK, ReleaseRecord
    <3>4. \A other \in ReleaseId \ {id} : release'[other] = release[other]
      BY <3>1 DEF ReleaseInv, TypeOK
    <3>5. \A other \in ReleaseId : Published(other)' <=> Published(other)
      BY <3>2, <3>3, <3>4 DEF Published
    <3>6. \A other \in ReleaseId : Published(other) => release'[other] = release[other]
      BY <3>2, <3>4 DEF Published
    <3> QED
      BY <3>1, <3>5, <3>6, NothingIsPublished
  <2>2. CASE ~accepts_file(id, asset)
    BY <1>1, <1>6, <2>2 DEF UploadAsset, published
  <2> QED
    BY <2>1, <2>2
<1>7. ASSUME NEW v \in Version, PublishRelease(v) PROVE Releases!Next \/ UNCHANGED Releases!vars
  <2>1. CASE release[run[v].id].state = "draft" /\ ~Released(v)
    BY <1>7, <2>1, PublishRefines DEF Releases!Next, Releases!Version, Version
  <2>2. CASE ~(release[run[v].id].state = "draft" /\ ~Released(v))
    BY <1>1, <1>7, <2>2 DEF PublishRelease
  <2> QED
    BY <2>1, <2>2
<1>8. ASSUME NEW v \in Version, PushHub(v) PROVE Releases!Next
  <2>1. Released(v) /\ hub' = v /\ UNCHANGED <<release, latest>>
    BY <1>8 DEF PushHub, ReleaseInv, RunIsChecked
  <2>2. \E r \in Downloads : r.version = v
    <3>1. PICK id \in ReleaseId : Published(id) /\ release[id].tag = v
      BY <2>1 DEF Released, Published
    <3>2. [version |-> release[id].tag, files |-> release[id].files] \in Downloads
      BY <3>1 DEF Downloads
    <3> QED
      BY <3>1, <3>2
  <2>3. Downloads' = Downloads
    BY <2>1 DEF Downloads, Published
  <2> QED
    BY <2>1, <2>2, <2>3 DEF Releases!Next, Releases!List, Releases!Version, Version
<1>9. ASSUME NEW id \in ReleaseId, DeleteDraft(id) PROVE UNCHANGED Releases!vars
  <2>1. /\ release[id].state = "draft" /\ release' = [release EXCEPT ![id].state = "deleted"]
        /\ UNCHANGED <<latest, hub>>
    BY <1>9 DEF DeleteDraft, Drafts, published
  <2>2. \A other \in ReleaseId : SameRelease(other)
    BY <2>1 DEF ReleaseInv, TypeOK, ReleaseRecord, SameRelease, Published
  <2> QED
    BY <2>1, <2>2, NothingIsPublished DEF SameRelease
<1>10. CASE UNCHANGED vars
  BY <1>1, <1>10 DEF vars
<1> QED
  BY <1>2, <1>3, <1>4, <1>5, <1>6, <1>7, <1>8, <1>9, <1>10 DEF Next

\* The pipeline implements the promise: each version is released once, with the files
\* of its own tag, and no release changes.
THEOREM PipelineImplementsReleases == Spec => ReleasesAreImmutable
<1>1. Init => Releases!Init
  BY DEF Init, Releases!Init, Downloads, Published, NoRelease
<1>2. ReleaseInv /\ ReleaseInv' /\ [Next]_vars => [Releases!Next]_(Releases!vars)
  BY StepRefines DEF ReleaseInv
<1> QED
  BY <1>1, <1>2, ReleasesAreConsistent, PTL DEF Spec, ReleasesAreImmutable, Releases!Spec
--------------------------------------------------------------------------------
\* The order of the versions: a pull request opens the next one, a tag is of a version that
\* was merged, and as long as nothing went wrong and no releases overlapped, all work that is
\* under way is for the version on main.
PrIsNext ==
  /\ pr # 0 => pr > version
  /\ tagQueue <= version /\ tagJob.version <= version
TagsAreMerged == trouble = 0 => \A v \in Version : tags[v] # 0 => v <= version
WorkIsNewest ==
  trouble = 0 /\ ~overlap =>
    /\ \A v \in Version : Active(v) => v = version
    /\ tagQueue # 0 => tagQueue = version
    /\ tagJob # NoTagJob => tagJob.version = version

OrderInv == PrIsNext /\ TagsAreMerged /\ WorkIsNewest /\ NewestIsLatest

LEMMA OrderInit == Init => OrderInv
<1> SUFFICES ASSUME Init PROVE OrderInv
  OBVIOUS
<1>1. \A v \in Version : ~Active(v)
  BY DEF Init, Active, NoRun
<1>2. \A v : ~Released(v)
  BY DEF Init, Released, NoRelease
<1> QED
  BY <1>1, <1>2 DEF Init, OrderInv, PrIsNext, TagsAreMerged, WorkIsNewest, NewestIsLatest, NoTagJob

LEMMA PrStep == ReleaseInv /\ PrIsNext /\ [Next]_vars => PrIsNext'
<1> SUFFICES ASSUME ReleaseInv, PrIsNext, [Next]_vars PROVE PrIsNext'
  OBVIOUS
<1>1. CASE UNCHANGED <<branch, tagging>>
  BY <1>1 DEF PrIsNext, branch, tagging
<1>2. version \in Nat /\ version > 0 /\ pr \in Nat /\ tagQueue \in Nat /\ tagJob.version \in Nat
  BY DEF ReleaseInv, TypeOK, Version, MaybeVersion, TagJob, NoTagJob, BoundAssumption
<1>3. ASSUME NEW resolved \in Version, NEW id \in ReleaseId, OpenReleasePR(resolved, id) PROVE PrIsNext'
  <2>1. UNCHANGED <<version, tagQueue, tagJob>>
    BY <1>3 DEF OpenReleasePR, tagging
  <2>2. pr' = pr \/ (pr' = resolved /\ ~(version > resolved) /\ resolved # version)
    BY <1>3 DEF OpenReleasePR, not_a_downgrade
  <2>3. resolved \in Nat
    BY DEF Version
  <2> QED
    BY <1>2, <2>1, <2>2, <2>3 DEF PrIsNext
<1>4. CASE Merge
  BY <1>2, <1>4 DEF Merge, PrIsNext
<1>5. CASE StartTagJob \/ CreateTag \/ Dispatch \/ TagJobFails \/ RerunTagJob
  <2>1. UNCHANGED branch /\ tagQueue' \in {0, version, tagQueue} /\ tagJob'.version \in {0, tagQueue, tagJob.version}
    <3>1. CASE StartTagJob
      BY <3>1 DEF StartTagJob
    <3>2. CASE CreateTag
      BY <3>2 DEF CreateTag, NoTagJob, ReleaseInv, TypeOK, TagJob
    <3>3. CASE Dispatch \/ TagJobFails \/ RerunTagJob
      BY <3>3 DEF Dispatch, TagJobFails, RerunTagJob, NoTagJob
    <3> QED
      BY <1>5, <3>1, <3>2, <3>3
  <2> QED
    BY <1>2, <2>1 DEF PrIsNext, branch
<1>6. ASSUME NEW v \in Version,
             \/ PushTagByHand(v) \/ StartAgain(v)
             \/ Check(v) \/ PushImage(v) \/ UploadAsset(v) \/ PublishRelease(v)
             \/ StartHubJob(v) \/ PushHub(v) \/ LoseHubRace(v)
             \/ RunFails(v) \/ RerunFailedJobs(v)
      PROVE  UNCHANGED <<branch, tagging>>
  BY <1>6 DEF PushTagByHand, StartAgain, Check, PushImage, UploadAsset, PublishRelease, StartHubJob,
              PushHub, LoseHubRace, RunFails, RerunFailedJobs
<1>7. ASSUME NEW v \in Version, NEW id \in ReleaseId, CreateRelease(v, id) PROVE UNCHANGED <<branch, tagging>>
  BY <1>7 DEF CreateRelease
<1>8. ASSUME NEW id \in ReleaseId, DeleteDraft(id) PROVE UNCHANGED <<branch, tagging>>
  BY <1>8 DEF DeleteDraft
<1>9. CASE UNCHANGED vars
  BY <1>1, <1>9 DEF vars, branch, tagging
<1> QED
  BY <1>1, <1>3, <1>4, <1>5, <1>6, <1>7, <1>8, <1>9 DEF Next

\* A step that none of the run's troubles is part of, for what it does to tags and work
LEMMA WorkStep ==
  ReleaseInv /\ PrIsNext /\ TagsAreMerged /\ WorkIsNewest /\ [Next]_vars => (TagsAreMerged /\ WorkIsNewest)'
<1> SUFFICES ASSUME ReleaseInv, PrIsNext, TagsAreMerged, WorkIsNewest, [Next]_vars, trouble' = 0
             PROVE  (TagsAreMerged /\ WorkIsNewest)'
  BY DEF TagsAreMerged, WorkIsNewest
<1>1. /\ trouble \in Nat /\ version \in Version /\ tags \in [Version -> MaybeVersion]
      /\ run \in [Version -> Run] /\ pr \in MaybeVersion /\ tagJob \in TagJob /\ tagQueue \in MaybeVersion
      /\ Version \subseteq Nat /\ 0 \notin Version
  BY DEF ReleaseInv, TypeOK, Version, BoundAssumption
<1>2. ~Trouble
  BY <1>1 DEF Trouble
\* A run goes on, and nothing else that matters here changes.
<1>3. ASSUME NEW v \in Version, Active(v), NEW r, run' = [run EXCEPT ![v] = r],
             UNCHANGED <<version, tags, tagQueue, tagJob, trouble, overlap>>
      PROVE  (TagsAreMerged /\ WorkIsNewest)'
  <2>1. \A w \in Version : Active(w)' => Active(w)
    BY <1>1, <1>3 DEF Active
  <2> QED
    BY <1>3, <2>1 DEF TagsAreMerged, WorkIsNewest
<1>4. CASE UNCHANGED <<version, tags, tagQueue, tagJob, run, trouble, overlap>>
  <2>1. \A w \in Version : Active(w)' = Active(w)
    BY <1>4 DEF Active
  <2> QED
    BY <1>4, <2>1 DEF TagsAreMerged, WorkIsNewest
\* A run starts for the version on main.
<1>5. ASSUME NEW v \in Version, Start(v), ~overlap' => v = version, UNCHANGED version
      PROVE  ~overlap' => \A w \in Version : Active(w)' => w = version'
  <2>1. \A w \in Version \ {v} : Active(w)' => Active(w)
    BY <1>1, <1>5 DEF Start, Active
  <2>2. ~overlap' => \A w \in Version \ {v} : ~Active(w)
    BY <1>5 DEF Start
  <2> QED
    BY <1>5, <2>1, <2>2
<1>6. CASE Merge
  <2>1. /\ version' = pr /\ tagQueue' = pr /\ pr > version /\ pr \in Nat
        /\ UNCHANGED <<tagJob, tags, run, trouble>>
    BY <1>1, <1>6 DEF Merge, PrIsNext, MaybeVersion
  <2>2. ~overlap' => ~overlap /\ tagJob = NoTagJob /\ \A v \in Version : ~Active(v)
    BY <1>6, Zenon DEF Merge
  <2>3. TagsAreMerged'
    BY <1>1, <2>1 DEF TagsAreMerged
  <2>4. \A v \in Version : Active(v)' = Active(v)
    BY <2>1 DEF Active
  <2> QED
    BY <2>1, <2>2, <2>3, <2>4 DEF WorkIsNewest
<1>7. CASE StartTagJob
  <2>1. /\ tagJob' = [step |-> "tag", version |-> tagQueue] /\ tagQueue # 0 /\ tagQueue' = 0
        /\ UNCHANGED <<version, tags, run, trouble, overlap>>
    BY <1>7 DEF StartTagJob, branch
  <2>2. \A v \in Version : Active(v)' = Active(v)
    BY <2>1 DEF Active
  <2> QED
    BY <2>1, <2>2 DEF TagsAreMerged, WorkIsNewest
<1>8. CASE CreateTag
  <2>1. /\ tagJob.step = "tag" /\ tagJob # NoTagJob /\ tagJob.version \in Version
        /\ UNCHANGED <<version, tagQueue, run, trouble, overlap>>
    BY <1>1, <1>8 DEF CreateTag, branch, NoTagJob, TagJob
  <2>2. \A v \in Version : Active(v)' = Active(v)
    BY <2>1 DEF Active
  <2>3. tagJob' # NoTagJob => tagJob'.version = tagJob.version
    BY <1>1, <1>8, <2>1 DEF CreateTag, TagJob, NoTagJob
  <2>4. WorkIsNewest'
    BY <2>1, <2>2, <2>3 DEF WorkIsNewest
  <2>5. tags' = tags \/ tags' = [tags EXCEPT ![tagJob.version] = tagJob.version]
    BY <1>8 DEF CreateTag
  <2>6. tagJob.version <= version
    BY DEF PrIsNext
  <2>7. TagsAreMerged'
    BY <1>1, <2>1, <2>5, <2>6 DEF TagsAreMerged
  <2> QED
    BY <2>4, <2>7
<1>9. CASE Dispatch
  <2>1. /\ tagJob # NoTagJob /\ tagJob.version \in Version /\ Start(tagJob.version) /\ tagJob' = NoTagJob
        /\ UNCHANGED <<version, tagQueue, tags, trouble>>
    BY <1>1, <1>9 DEF Dispatch, branch, NoTagJob, TagJob
  <2>2. ~overlap' => ~overlap
    BY <2>1 DEF Start
  <2>3. ~overlap' => tagJob.version = version
    BY <2>1, <2>2 DEF WorkIsNewest
  <2>4. ~overlap' => \A w \in Version : Active(w)' => w = version'
    BY <1>5, <2>1, <2>3
  <2> QED
    BY <2>1, <2>2, <2>4 DEF TagsAreMerged, WorkIsNewest
<1>10. ASSUME NEW v \in Version, PushTagByHand(v) PROVE (TagsAreMerged /\ WorkIsNewest)'
  <2>1. /\ v = version /\ Start(v) /\ tags' = [tags EXCEPT ![v] = version]
        /\ UNCHANGED <<version, tagQueue, tagJob, trouble>>
    BY <1>2, <1>10 DEF PushTagByHand, branch, tagging
  <2>2. ~overlap' => ~overlap
    BY <2>1 DEF Start
  <2>3. ~overlap' => \A w \in Version : Active(w)' => w = version'
    BY <1>5, <2>1
  <2>4. TagsAreMerged'
    BY <1>1, <2>1 DEF TagsAreMerged
  <2> QED
    BY <2>1, <2>2, <2>3, <2>4 DEF WorkIsNewest
<1>11. ASSUME NEW v \in Version,
              \/ Check(v) \/ PushImage(v) \/ UploadAsset(v) \/ PublishRelease(v)
              \/ StartHubJob(v) \/ PushHub(v)
              \/ \E id \in ReleaseId : CreateRelease(v, id)
       PROVE  (TagsAreMerged /\ WorkIsNewest)'
  <2>1. Active(v) /\ UNCHANGED <<version, tags, tagQueue, tagJob, trouble, overlap>>
    BY <1>11 DEF Check, PushImage, UploadAsset, PublishRelease, StartHubJob, PushHub, CreateRelease,
                 Active, branch, tagging
  <2>2. \E r : run' = [run EXCEPT ![v] = r]
    <3>1. ASSUME NEW step, Goes(v, step) PROVE \E r : run' = [run EXCEPT ![v] = r]
      BY <3>1 DEF Goes
    <3>2. CASE \/ Check(v) \/ PushImage(v) \/ PublishRelease(v) \/ StartHubJob(v) \/ PushHub(v)
      BY <3>1, <3>2 DEF Check, PushImage, PublishRelease, StartHubJob, PushHub
    <3>3. CASE UploadAsset(v)
      <4>1. CASE accepts_file(run[v].id, run[v].count + 1)
        <5>1. run' = [run EXCEPT ![v] = [run[v] EXCEPT !.count = run[v].count + 1]]
          BY <3>3, <4>1 DEF UploadAsset
        <5> QED
          BY <5>1
      <4>2. CASE ~accepts_file(run[v].id, run[v].count + 1)
        BY <3>1, <3>3, <4>2 DEF UploadAsset
      <4> QED
        BY <4>1, <4>2
    <3>4. CASE \E id \in ReleaseId : CreateRelease(v, id)
      BY <3>4 DEF CreateRelease
    <3> QED
      BY <1>11, <3>2, <3>3, <3>4
  <2> QED
    BY <1>3, <2>1, <2>2
<1>12. ASSUME NEW resolved \in Version, NEW id \in ReleaseId, OpenReleasePR(resolved, id)
       PROVE  (TagsAreMerged /\ WorkIsNewest)'
  BY <1>4, <1>12 DEF OpenReleasePR, tagging
<1>13. ASSUME NEW v \in Version PROVE ~StartAgain(v) /\ ~LoseHubRace(v) /\ ~RunFails(v) /\ ~RerunFailedJobs(v)
  BY <1>2 DEF StartAgain, LoseHubRace, RunFails, RerunFailedJobs
<1>14. ~TagJobFails /\ ~RerunTagJob /\ \A id \in ReleaseId : ~DeleteDraft(id)
  BY <1>2 DEF TagJobFails, RerunTagJob, DeleteDraft
<1>15. CASE UNCHANGED vars
  BY <1>4, <1>15 DEF vars
<1> QED
  BY <1>6, <1>7, <1>8, <1>9, <1>10, <1>11, <1>12, <1>13, <1>14, <1>15 DEF Next

\* Only a publication marks a version as the latest one, and it adds that version to the
\* released ones.
LEMMA LatestMoves ==
  ASSUME ReleaseInv, TypeOK', [Next]_vars
  PROVE  \/ latest' = latest /\ \A w \in Version : Released(w)' => Released(w)
         \/ \E v \in Version : /\ PublishRelease(v) /\ Active(v) /\ latest' = v
                               /\ \A w \in Version : Released(w)' => Released(w) \/ w = v
<1>1. \A w : Released(w) <=> \E d \in Downloads : d.version = w
  <2>1. ASSUME NEW w, Released(w) PROVE \E d \in Downloads : d.version = w
    <3>1. PICK id \in ReleaseId : Published(id) /\ release[id].tag = w
      BY <2>1 DEF Released, Published
    <3>2. [version |-> release[id].tag, files |-> release[id].files] \in Downloads
      BY <3>1 DEF Downloads
    <3> QED
      BY <3>1, <3>2
  <2>2. ASSUME NEW w, NEW d \in Downloads, d.version = w PROVE Released(w)
    BY <2>2 DEF Released, Downloads, Published
  <2> QED
    BY <2>1, <2>2
<1>2. \A w : Released(w)' <=> \E d \in Downloads' : d.version = w
  <2>1. ASSUME NEW w, Released(w)' PROVE \E d \in Downloads' : d.version = w
    <3>1. PICK id \in ReleaseId : Published(id)' /\ release'[id].tag = w
      BY <2>1 DEF Released, Published
    <3>2. [version |-> release'[id].tag, files |-> release'[id].files] \in Downloads'
      BY <3>1 DEF Downloads
    <3> QED
      BY <3>1, <3>2
  <2>2. ASSUME NEW w, NEW d \in Downloads', d.version = w PROVE Released(w)'
    BY <2>2 DEF Released, Downloads, Published
  <2> QED
    BY <2>1, <2>2
<1>3. [Releases!Next]_(Releases!vars)
  BY StepRefines
<1>4. CASE latest' = latest
  <2>1. ASSUME NEW v \in Releases!Version, Releases!Publish(v) PROVE FALSE
    <3>1. latest = v /\ (\A d \in Downloads : d.version # v) /\ v # 0
      BY <1>4, <2>1 DEF Releases!Publish, Releases!Version
    <3>2. Released(v)
      BY <3>1 DEF ReleaseInv, ListedAreReleased
    <3> QED
      BY <1>1, <3>1, <3>2
  <2>2. Downloads' = Downloads
    BY <1>3, <2>1 DEF Releases!Next, Releases!List, Releases!vars
  <2> QED
    BY <1>1, <1>2, <1>4, <2>2
<1>5. CASE latest' # latest
  <2>1. PICK v \in Releases!Version : Releases!Publish(v)
    BY <1>3, <1>5 DEF Releases!Next, Releases!List, Releases!vars
  <2>2. latest' = v /\ Downloads' = Downloads \union {[version |-> v, files |-> Releases!Files(v)]}
    BY <2>1 DEF Releases!Publish
  <2>3. PICK u \in Version : PublishRelease(u) /\ latest' = u /\ Active(u)
    <3>1. ASSUME NEW u \in Version, PublishRelease(u) PROVE latest' = u /\ Active(u)
      BY <1>5, <3>1 DEF PublishRelease, Active
    <3>2. \E u \in Version : PublishRelease(u)
      <4>1. ~(UNCHANGED vars) /\ ~(UNCHANGED published)
        BY <1>5 DEF vars, published
      <4>2. \A u \in Version :
              /\ ~PushTagByHand(u) /\ ~StartAgain(u) /\ ~Check(u) /\ ~PushImage(u) /\ ~UploadAsset(u)
              /\ ~StartHubJob(u) /\ ~PushHub(u) /\ ~LoseHubRace(u) /\ ~RunFails(u) /\ ~RerunFailedJobs(u)
              /\ \A id \in ReleaseId : ~CreateRelease(u, id)
        BY <1>5, <4>1 DEF PushTagByHand, StartAgain, Check, PushImage, UploadAsset, StartHubJob, PushHub,
                          LoseHubRace, RunFails, RerunFailedJobs, CreateRelease
      <4>3. \A id \in ReleaseId : ~DeleteDraft(id) /\ \A resolved \in Version : ~OpenReleasePR(resolved, id)
        BY <4>1 DEF DeleteDraft, OpenReleasePR
      <4>4. ~(Merge \/ StartTagJob \/ CreateTag \/ Dispatch \/ TagJobFails \/ RerunTagJob)
        BY <4>1 DEF Merge, StartTagJob, CreateTag, Dispatch, TagJobFails, RerunTagJob
      <4> QED
        BY <4>1, <4>2, <4>3, <4>4 DEF Next
    <3> QED
      BY <3>1, <3>2
  <2> QED
    BY <1>1, <1>2, <2>2, <2>3
<1> QED
  BY <1>4, <1>5

\* Troubles are only counted up, and an overlap stays one.
LEMMA NothingIsForgotten ==
  ASSUME ReleaseInv, [Next]_vars, trouble' = 0, ~overlap' PROVE trouble = 0 /\ ~overlap
<1>1. trouble \in Nat
  BY DEF ReleaseInv, TypeOK, BoundAssumption
<1>2. ~Trouble
  BY <1>1 DEF Trouble
<1>3. ASSUME NEW v, Start(v) PROVE ~overlap
  BY <1>3 DEF Start
<1>4. ASSUME NEW v \in Version,
             \/ PushTagByHand(v)
             \/ Check(v) \/ PushImage(v) \/ UploadAsset(v) \/ PublishRelease(v)
             \/ StartHubJob(v) \/ PushHub(v)
             \/ \E id \in ReleaseId : CreateRelease(v, id)
      PROVE  trouble = 0 /\ ~overlap
  BY <1>2, <1>3, <1>4 DEF PushTagByHand, Check, PushImage, UploadAsset, PublishRelease, StartHubJob, PushHub,
                          CreateRelease
<1>5. ASSUME NEW v \in Version PROVE ~StartAgain(v) /\ ~LoseHubRace(v) /\ ~RunFails(v) /\ ~RerunFailedJobs(v)
  BY <1>2 DEF StartAgain, LoseHubRace, RunFails, RerunFailedJobs
<1>6. ~TagJobFails /\ ~RerunTagJob /\ \A id \in ReleaseId : ~DeleteDraft(id)
  BY <1>2 DEF TagJobFails, RerunTagJob, DeleteDraft
<1>7. CASE Merge \/ StartTagJob \/ CreateTag \/ Dispatch \/ UNCHANGED vars
  <2>1. CASE Merge
    <3>1. trouble' = trouble
      BY <2>1 DEF Merge
    <3>2. ~overlap
      BY <2>1, Zenon DEF Merge
    <3> QED
      BY <3>1, <3>2
  <2>2. CASE StartTagJob \/ CreateTag \/ UNCHANGED vars
    BY <2>2 DEF StartTagJob, CreateTag, vars
  <2>3. CASE Dispatch
    BY <1>3, <2>3 DEF Dispatch
  <2> QED
    BY <1>7, <2>1, <2>2, <2>3
<1>8. ASSUME NEW resolved \in Version, NEW id \in ReleaseId, OpenReleasePR(resolved, id)
      PROVE  trouble = 0 /\ ~overlap
  BY <1>8 DEF OpenReleasePR
<1> QED
  BY <1>4, <1>5, <1>6, <1>7, <1>8 DEF Next

LEMMA NewestStep ==
  ReleaseInv /\ ReleaseInv' /\ OrderInv /\ [Next]_vars => NewestIsLatest'
<1> SUFFICES ASSUME ReleaseInv, ReleaseInv', OrderInv, [Next]_vars, trouble' = 0, ~overlap'
             PROVE  (\A v \in Version : Released(v)' => v <= latest') /\ hub' <= latest'
  BY DEF NewestIsLatest
<1>1. trouble = 0 /\ ~overlap
  BY NothingIsForgotten
<1>2. (\A v \in Version : Released(v) => v <= latest) /\ hub <= latest
  BY <1>1 DEF OrderInv, NewestIsLatest
<1>3. /\ Version \subseteq Nat /\ hub \in Nat /\ hub' \in Nat
      /\ latest \in Nat /\ latest' \in Nat /\ version \in Nat
  <2>1. Version \subseteq Nat /\ MaybeVersion \subseteq Nat
    BY DEF Version, MaybeVersion
  <2> QED
    BY <2>1 DEF ReleaseInv, TypeOK
<1>4. hub' = 0 \/ \E w \in Version : w = hub' /\ Released(w)'
  <2>1. hub' = 0 \/ hub' \in Version
    <3>1. hub' \in MaybeVersion
      BY DEF ReleaseInv, TypeOK
    <3> QED
      BY <3>1 DEF MaybeVersion, Version
  <2>2. \A w \in Version : w = hub' => Released(w)'
    BY <1>3 DEF ReleaseInv, ListedAreReleased, Version
  <2> QED
    BY <2>1, <2>2
<1>5. CASE latest' = latest /\ \A w \in Version : Released(w)' => Released(w)
  <2> QED
    BY <1>2, <1>3, <1>4, <1>5
<1>6. ASSUME NEW v \in Version, PublishRelease(v), Active(v), latest' = v,
             \A w \in Version : Released(w)' => Released(w) \/ w = v
      PROVE  (\A w \in Version : Released(w)' => w <= latest') /\ hub' <= latest'
  <2>1. v = version
    BY <1>1, <1>6 DEF OrderInv, WorkIsNewest
  <2>2. ASSUME NEW w \in Version, Released(w) PROVE w <= version
    <3>1. tags[w] = w /\ w # 0
      BY <1>3, <2>2 DEF ReleaseInv, ReleasedAreTagged, Version
    <3> QED
      BY <1>1, <3>1 DEF OrderInv, TagsAreMerged
  <2>3. \A w \in Version : Released(w)' => w <= v
    BY <1>3, <1>6, <2>1, <2>2
  <2> QED
    BY <1>3, <1>4, <1>6, <2>3
<1> QED
  <2>1. TypeOK'
    BY DEF ReleaseInv
  <2> QED
    BY <1>5, <1>6, <2>1, LatestMoves

\* As long as nothing went wrong and no releases overlapped, the newest release is marked as the
\* latest one and ArtifactHub is not ahead of it, for any number of versions.
THEOREM NewestIsMarked == Spec => []NewestIsLatest
<1>1. Init => OrderInv
  BY OrderInit
<1>2. ReleaseInv /\ ReleaseInv' /\ OrderInv /\ [Next]_vars => OrderInv'
  BY PrStep, WorkStep, NewestStep DEF OrderInv
<1>3. OrderInv => NewestIsLatest
  BY DEF OrderInv
<1> QED
  BY <1>1, <1>2, <1>3, ReleasesAreConsistent, PTL DEF Spec
================================================================================
