-------------------------------- MODULE Releases --------------------------------
(***************************************************************************)
(* Publishing a desktop release: POST /releases of routes/releases.ts.     *)
(*                                                                         *)
(* The files are uploaded into a directory of the publication's own,       *)
(* checked, and moved one by one into the directory the update feed is     *)
(* served from: the packages, then the manifests, then release.json.       *)
(* Publications take turns by a lock in Redis that expires, however long   *)
(* the upload takes.                                                       *)
(*                                                                         *)
(* A package is its bytes; a manifest says what bytes the packages it      *)
(* names have.  Versions, file types and the manifest's syntax are left    *)
(* out: a manifest that is refused for them is refused.                    *)
(***************************************************************************)
EXTENDS FiniteSets

CONSTANTS Publication, Package, Manifest, Bytes

ASSUME ReleasesAssumption == "none" \notin Publication /\ "none" \notin Bytes

VARIABLES
    served,       \* packages of the feed: their bytes or "none"
    manifests,    \* manifests of the feed: the bytes of the packages they name
    release,      \* the publication release.json is of, or "none"
    publishLock,  \* the publication the lock was taken by, or "none"
    publishing,   \* publication -> its stage
    stagedFiles,  \* publication -> packages uploaded and not moved yet
    stagedLists,  \* publication -> manifests uploaded and not moved yet
    outlived      \* history: a publication was under way when its lock expired

stagingVars == <<stagedFiles, stagedLists>>
releaseVars == <<served, manifests, release, publishLock, publishing, stagingVars, outlived>>

Lists == UNION {[P -> Bytes] : P \in SUBSET Package}
Nothing == [f \in {} |-> "none"]
NoFiles == [f \in Package |-> "none"]
NoLists == [m \in Manifest |-> Nothing]

Underway(p) == publishing[p] \in {"uploading", "moving"}
Stage(p, s) == publishing' = [publishing EXCEPT ![p] = s]

-----------------------------------------------------------------------------
\* releasePublishLock: SET ... NX.
TakeLock(p) ==
    /\ publishing[p] = "new" /\ publishLock = "none"
    /\ publishLock' = p /\ Stage(p, "uploading")
    /\ UNCHANGED <<served, manifests, release, stagingVars, outlived>>

\* releasePublishUnlock: the lock goes if it is this publication's.
Unlocked(p) == IF publishLock = p THEN "none" ELSE publishLock

\* The lock expires after ten minutes.
PublishLockExpires ==
    /\ publishLock # "none"
    /\ publishLock' = "none"
    /\ outlived' = (outlived \/ Underway(publishLock))
    /\ UNCHANGED <<served, manifests, release, publishing, stagingVars>>

\* The bytes a manifest's package has: those uploaded, or those of the feed.
BytesOf(files, f) == IF files[f] # "none" THEN files[f] ELSE served[f]

\* validateManifests: every package exists and has the bytes the manifest says.
Matches(files, list) ==
    list # Nothing => \A f \in DOMAIN list : BytesOf(files, f) = list[f]

\* An upload that passes the checks, with at least one manifest.
UploadFiles(p) ==
    /\ publishing[p] = "uploading"
    /\ \E files \in [Package -> Bytes \cup {"none"}], lists \in [Manifest -> Lists] :
          /\ lists # NoLists
          /\ \A m \in Manifest : Matches(files, lists[m])
          /\ stagedFiles' = [stagedFiles EXCEPT ![p] = files]
          /\ stagedLists' = [stagedLists EXCEPT ![p] = lists]
    /\ Stage(p, "moving")
    /\ UNCHANGED <<served, manifests, release, publishLock, outlived>>

MovePackage(p, f) ==
    /\ publishing[p] = "moving" /\ stagedFiles[p][f] # "none"
    /\ served' = [served EXCEPT ![f] = stagedFiles[p][f]]
    /\ stagedFiles' = [stagedFiles EXCEPT ![p][f] = "none"]
    /\ UNCHANGED <<manifests, release, publishLock, publishing, stagedLists, outlived>>

\* (In the order of the upload.)
AnyOrder(p) == TRUE

\* "Packages move first and manifests last."
PackagesMoved(p) == stagedFiles[p] = NoFiles

MoveManifest(p, m) ==
    /\ publishing[p] = "moving" /\ PackagesMoved(p) /\ stagedLists[p][m] # Nothing
    /\ manifests' = [manifests EXCEPT ![m] = stagedLists[p][m]]
    /\ stagedLists' = [stagedLists EXCEPT ![p][m] = Nothing]
    /\ UNCHANGED <<served, release, publishLock, publishing, stagedFiles, outlived>>

\* release.json is written aside and renamed; the staging directory and the
\* lock go.
Publish(p) ==
    /\ publishing[p] = "moving" /\ PackagesMoved(p) /\ stagedLists[p] = NoLists
    /\ release' = p
    /\ publishLock' = Unlocked(p) /\ Stage(p, "published")
    /\ UNCHANGED <<served, manifests, stagingVars, outlived>>

\* The upload is refused or breaks off, or a move fails: what was moved stays.
Reject(p) ==
    /\ Underway(p)
    /\ publishLock' = Unlocked(p) /\ Stage(p, "ended")
    /\ stagedFiles' = [stagedFiles EXCEPT ![p] = NoFiles]
    /\ stagedLists' = [stagedLists EXCEPT ![p] = NoLists]
    /\ UNCHANGED <<served, manifests, release, outlived>>

\* The process stops, or its directories cannot be made: the lock is left to expire.
ProcessDies(p) ==
    /\ Underway(p)
    /\ Stage(p, "ended")
    /\ UNCHANGED <<served, manifests, release, publishLock, stagingVars, outlived>>

-----------------------------------------------------------------------------
ReleasesInit ==
    /\ served = NoFiles /\ manifests = NoLists /\ release = "none"
    /\ publishLock = "none" /\ publishing = [p \in Publication |-> "new"]
    /\ stagedFiles = [p \in Publication |-> NoFiles]
    /\ stagedLists = [p \in Publication |-> NoLists]
    /\ outlived = FALSE

ReleasesNext ==
    \/ PublishLockExpires
    \/ \E p \in Publication : \/ TakeLock(p) \/ UploadFiles(p) \/ Publish(p) \/ Reject(p) \/ ProcessDies(p)
                              \/ \E f \in Package : MovePackage(p, f)
                              \/ \E m \in Manifest : MoveManifest(p, m)

ReleasesSpec == ReleasesInit /\ [][ReleasesNext]_releaseVars

-----------------------------------------------------------------------------
\* Feed, lock and publications stay within their types.
ReleasesTypeOK ==
    /\ served \in [Package -> Bytes \cup {"none"}] /\ manifests \in [Manifest -> Lists]
    /\ release \in Publication \cup {"none"} /\ publishLock \in Publication \cup {"none"}
    /\ publishing \in [Publication -> {"new", "uploading", "moving", "published", "ended"}]
    /\ stagedFiles \in [Publication -> [Package -> Bytes \cup {"none"}]]
    /\ stagedLists \in [Publication -> [Manifest -> Lists]] /\ outlived \in BOOLEAN

\* "Clients can never observe a new manifest before every referenced byte is
\* available" (releases.ts): when a manifest goes live its packages are there, and
\* they have the bytes it says as long as no publication outlived its lock.
\* (Afterwards a publication that brings a package of the same name may replace
\* bytes an older manifest still names.)
NewManifestsAreComplete ==
    [][\A m \in Manifest : manifests'[m] # manifests[m] =>
          \A f \in DOMAIN manifests'[m] :
              served'[f] # "none" /\ (outlived \/ served'[f] = manifests'[m][f])]_releaseVars
=============================================================================
