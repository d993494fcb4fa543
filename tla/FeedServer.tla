------------------------------- MODULE FeedServer -------------------------------
(***************************************************************************)
(* The release feed of the website (website/server/index.mjs): an upload   *)
(* of packages and updater manifests is checked and moved into the         *)
(* directory that installed applications read their updates from.          *)
(*                                                                         *)
(* The process runs one handler at a time, but a handler lets others run   *)
(* while it hashes a package; no lock keeps uploads apart.  From the last  *)
(* hash to the answer it runs to its end.  A package is its bytes, and a   *)
(* manifest says which bytes the packages it names have.                   *)
(***************************************************************************)
EXTENDS Integers, FiniteSets

CONSTANTS Incoming, Asset, Channel, Content

VARIABLES
    feed,       \* packages of the feed: their bytes or "none"
    channel,    \* manifests of the feed: the bytes of the packages they name
    announced,  \* the upload release.json is of, "none", or "torn"
    upload,     \* upload -> what its handler has: files, lists, checks to do, stage
    replaced,   \* history: upload -> packages of the feed replaced since it hashed them
    halfway     \* history: an upload ended between its moves

feedVars == <<feed, channel, announced, upload, replaced, halfway>>

NoAssets == [f \in Asset |-> "none"]
NoList == [f \in {} |-> "none"]
ManifestSet == {NoList} \cup UNION {[A -> Content] : A \in SUBSET Asset}
New == [stage |-> "new", files |-> NoAssets, list |-> NoList, left |-> {}]

Brings(u) == {f \in Asset : upload[u].files[f] # "none"}

\* The handler starts with the files in its temporary directory: a package that a
\* manifest names is among them or in the feed (availableNames).  (One manifest
\* stands for those of the upload.)
ReceiveUpload(u) ==
    /\ upload[u].stage = "new"
    /\ \E files \in [Asset -> Content \cup {"none"}], list \in ManifestSet \ {NoList} :
          /\ \A f \in DOMAIN list : files[f] # "none" \/ feed[f] # "none"
          /\ upload' = [upload EXCEPT ![u] = [stage |-> "checking", files |-> files, list |-> list,
                                              left |-> DOMAIN list]]
    /\ UNCHANGED <<feed, channel, announced, replaced, halfway>>

\* incomingFiles first, then the feed.
CheckedBytes(u, f) == IF f \in Brings(u) THEN upload[u].files[f] ELSE feed[f]

\* One entry of the manifest has the size and the hash it says.
CheckEntry(u, f) ==
    /\ upload[u].stage = "checking" /\ f \in upload[u].left
    /\ CheckedBytes(u, f) = upload[u].list[f]
    /\ upload' = [upload EXCEPT ![u].left = @ \ {f}]
    /\ replaced' = [replaced EXCEPT ![u] = @ \ {f}]
    /\ UNCHANGED <<feed, channel, announced, halfway>>

\* An entry is wrong, or the upload is refused: its temporary files go.
RefuseUpload(u) ==
    /\ upload[u].stage = "checking"
    /\ upload' = [upload EXCEPT ![u] = [New EXCEPT !.stage = "ended"]]
    /\ UNCHANGED <<feed, channel, announced, replaced, halfway>>

\* The packages and the manifest of `u` that are moved are `moved` and `listed`.
Move(u, moved, listed) ==
    /\ feed' = [f \in Asset |-> IF f \in moved THEN upload[u].files[f] ELSE feed[f]]
    /\ channel' = [c \in Channel |-> IF listed THEN upload[u].list ELSE channel[c]]
    /\ replaced' = [v \in Incoming |-> replaced[v] \cup {f \in moved : feed[f] # feed'[f]}]
    /\ upload' = [upload EXCEPT ![u] = [New EXCEPT !.stage = "ended"]]

\* Every file is moved, and release.json is written.
PublishUpload(u) ==
    /\ upload[u].stage = "checking" /\ upload[u].left = {}
    /\ Move(u, Brings(u), TRUE)
    /\ announced' = u
    /\ UNCHANGED halfway

\* A move fails or the process ends on the way: the files go in the order of the
\* upload, so that any of them may be in place, and release.json, which is written
\* in place, may be cut short.
PublishPartly(u) ==
    /\ upload[u].stage = "checking" /\ upload[u].left = {}
    /\ \E moved \in SUBSET Brings(u), listed \in BOOLEAN :
          /\ Move(u, moved, listed)
          /\ announced' \in IF moved = Brings(u) /\ listed THEN {announced, "torn"} ELSE {announced}
    /\ halfway' = TRUE

-----------------------------------------------------------------------------
FeedInit ==
    /\ feed = NoAssets /\ channel = [c \in Channel |-> NoList] /\ announced = "none"
    /\ upload = [u \in Incoming |-> New] /\ replaced = [u \in Incoming |-> {}] /\ halfway = FALSE

FeedNext ==
    \E u \in Incoming : \/ ReceiveUpload(u) \/ RefuseUpload(u) \/ PublishUpload(u) \/ PublishPartly(u)
                      \/ \E f \in Asset : CheckEntry(u, f)

FeedSpec == FeedInit /\ [][FeedNext]_feedVars

-----------------------------------------------------------------------------
\* Feed and uploads stay within their types.
FeedTypeOK ==
    /\ feed \in [Asset -> Content \cup {"none"}] /\ channel \in [Channel -> ManifestSet]
    /\ announced \in Incoming \cup {"none", "torn"} /\ halfway \in BOOLEAN
    /\ \A u \in Incoming : upload[u].stage \in {"new", "checking", "ended"} /\ upload[u].left \subseteq Asset
    /\ replaced \in [Incoming -> SUBSET Asset]

\* When a manifest goes live its packages are in the feed with the bytes it says,
\* however uploads run into each other, but for packages that another upload
\* replaced after this one had hashed them and for uploads that end on the way.
\* (Afterwards an upload may replace bytes that an older manifest still names.)
LiveManifestsAreComplete ==
    [][\A c \in Channel : channel'[c] # channel[c] /\ ~halfway' =>
          \A f \in DOMAIN channel'[c] :
              \/ feed'[f] = channel'[c][f]
              \/ \E u \in Incoming : upload[u].stage = "checking" /\ upload'[u].stage = "ended"
                                   /\ f \in replaced[u] \ Brings(u)]_feedVars
=============================================================================
