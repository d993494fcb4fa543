------------------------------- MODULE MCPlatform -------------------------------
(***************************************************************************)
(* The modules of the platform for model checking.  They share no state,   *)
(* so a behaviour is one of one module: `part` says of which, and the      *)
(* others stay where they start.                                           *)
(***************************************************************************)
EXTENDS PlatformAccounts, PlatformBilling, PlatformCollection, PlatformAccess,
        PlatformMetrics, PlatformStartup, WebClient, RemoteFiles, Releases, AgentEnrollment,
        WorkloadDrawer, ServerDetail, AddServer, FeedServer

VARIABLE part

MCSeats == [p \in {"community", "team"} |-> IF p = "team" THEN 2 ELSE 1]

\* Two transactions of a hosted subscription and one of a mobile licence.
MCBought == [t \in {"t1", "t2", "t3"} |-> IF t = "t3" THEN "p2" ELSE "p1"]
MCHostedPlan == [p \in {"p1"} |-> "team"]

\* Two files on one server, and none on the other.
MCStored == [s \in {"s1", "s2"} |-> [d \in {"a", "b"} |-> [n \in {"x", "y"} |->
                IF s = "s1" /\ d = "a" THEN IF n = "x" THEN 1 ELSE 2 ELSE 0]]]

\* A secret is changed where no alerts are evaluated: the server is not in agent mode and
\* has no rule.
SecretsOrAlerts ==
    server'.agent \/ (server'.row = "present" /\ rule' # "none")
        => server'.secret.version = 1 /\ \A h \in Loaded' : h.version = 1

\* Files that are copied or moved are two, or the first; files that are written, renamed
\* or removed are the first.  Once the last job has begun what the page does no longer
\* touches a file.
FewSelections ==
    /\ started = MaxJobs => jobs' # jobs
    /\ "y" \in {p.name : p \in clipboard'.paths} => Cardinality(clipboard'.paths) = 2
    /\ \A j \in jobs' : j.kind \in {"write", "rename", "remove"} => \A p \in j.paths : p.name = "x"

\* Rows of tokens, which are the client's, do not multiply with the other users: three
\* rows are there while no other has signed up, two while one has.
RowsOrUsers == Len(tokens') + Cardinality({u \in User \ Client : users'[u] # "absent"}) <= 3

\* Nothing tells one notification from another before it is sent, nor the transactions of
\* one purchase; and it makes no difference how long a notification is on its way.  The
\* second one says that a transaction was refunded, and may overtake the first.
Mentioned(t) == txns'[t] # "none" \/ (\E e \in Event : sent'[e].txn = t)
                  \/ (\E x \in submitting' : x.txn = t)
InOrder ==
    /\ sent'["e2"] = Unsent \/ (sent'["e2"].state = "refunded" /\ eventStatus'["e1"] # "none")
    /\ Mentioned("t2") => Mentioned("t1")

\* The submission of the dialog is one of the requests under way.
RequestsInAll == submit'.step = "none" \/ Cardinality(asks') < MaxAsks

PlatformParts == {"accounts", "billing", "collection", "access", "metrics", "startup",
                  "web", "files", "releases", "enrollment", "drawer", "detail", "adding",
                  "feed"}

PlatformInit ==
    /\ part \in PlatformParts
    /\ AccountsInit /\ BillingInit /\ CollectionInit /\ AccessInit
    /\ MetricsInit /\ StartupInit /\ WebInit /\ FilesInit /\ ReleasesInit /\ EnrollmentInit
    /\ DrawerInit /\ DetailInit /\ AddInit /\ FeedInit
    /\ part = "metrics" \/ mode = "agent"
    /\ page.server = "s1" /\ (part = "files" \/ client = "web")

PlatformNext ==
    /\ UNCHANGED part
    /\ IF part = "accounts" THEN TRUE ELSE UNCHANGED accountVars
    /\ IF part = "billing" THEN TRUE ELSE UNCHANGED billingVars
    /\ IF part = "collection" THEN TRUE ELSE UNCHANGED collectionVars
    /\ IF part = "access" THEN TRUE ELSE UNCHANGED accessVars
    /\ IF part = "metrics" THEN TRUE ELSE UNCHANGED metricsVars
    /\ IF part = "startup" THEN TRUE ELSE UNCHANGED startupVars
    /\ IF part = "web" THEN TRUE ELSE UNCHANGED webVars
    /\ IF part = "files" THEN TRUE ELSE UNCHANGED fileVars
    /\ IF part = "releases" THEN TRUE ELSE UNCHANGED releaseVars
    /\ IF part = "enrollment" THEN TRUE ELSE UNCHANGED enrollmentVars
    /\ IF part = "drawer" THEN TRUE ELSE UNCHANGED drawerVars
    /\ IF part = "detail" THEN TRUE ELSE UNCHANGED detailVars
    /\ IF part = "adding" THEN TRUE ELSE UNCHANGED addVars
    /\ IF part = "feed" THEN TRUE ELSE UNCHANGED feedVars
    /\ \/ part = "accounts" /\ AccountsNext /\ RowsOrUsers
       \/ part = "billing" /\ BillingNext /\ InOrder
       \/ part = "collection" /\ CollectionNext /\ SecretsOrAlerts
       \/ part = "access" /\ AccessNext
       \/ part = "metrics" /\ MetricsNext
       \/ part = "startup" /\ StartupNext
       \/ part = "web" /\ WebNext
       \/ part = "files" /\ FilesNext /\ FewSelections
       \/ part = "releases" /\ ReleasesNext
       \/ part = "enrollment" /\ EnrollmentNext
       \/ part = "drawer" /\ DrawerNext
       \/ part = "detail" /\ DetailNext /\ RequestsInAll
       \/ part = "adding" /\ AddNext
       \/ part = "feed" /\ FeedNext

PlatformSpec ==
    PlatformInit /\ [][PlatformNext]_<<part, accountVars, billingVars, collectionVars, accessVars, metricsVars,
                                       startupVars, webVars, fileVars, releaseVars, enrollmentVars, drawerVars,
                                       detailVars, addVars, feedVars>>

-----------------------------------------------------------------------------
\* The state of the module that takes the steps stays within its types.
PlatformTypeOK ==
    /\ part = "accounts" => AccountsTypeOK
    /\ part = "billing" => BillingTypeOK
    /\ part = "collection" => CollectionTypeOK
    /\ part = "access" => AccessTypeOK
    /\ part = "metrics" => MetricsTypeOK
    /\ part = "startup" => StartupTypeOK
    /\ part = "web" => WebTypeOK
    /\ part = "files" => FilesTypeOK
    /\ part = "releases" => ReleasesTypeOK
    /\ part = "enrollment" => EnrollmentTypeOK
    /\ part = "drawer" => DrawerTypeOK
    /\ part = "detail" => DetailTypeOK
    /\ part = "adding" => AddTypeOK
    /\ part = "feed" => FeedTypeOK

\* The rows the metric routes answer with are those of the window, if it fits a page
\* (HistoryIsComplete), and of the newest inventory (InventoryShownIsNewest), and the
\* output a drawer shows is of the workload it is open for, unless it moved on while it
\* waited (OutputIsOfTheOpen).
MetricsAreCurrent == HistoryIsComplete /\ InventoryShownIsNewest /\ OutputIsOfTheOpen

\* One tab never presents a token twice, unless a refresh's answer was lost
\* (OneTabNeverReplays); the page of a server polls once (LoopsRunOnce), shows what its
\* server allows (AccessTabsNeedAccess) and is, unless it changed servers while it
\* waited (DetailIsOfThePage), and waits only for what is under way (WaitsAreReal); a
\* dialog adds one server (OneServerPerDialog), which the list shows
\* (ListShowsTheServers), unless an answer was lost or the list was asked for too early.
ConsoleIsSound ==
    /\ OneTabNeverReplays
    /\ LoopsRunOnce /\ AccessTabsNeedAccess /\ DetailIsOfThePage /\ WaitsAreReal
    /\ OneServerPerDialog /\ ListShowsTheServers

\* A manifest goes live after the packages it names, through the administration of
\* the platform (NewManifestsAreComplete) and through the website's feed
\* (LiveManifestsAreComplete).
ManifestsAreComplete == NewManifestsAreComplete /\ LiveManifestsAreComplete

\* What was recorded stays: a scale plan of an administrator ends only when an
\* administrator assigns another (ManualScaleStands); a host fingerprint is replaced
\* (FingerprintStands) and a secret is put back (SecretStands) only by a collection or
\* test that had loaded another one and is still under way, which does so.
RecordsStand == ManualScaleStands /\ FingerprintStands /\ SecretStands
=============================================================================
