# A verification project for monitc

monitc is a server monitoring product: a native agent that samples a host and
delivers the samples to a gateway, a hosted platform (API, worker, web
interfaces) on PostgreSQL and Redis, and an Electron desktop application that
monitors servers over SSH.  This directory holds TLA+ models of its stateful
parts, the TLC configurations that check them on small instances, and TLAPS
proofs of what matters most for every instance.

All paths below are relative to the repository root.

## 1. Inventory

| Component | Code | State it keeps | Operations |
|---|---|---|---|
| Agent spool | `agent/internal/agent/spool.go` | batch files with their modification times, an index of them, the quarantine directory | `Put` with eviction, `Oldest`, `Read`, `Acknowledge`, `AcknowledgeItem`, `Quarantine`, `HighestSequence`, load on start |
| Agent collector | `agent/internal/agent/collector.go` | sequence counter, pending samples | sample, `flushBatch` |
| Agent runtime | `agent/internal/agent/runtime.go` | stream to the gateway, the batch in flight | start, pair, rotate certificate, connect, send, acknowledge, retry |
| Agent identity | `agent/internal/agent/identity.go`, `config.go` | certificate, last sequence, last acknowledged boot and sequence; one copy in memory, one in `identity.json` | `PersistSequence`, `Acknowledge`, `InstallCertificate` |
| Gateway stream server | `agent/internal/gateway/server.go`, `validation.go` | one goroutine per stream | `Pair`, `RotateCertificate`, `Connect` |
| Gateway store | `agent/internal/gateway/store.go` | tables `agent_identities`, `agent_pairing_tokens`, `system_metric_samples`, minute rollups | `RegisterAgent`, `RotateAgentCertificate`, `MarkConnected`, `SaveMetricBatch` |
| Gateway pairing limiter, PKI | `pairing_limiter.go`, `pki.go` | a token bucket per address; the CA | `Allow`, `prune`; sign |
| Telemetry collectors, eBPF | `agent/internal/telemetry`, `ebpf` | previous counters | read the host |
| Platform accounts and sessions | `platform/apps/api/src/auth`, `routes/{auth,mobile-auth,workspace}.ts` | users, refresh families, challenges, workspaces, memberships | sign up, log in, rotate, revoke, members, roles, closing an account |
| Platform servers and enrollment | `routes/servers.ts` | servers, secrets, pairing tokens | create, remove, change a secret, test, issue a token |
| Billing | `routes/mobile-billing.ts`, `services/{apple-billing,billing-state}.ts`, `routes/admin.ts` | purchases, subscriptions, licences, received notifications | submit a transaction, receive a notification, assign a plan |
| Worker | `worker.ts`, `worker/collector-loop.ts`, `services/alert-evaluator.ts` | a Redis lock per server, samples, alerts | collection cycle, retention, presence sweep, alert evaluation |
| Remote access and metrics | `routes/{access,metrics}.ts` | SSH connections, terminal tickets and sockets | run, browse, stream, terminal; history, overview, workloads |
| Database start-up | `db/{migrate,seed}.ts`, `services/bootstrap-admin.ts`, `lib/startup-retry.ts` | schema, recorded migrations | migrate, seed, first administrator, retry |
| Releases | `routes/releases.ts`, `website/server/index.mjs` | staged files, packages and manifests of the feed | publish |
| Web console | `platform/apps/web/src` | access token per tab, what pages show, polling loops | restore, refresh, log in and out; server page, dialogs, drawer, files |
| SSH connection manager | `src/main/ssh/ssh-manager.ts` | one entry per server: client, status, retry timer, health probe, channel queue | `connect`, `disconnect`, client events, `execCommand`, `withSftp` |
| Desktop monitors | `src/main/monitors` | delayed starts, intervals, previous readings | start, stop, poll |
| Desktop alerts and store | `src/main/{alerts,store}` | rules, cooldowns, delayed alerts; one JSON file and a copy of it in memory | evaluate, dispatch, edit, save, reset |
| Desktop updater | `src/main/updater` | the update's state | check, download, install |
| Desktop sessions, SFTP, AWS, CI | `src/main/{ssh,terminal,aws,ci,ipc}` | shells, log streams, cached clients | open, write, close; list, copy, move |
| Desktop interface | `src/renderer` | what each page shows and waits for | choices, calls, answers, timers |
| Shared package, website, infrastructure | `platform/packages`, `website`, `infra`, `scripts` | none | types; build and deploy |

How they interact.  The collector writes to the spool while the stream reads
from it; both share the identity.  Agent and gateway speak over one
bidirectional gRPC stream; the gateway and the platform share PostgreSQL and
never call each other.  The worker's retention deletes rows that the gateway
inserts, and reads of the metric routes run beside both.  API processes and
workers meet in the database and in two kinds of Redis lock.  The web console
polls the API; several tabs share one refresh cookie.  On the desktop,
everything runs in one JavaScript process per window and one main process: ssh2
events, timers and IPC calls are callbacks that interleave at every `await`, and
the managers call each other through status events.

What is hard: the collector racing the stream over the files of the spool; a
process killed between any two writes; answers lost with their stream; clocks
that step back; retention racing retries; two requests in two transactions; a
lock that expires under its holder; an object read before an `await` and saved
after it; an answer shown by a page that has moved on; retries, probes, timers
and user actions on one SSH connection.  `PROJECT.json` lists each hazard at its
line with the properties that would catch it.

What makes each component correct:

- *telemetry delivery* (spool, collector, runtime, gateway store): a spooled
  sample is committed, evicted by the size cap or quarantined, or PostgreSQL has
  the sample of an earlier process under its number; it is counted once, as long
  as retention has not deleted its row; the oldest goes first.
- *enrollment*: an agent that nobody replaced and whose calls were answered is
  known to the gateway; a pairing token pairs once.
- *accounts*: one usable refresh token per family, also after a replay, which
  does not always end the family (a rotation under way inserts its token after
  the replay's update); a workspace has an owner and no more members than seats.
- *billing*: what an account may do agrees with the transaction that was
  committed last; a notification answered as a success is stored, unless a second
  delivery was answered for a first one still at work or dead; an administrator's
  scale plan stands.
- *worker*: one collection of a server at a time while its lock holds; one open
  alert per rule unless two workers evaluate it at once, as they may for a server
  in agent mode; a recorded fingerprint or secret is written over only by a
  collection or test under way that had loaded another.
- *access and metrics*: one terminal per ticket, no connection without an owner
  but that of a socket that closed too early, input in order, cut at 16 384
  characters; a history without holes, where its window fits a page.
- *start-up, releases*: one migrator at a time; no manifest before its packages.
- *web console*: polling loops do not multiply; a page shows its own server,
  unless it changed servers while it waited; a dialog adds one server however
  often it is sent, unless an answer was lost.
- *SSH manager*: one connection per server, a disconnect is final, the channel
  budget holds, everybody who waits is served or told - as far as no health probe
  fails and no connection drops (the violated runs of section 3).
- *desktop*: polling follows the user's starts and stops, up to what delayed
  starts do; an outage is reported once per cooldown; alerts in flight bring back
  no rule and drop none, but undo an edit of a rule they hold; a page shows what
  is chosen on it, unless the choice was made while a call was under way; a button
  that is disabled while something runs comes back.

Where such a sentence has an exception, the code has it; section 2 lists them.

## 2. Modules

Each module is one part of the system with its own `Init`, actions, `Next`,
specification, type invariant and properties.  `MC*` modules give constants
their values and put parts side by side.

| Module | Models |
|---|---|
| `TelemetryContract` | abstract: what delivery promises about each spooled sample |
| `TelemetryDelivery` | the pipeline from the agent's collector to PostgreSQL; refines the contract |
| `AgentEnrollment` | pairing tokens, registration, rotation, removal; calls that time out and commit late |
| `PlatformAccounts` | sign-up, login, refresh families, members, roles, closing an account |
| `PlatformBilling` | notifications, submitted transactions, states, entitlements, assigned plans |
| `PlatformCollection` | two workers, the lock, secrets, tests, alerts |
| `PlatformMetrics` | samples, rollups, inventories, retention, presence, what the routes answer |
| `PlatformAccess` | requests over SSH, downloads, tickets, terminals |
| `PlatformStartup` | migrations, seeds, first administrator, retries, processes that die |
| `Releases`, `FeedServer` | publishing through the administration; the website's feed |
| `RemoteFiles` | file jobs of the desktop and of the web |
| `WebClient` | tabs, calls, the one refresh request, login and logout |
| `ServerDetail`, `AddServer`, `WorkloadDrawer` | pages of the web console |
| `SshConnection` | the desktop's SSH manager for one server |
| `DesktopMonitors` | monitors and connection alerts, composed with `SshConnection` |
| `MonitorReadings` | byte counters, overlapping polls |
| `AlertRules`, `SettingsFile` | the data file: rules and evaluations; handlers that write it |
| `AppUpdater` | checks, downloads and installation |
| `DesktopSessions` | terminals and log streams against the pages that hold them |
| `ClusterPage`, `DeployPage`, `CicdPage` | pages of the desktop |
| `MCTelemetryDelivery`, `MCSshConnection`, `MCDesktop`, `MCPlatform` | instances |
| `*Proofs` | theorems (section 5) |

`DesktopMonitors` EXTENDS `SshConnection` and joins its actions with what the
listeners of a status event do: `emit()` calls them before it returns, so an
event of a client and its effects on monitors, delayed alerts and the window are
one step.

### TelemetryDelivery

State and code: `spool` is the spool directory with its index (a record per
file: boot, first and last sequence, samples, modification time) and
`quarantine` the directory `rejected/`; `lastSequence` and `acked` are the
identity in memory and `identityFile` is `identity.json`; `batch` and
`collector` say where the collector goroutine stands, `phase`, `stream` and
`awaiting` where the stream goroutine stands, on which stream, with which item
taken from the index; `wire` and `replies` are the messages in flight in both
directions, those of broken streams included; `rows`, `rolledUp` and
`recounted` are the rows and rollup counters in PostgreSQL, `agentRow` the
agent's row; `clock` is the wall clock that stamps files.  `accepted`,
`committed`, `evicted` and `rejected` are history, read by properties only.  A
sample is `committed` when `SaveMetricBatch` inserted its row: one that the
conflict clause dropped, because another process had used its number, is
acknowledged and deleted without, and the properties call it `Shadowed`.

Actions: `Start` (after a crash, under the same kernel or a new one), `Crash`,
`Collect`, `Flush` (a whole `flushBatch` up to the file: eviction, write, index)
and `PersistSequence` (a separate step, as the process may die in between) for
the collector; `OpenStream`, `BreakStream`, `ReceiveWelcome` (with the pruning it
does), `TakeOldest`, `SendBatch`, `ReceiveAck` (the file goes), `RecordAck` (the
identity is saved), `ReceiveReject` and `Poll` for the stream goroutine, with the
failures `ReadFails`, `RecordAckFails` and `PersistSequenceFails`; `HandleHello`,
`SaveMetricBatch` (one transaction) and `RejectBatch` for the gateway;
`LoseMessage`, `ClockStepsBack` and `ExpireRow` for the world.  The collector and
the stream interleave between any two of these, because the spool's mutex is
held for one call only.

A sample carries the process that took it next to the boot and sequence the
code numbers it with, so that a number used twice is visible; no guard reads it.

### SshConnection

State and code: a client is numbered in the order of `new Client()`, and its
`ConnectionEntry` has the same number for ever, because closures hold on to
entries that the map has dropped.  `current` is `connections.get(id)`,
`handshake` the client behind `connectPromises.get(id)`, `link` the socket,
`status`, `intentional` the entry's fields, `attempt` the retry count in the
closure, `timers` the retry timers that are set, `queue` the channel queue,
`phase` and `serving` what became of each command.  `activeChannels` is the
number of running commands of the entry.  Servers share no state in the manager,
so one stands for all.

Every callback is one action: `Connect`, `Disconnect`, `Exec` and `Settle` for
callers; `Ready`, `HandshakeFails`, `AbortedHandshakeFails`, `ConnectionFails`,
`ConnectionEnds`, `SocketCloses` for ssh2 events; `RetryFires`, `ProbeStarts`,
`ProbeAnswers`, `ProbeFails` for timers.  Whether ssh2 reports an error for a
client that was destroyed in its handshake is left open.
`streamCommand` and `testConnection` keep nothing in the manager and are left
out; backoff delays are abstracted to "some time later".

### The other modules

*Where a step ends.*  On the platform, a transaction or a single statement is
one action; a handler that reads, awaits and writes is two or more, and what it
read is kept in a record of the request (`stage`, `secret`, `old`).  Row locks,
advisory locks and Redis locks are guards.  In a browser or the main process, a
callback up to its next `await` is one action; a call under way is a member of a
set (`asks`, `fetches`, `waits`, `asked`, `flights`) that remembers what it was
made for, and answers come in any order.

*What data is.*  A secret, a certificate, a refresh token or a file's contents is
a number in order of issue; a list on a page is the place it was read from; a
package is its bytes and a manifest the bytes it names.

*History.*  Some variables only remember that something happened, and no guard
reads them.  Several are limits of a property: they mark a behaviour that the
code allows and under which the property does not hold.  A reader should take
each as a statement about the code, since without it the property fails:

| Flag | The code allows |
|---|---|
| `ClusterPage.hurried`, `DeployPage.rushed`, `CicdPage.crossed`, `WorkloadDrawer.crossed`, `ServerDetail.lagging` | a choice made while a call is under way; its answer is stored for what is chosen now |
| `MonitorReadings.overtaken` | a poll that ends after one begun later (intervals do not wait) |
| `DesktopMonitors.hasty`, `outrun` | a start made, or a stop, while the docker or kubernetes monitor's start is delayed: nothing calls the delayed start off |
| `DesktopMonitors.silenced` | an outage that is over the retries within the cooldown of the last report, and is not reported |
| `DesktopMonitors.shownStatus.late` | a torn-down client that reports last, and whose status stays |
| `MonitorReadings.blank` | a pod listed without counters, which starts over at zero (`kubernetes-monitor.ts:190`) |
| `DesktopSessions.forgotten`, `switched`, `late` | a page, tab, server or selection that goes while a session or stream is still being opened |
| `AlertRules.exposed` | a rule edited while an evaluation that holds it waits for its channels; the edit is undone |
| `AlertRules.overlapped`, `overwritten` | evaluations that meet another or a reset; `appData` saved over project links and AWS accounts |
| `SettingsFile.misread` | a load that fails, and defaults that are then saved over everything |
| `TelemetryDelivery.Shadowed` | a number used again after a kill: the conflict clause drops the second sample, and its file goes |
| `PlatformAccounts.closing = "joined"` | a member added between the count and the delete of `DELETE /account` |
| `PlatformBilling.early` | a second delivery answered as a success because the first is at `received` |
| `PlatformCollection.overlapped`, `met` | a collection that outlasts its 120-second lock; two workers that evaluate a server's rules at once, which in agent mode nothing prevents |
| `Releases.outlived` | an upload that outlasts its ten-minute lock |
| `FeedServer.replaced`, `halfway` | a package replaced by another upload after it was hashed; an upload cut short between moves |
| `PlatformAccess.abandoned`, `trimmed` | a socket that closes before its SSH connection is made; input beyond 16 384 characters |
| `WebClient.lost`, several `opened` | a lost refresh answer, a reload during a refresh, or two tabs that refresh at once: a rotated token is presented |
| `RemoteFiles.spent` | what a delete or a write of the user replaced, or what another job put under the name a desktop copy had opened |
| `AgentEnrollment.orphans` | an agent whose call was committed but not answered in time, or whose server another agent took |
| `AddServer.unsure`, `outdated` | a lost answer, a kind changed between attempts; a listing overtaken by a change |

## 3. Runs

| Run | Question | Result |
|---|---|---|
| `delivery_crash` | a kill at any step, one lost or broken thing | safety and the contract hold |
| `delivery_reboot` | files of two boots; a broken stream | contract and liveness hold |
| `delivery_clock` | full spool, backward clock step, retention | cap and uniqueness hold |
| `delivery_prune_after_clock_step` | is a file deleted only after its commit? | violated |
| `delivery_resend_after_retention` | is a late retry counted once? | violated |
| `delivery_sequence_reuse` | does a sequence name one sample? | violated |
| `ssh_lifecycle` | connects, failures, retries, channels, no failed probe | safety and liveness hold |
| `ssh_probe_reconnect` | is a disconnect final after a failed probe? | violated |
| `ssh_dropped_waiters` | does a waiting command settle? | violated |
| `alert_reset` | is a reset final while an alert is being sent? | violated |
| `desktop` | nine parts of the desktop, one at a time | safety and `OutageIsReported` hold |
| `platform` | fourteen parts of the platform and its web console, one at a time | safety holds |

The violated runs are real disagreements between the code and what its
documentation, comments or messages say; `PROJECT.json` quotes both.

The parts of `desktop` and of `platform` share no state.  A behaviour of
`MCDesktop` or `MCPlatform` is one of one part: `part` says of which, the others
stay in one initial state, and the run's state space is the sum of the parts'
and not their product.  Properties of parts that answer one question are
conjoined under one name, stated in these modules: for example
`MonitoringIsSound` is `MonitorsFollowTheUser`, `ReadingsAddUp` and
`StatusShownIsReal`, and `ConsoleIsSound` is what the pages of the web console
promise.

Bounds.  *Delivery*: two process starts give one crash and one recovery, which
is where numbering, pruning and re-sending go wrong; a second boot is needed
only where two boots meet (`delivery_reboot`).  A spool of two units holds two
batches of one sample or one of two, so eviction, the order of two files and a
batch with a later one behind it all occur; three sequences let a third batch
arrive while one is in flight and one waits.  One fault is a lost message, a
failed read or save, or a broken stream, at any point.  *SSH*: four clients are
what two connects and two failures can open; one channel makes the second
command wait; one retry makes the last attempt reachable.  Retries are alike
but for the last one, and clients that are not the map's are alike, so longer
histories repeat these.

*Desktop*: two of everything that can be confused with another (servers,
sessions, log streams, rules, evaluations, clusters, namespaces, projects,
repositories), since every hazard of these parts is about one thing taken for
another; one connect with two failures and one retry, so that monitors are
started twice and a server is given up; three samples, so that an evaluation
passes another; two downloads and two faults of the updater, so that one can be
repeated after it failed; five to seven user actions on a page, which is what it
takes to choose, start, choose again and return while two calls are under way;
two outages' worth of readings (`MaxTraffic`, `MaxPolls` 2).  `MaxProbeFailures`
is 0 here because a failed probe already breaks the connection's own promises
(`ssh_probe_reconnect`).

*Platform*: three users and one shared workspace give an owner, somebody whose
role changes and somebody being added; three rows of tokens let two rotations of
one token, or of a token and its successor, meet (`RowsOrUsers`: three rows while
only their user has signed up, two beside one other user, so that tokens do not
multiply with members); two purchases with three transactions and two
notifications give late, repeated and crossing notifications (`InOrder` names
transactions and notifications in the order they come up, and lets the second
notification be a refund, which may overtake the first); two workers, two secrets and two host keys let a
lock expire under one, a stale secret be written and a fingerprint be replaced
by another (`SecretsOrAlerts` changes secrets only where no alerts are
evaluated, since no evaluation reads one); two sockets share one ticket, and
messages of one and three pieces against a limit of two are cut or not; five instants (`MaxNow` 4) with a retention of three,
raw rows for two and pages of three separate the three windows a history is cut
by; three starting processes with three faults; three tokens and two calls of
one tab; two servers with three files' contents, two names that a job copies or
moves together and that a rename or another job finds free or taken, and two
jobs at once (`FewSelections` leaves out the selections that are another by
exchanging names, and what pages do once no job is to come); two publications and two uploads, each with two packages; two machines on one server
with two tokens and three serials, so that a second agent takes the server while
a call of the first is late; two servers of the detail page, either of which may
be removed, and three requests under way, the dialog's included (`RequestsInAll`); three servers made by dialogs.  One issuer is a limit: two requests
for a pairing token do not race in this run.

`CHECK_DEADLOCK FALSE` stands in the SSH, `desktop`, `platform` and
`alert_reset` runs because their systems may stop: a manager that is
disconnected, an application that was left, a page with nothing to load.  The
delivery runs check deadlock: their agent polls for ever.

## 4. Fairness

Delivery (`FairSpec`): the agent's goroutines, the gateway's handlers and
message arrival are weakly fair, since each is a loop that runs whenever it can
and gRPC delivers what it does not break; crashes, faults, clock steps and
expiry are never forced, and their number is bounded, so liveness says: once the
disturbances end, everything pending is resolved.  SSH (`FairSshSpec`): timers
fire, a handshake ends within `readyTimeout`, a destroyed socket closes, a probe
ends within its timeout and a command that holds a channel ends; nobody is
obliged to call anything.  Monitors (`MonitorsFairness`): the same for the
connection, and the delayed starts and alert timers of the main process fire.
In `desktop` this fairness applies to the part that moves: where another part
moves, the monitors' actions are disabled, and weak fairness asks nothing of
them.

The other parts have safety properties only.  Where something must come back (a
disabled button, a loading flag, a busy status) the property is the stronger
invariant that it is up only while what lowers it is under way.

## 5. Proofs

Every safety property that a run checks, type invariants and action properties
included, is proved by TLAPS for every value of the constants that satisfies the
named assumption of its module (`DeliveryAssumption`, `SshAssumption`, ... one or
two per module): bounds are natural numbers, sets that are counted are finite, and
names such as `"none"` or `"closed"`, which the code uses for "nothing", name no
element.  Beyond these the theorems have only the hypotheses of the last column.

| Theorem | Statement | Extra hypothesis |
|---|---|---|
| **`TelemetryDeliveryProofs`** `TypeCorrect` | types | |
| `SpoolSequencesNeverOverlap` | no two files of a boot cover one sequence | |
| `SpoolStaysWithinCapacity` | the spool never outgrows its cap | |
| `RowsStayUnique` | one row per boot and sequence, each rolled up | |
| `RollupsExactWithoutRetention` | no sample is rolled up twice | `MaxExpirations = 0` |
| `AnswersAlwaysMatch` | an answer belongs to the batch in flight | |
| **`TelemetryContractProofs`** `DeletionsFollowCommits` | files go only with their samples inserted, evicted, quarantined or shadowed | `MaxClockSteps = 0` |
| `OldestAreEvicted` | what is evicted is older than what stays | `MaxClockSteps = 0` |
| `DeliveryImplementsContract` | the pipeline refines `TelemetryContract` | `MaxClockSteps = 0` |
| **`SshConnectionProofs`** `TypeCorrect` | types; attempts stay within `MAX_RETRIES` | |
| `ChannelsWithinBudget` | at most `MAX_CHANNELS` commands per connection | |
| `WaitersNeverStranded` | a waiter has a running command ahead of it | |
| `OneConnection` | at most one client connected or connecting | `MaxProbeFailures = 0` |
| `DisconnectStaysFinal` | nothing alive or scheduled after a disconnect | `MaxProbeFailures = 0` |
| `StrayConnectionsAreCounted` | one connection while wanted, none after a disconnect, and at most one more per failed probe | |
| **`DesktopProofs`** `InstallationsAreAskedFor`, `BusyStatusStaysReal`, `UpdaterTypeCorrect` | an installation was asked for and downloaded; a busy status does not outlive what it names | |
| `SettingsTypeCorrect`, `ClientsStayCurrent`, `SettingsNeverGoBack` | a cached AWS client has its account's credentials; saved settings are not replaced by earlier ones but by a reset or after a load that failed | |
| `SessionsStayHeld` | terminals and log streams run only held by a page, unless that went while they were being opened | |
| `ClusterPageStaysReal`, `DeployPageStaysReal`, `CicdPageStaysReal` | a page shows what is chosen, unless that was chosen during a call; its flags come back | |
| `EditsStay` | evaluations drop and bring back no rule and no setting, and undo edits only of rules they hold, unless they overlap | |
| `ReadingsStayExact` | traffic is counted once, unless polls overtake each other | |
| `MonitorsTypeCorrect` | types | |
| `MonitorsStaySound` | monitors follow the user, up to the counted harm of delayed starts; the status shown is real, unless a torn-down client reported last | `MaxProbeFailures = 0` |
| `MonitorsDriveTheConnections`, `DesktopConnectionsAreCounted` | `MonitorsSpec` implements `SshSpec`, so `DesktopSpec` keeps the count of connections | |
| `DesktopTypeCorrect`, `DesktopSessionsStayHeld`, `BusyStaysReal`, `PagesStayOnTheChosen` | the same of the composition `DesktopSpec` | |
| `MonitoringStaysSound` | the same of the composition | `MaxProbeFailures = 0` |
| **`PlatformAccountsProofs`** `OneLiveToken` | one usable refresh token per family | |
| `MembershipsStaySound` | an active owner; members within seats; no member there at the count is evicted by a closing account | |
| `AccountsTypeCorrect` | types | |
| **`AgentEnrollmentProofs`** `EnrollmentStaysSound`, `EnrollmentTypeCorrect` | a token pairs once; an agent that was not replaced or orphaned is known | |
| **`ConsoleProofs`** `AddingStaysSound` | a dialog creates one server, unless an answer was lost; the list shows the servers, unless a change overtook it | |
| `OneTabStaysSignedIn` | one tab never replays a rotated token, unless a refresh's answer was lost | |
| `ServerPageStaysSound` | one loop of a kind; what is shown is of the page's server, unless that changed during a request | |
| `NoFileIsLost` | copies, moves and renames lose no content but what another job put under an opened target | |
| `DrawerStaysOnItsWorkload` | the output is of the open workload, unless the drawer moved on while it waited | |
| `MetricsStayComplete` | histories of windows that fit a page are complete, inventories newest | |
| **`PlatformProofs`** `CollectionStaysExclusive`, `FingerprintsStand` | one collector per server while locks hold; a second open alert only after two workers evaluated at once; a fingerprint is lost to nobody, and replaced only by one under way that had loaded another | |
| `TerminalsStaySound` | a ticket opens one terminal; input in order, and whole up to the limit | |
| `StartupStaysExclusive` | migrations are applied one at a time | |
| `PurchasesStayEntitled`, `ScalePlansStand`, `BillingTypeCorrect` | entitlement agrees with the transaction committed last, and what was answered is stored, unless a second delivery answered; an assigned scale plan stands | |
| `NewManifestsStayComplete`, `LiveManifestsStayComplete` | a manifest goes live over packages that are there, unless a lock expired or another upload interfered | |
| `PlatformTypeCorrect`, `MetricsStayCurrent`, `ConsoleStaysSound`, `ManifestsStayComplete`, `RecordsStayRecorded` | the same of the composition `PlatformSpec`; `RecordsStand` also says that a secret is put back only by one under way that had loaded it | |

The extra hypotheses are exactly the conditions whose absence the violated runs
exploit, so each pair says where the promise ends: `MaxProbeFailures = 0` is a
connection on which no health probe fails (`ssh_probe_reconnect`),
`MaxClockSteps = 0` a host whose clock never steps back
(`delivery_prune_after_clock_step`), `MaxExpirations = 0` a batch that is not
sent again after its rows expired (`delivery_resend_after_retention`).  A
property that allows an exception names it in its own definition, by a history
variable of the table in section 2, that records when the exception began; the
words "unless" in the middle column stand for these.

The arguments.

- *Numbering*: the sequence in memory is at least every sequence in the spool of
  the same boot (`SequenceInv`), because a start takes the maximum of the saved
  sequence and of the files.
- *Capacity* (`CapacityInv`): `makeRoom` keeps the files that, with all newer
  ones, leave room for the batch; the oldest of them is followed by all the
  others, so together they leave it (`SurvivorsFit`, from `OldestExists`: a set of
  files that is not empty has an oldest).  The same monotonicity shows that an
  evicted file is not newer than a kept one (`KeptAreNewer`).
- *Answers*: the wire holds an answer of the current stream only while that
  stream waits for it (`StreamOrder`).
- *Contract* (`DeliveryInv`): while clocks do not step back, modification order
  is sequence order per boot (`FilesInOrder`), the batch in flight is the oldest
  of its boot (`OldestInFlight`), so an acknowledgement covers only numbers of
  which PostgreSQL has had a row (`Recorded`, in `SoundAcknowledgement`,
  `IdentityInv` and `AcceptedInv`), and pruning by it deletes only such files.  A
  sample of a file whose number another sample has in PostgreSQL is of a later
  process than that one, because numbers grow from process to process past what
  the spool holds (`NumbersGrow`): it is `Shadowed`, and `NothingLost` maps each
  step to one of the contract's.
- *Channels* (`ChannelInv`): entries of a queue are distinct waiters of that
  client, so a release that wakes one gives its own channel away and the count
  does not grow.
- *Connections* (`ConnectionInv`): sockets in use and retry timers belong to the
  entry the map holds, and a timer is set only when that entry's socket is gone.
- *Strays* (`ChancesCounted`): when probes do fail, what may still become a
  connection is counted - a socket in use, a destroyed one whose `close` event is to
  come, a timer that is set.  Each event hands one on (`SocketBecomesTimer`,
  `RetryCounts`), `connect` and `disconnect` take those of the entry they replace,
  and only a probe that fails on a live connection adds one (`ProbeCounts`): its
  `close` event and its own timer each lead to a client.
- *Monitors* (`MonitorsInv`): on top of `ConnectionInv`, an interval runs for each
  monitor held (`IntervalsAreHeld`), delayed starts are counted, the intervals and
  delayed starts of the kubernetes monitor are one more than the hasty starts at
  most (`LostToHaste`), and the system monitor is held while the user wants it
  (`PolledWhileWanted`).
- *Sessions* (`SessionsInv`): a session that is not open belongs to nobody, the
  quick terminal is one, and a stream that is still to run is the one of its name
  or was told to end (`StreamsAreNamed`).
- *Pages* (`ClusterInv`, `DeployInv`, `CicdInv`, `DetailInv`, `DrawerInv`): as long
  as the page's exception has not begun, every call under way is of what is
  chosen, so whichever is answered last shows the right thing; and each flag that
  is up has the call that lowers it under way.
- *Rules* (`AlertInv`): the file holds the data in memory (`FileIsTheData`), and
  unless evaluations overlapped, the one that waits for its channels works on the
  live data, which has the rules the user last left (`EditsAreKept`); what it holds
  of a rule is what is there, unless the rule was edited meanwhile
  (`VersionsAreKept`), so that putting it back changes nothing else.
- *Readings* (`ReadingsInv`): unless polls overtook each other, the reading that
  the next one is compared with is the newest (`AccountsAreKept`), and readings
  are taken in the order of the counter (`ReadingsInOrder`).
- *Settings* (`FileIsHeld`): while the application runs and no load has failed,
  what the file has of the main process's own settings is in its copy in memory
  too, so saving that copy, or the file with another part changed, drops none.
- *Updater* (`Justified`): a ready update has been downloaded, and the flag that
  installs after a download is up only with the user's consent.
- *Tokens* (`TokenInv`): a rotation under way holds a row lock on a live row, and
  families are numbered afresh, so a new live token always takes the place of the
  one it was rotated from; `Ageing` says that rows otherwise only lose their
  life.
- *Members* (`MemberInv`): the founder's row is there until the account is closed
  (`OwnersOwn`), and an addition that has counted seats holds the workspace's
  lock and has its seat reserved (`SeatsReserved`).  An account that was counted as
  alone in its workspaces is alone there until an addition commits and says so
  (`ClosingInv`); no lock is needed for this, and none is taken.
- *Billing* (`RowsFollow`, `HandlersFollow`): the subscription's purchase is a
  hosted one and the licence's is not, and each row says what the transaction of
  its purchase that was committed last says; a notification has one handler at a
  time, which has committed its state when it marks it.
- *Enrollment* (`EnrollmentInv`): tokens that have registered are not live
  (`TokensKept`); a machine waits for one call at a time and an answer is newer
  than any call made before it (`CallsMatch`); so the serial the gateway keeps is
  the machine's or the one on its way to it (`IdentitiesMatch`).
- *Collection* (`AloneInserts`, `ByMode`): as long as two workers have not evaluated
  at once, the one between its look for an alert and the insert is alone and no
  alert is open; and they evaluate at once only when a lock expired or the server is
  in agent mode.  Every write of a secret keeps the row's or puts back one that is
  loaded (`SecretsKept`).
- *Terminals* (`AccessInv`): the ticket of a terminal that connects is gone
  (`TicketsUsed`), a socket that closed early is recorded as abandoned
  (`ClosedIsAbandoned`), and what was typed early waits in order, whole unless it
  was cut (`BufferInOrder`, `ShellInOrder`; cutting a buffer keeps its order,
  `SliceKeeps`).
- *Startup* (`Progress`): where a process stands says which migrations it has seen
  recorded.
- *Manifests* (`ReleasesInv`, `FeedInv`): from the check of a package to the move of
  the manifest the package is staged or served with the bytes that were checked,
  unless the lock expired or another upload replaced it.
- *Web session* (`WebInv`): the newest token is in the jar, or in an answer on its
  way to it (`NewestIsHeld`).
- *Files*: `NothingIsLost` is inductive with the types: each step of a job writes
  one file, whose old content is spent or lies elsewhere (`OneFileChanges`).
- *Dialogs* (`AddInv`): a server the dialog made is the one it remembers
  (`RemembersItsServer`), and rows follow listings (`ListFollows`).
- *Metrics* (`SamplesAreKept`, `InventoriesAreKept`): what retention has not reached
  is still in a table that the route reads.
- *Compositions*: a step of `MCDesktop` or `MCPlatform` is a step of one part and
  leaves the variables of the others alone (`DesktopIsOfItsModules`,
  `PlatformSteps`), so the composition implements each part's specification and
  inherits its theorems.

With few exceptions the checked invariants are not inductive alone: `AtMostOneConnection` says
nothing of timers, which open connections later, `EnrollmentIsSound` nothing of
calls under way, which commit later, and a page's property nothing of the answers
that are to come.

Only model-checked: the liveness properties `PendingIsResolved`,
`ReconnectsOrGivesUp` and `OutageIsReported`, and `WaitersSettle` of a violated
run (TLAPS does not reason about `ENABLED`, hence not about fairness).  The
properties of the violated runs that no theorem has, `ResetIsFinal` and
`SequenceNamesOneSample`, do not hold.

## 6. Plan

Left of the plan, in this order: two issuers in `AgentEnrollment`, to state what
two pairing tokens for one server allow; an abstract specification of the data
file that `SettingsFile` and `AlertRules` both implement, with its refinement
proved; liveness of the retries in `PlatformBilling` and `PlatformStartup`.

## 7. Not modelled

Known hazards that no property covers, each at its line:

- `platform/apps/web/src/components/SshFallbackModal.tsx:47`: the poll of the page
  behind gives the dialog a new server object and clears the form.
- `ServerDetailPage.tsx:132`, `:89`: answers of overlapping inventory requests are
  kept in order of arrival; points of the history stay when the server changes.
- `platform/apps/api/src/routes/servers.ts:395`: two requests for a pairing token
  may leave two tokens valid.
- `platform/apps/web/src/lib/api.ts:85`: `apiCached` answers from before a change.
- `platform/apps/api/src/auth/guard.ts:11`: a revoked session is honoured while
  the cached verdict lasts.
- `routes/access.ts:241`: a directory copied into itself.
- `routes/releases.ts:151`: a directory made before the `try` that removes it.
- `src/renderer/src/pages/AlertsPage.tsx:83` and the integration settings: a page
  saves the whole object it loaded, over changes made since.
- `src/renderer/src/pages/CICDPage.tsx:132`, `:140`: timers of a trigger that fire
  for the repository selected then.
- `src/main/monitors/kubernetes-monitor.ts:140`: pods measured from two sources
  in one poll.

Known exceptions, stated with their properties (section 2), of which the project
shows only that nothing worse happens: the late success of a session whose page
has gone, the late answers of the pages' calls, of the drawer and of the server
page, the expired lock of a publication, packages replaced during a feed's upload,
lost answers of refreshes, rotations and additions, the write-back of a secret
over a changed one, double alerts in agent mode, the gap in `DELETE /account`, and
a notification answered before it is written.

Known details that no action has:

- A window of more rows than a page: `metrics.ts:263-271` then returns the oldest
  2000 minutes of the rollups.  The model does the same, and `HistoryIsComplete`
  is about windows that fit a page.
- `spool.go:138-150`: an `os.Remove` that fails in the middle of pruning returns
  with the index half rewritten in place; and `usedBytes`, which the code counts
  up and down, is the size of the files in the model.
- `spool.go:127-130`: a head file that cannot be decoded fails every `Read` and
  blocks the queue behind it.  `PendingIsResolved` is about files that can be read
  when they are tried again.
- `ssh-manager.ts:297`: the health probe runs its command without a channel of the
  budget, so `ChannelBudget` counts the callers' commands and not the probe's.
- No handler compares the times the store gives: a notification that is delivered
  late puts an older state back, and `EntitlementFollowsTransaction` is about the
  state committed last, not the newest of the store's.

Left out by subject: host sampling, parsing and formatting of command output,
cloud and CI request formats, the wire format (generated), eBPF programs,
packaging, the shared package's schemas, the website's static pages, deployment
and scripts: input and output without state that these properties could be
about.  The pairing limiter is sequential under one mutex.  IPC handlers that no
page calls are left out.  Cryptography is taken as ideal: a token, signature or
certificate is what it names.  Time is a counter where an order depends on it
and absent elsewhere, so rates and the lengths of delays are out of scope.  What
a remote command or a third-party service answers is a free choice of success or
failure.
