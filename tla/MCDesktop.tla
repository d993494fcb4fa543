------------------------------- MODULE MCDesktop -------------------------------
(***************************************************************************)
(* The modules of the desktop application for model checking.  They share  *)
(* no state, so a behaviour is one of one module: `part` says of which,    *)
(* and the others stay where they start.                                   *)
(***************************************************************************)
EXTENDS DesktopMonitors, DesktopSessions, AlertRules, AppUpdater, SettingsFile,
        ClusterPage, DeployPage, CicdPage, MonitorReadings

VARIABLE part

DesktopInit ==
    /\ part \in {"monitors", "sessions", "rules", "updater", "settings", "cluster", "deploy", "cicd", "readings"}
    /\ MonitorsInit /\ SessionsInit /\ AlertRulesInit /\ UpdaterInit /\ SettingsInit
    /\ ClusterInit /\ DeployInit /\ CicdInit /\ ReadingsInit
    /\ part = "monitors" \/ cooling = {}
    /\ part = "cluster" \/ clusterPage.cluster = "c1"
    /\ part = "deploy" \/ projects = {}
    /\ part = "readings" \/ meter = "pod"

DesktopNext ==
    /\ UNCHANGED part
    /\ IF part = "monitors" THEN TRUE ELSE UNCHANGED desktopVars
    /\ IF part = "sessions" THEN TRUE ELSE UNCHANGED sessionVars
    /\ IF part = "rules" THEN TRUE ELSE UNCHANGED alertRuleVars
    /\ IF part = "updater" THEN TRUE ELSE UNCHANGED updaterVars
    /\ IF part = "settings" THEN TRUE ELSE UNCHANGED settingsVars
    /\ IF part = "cluster" THEN TRUE ELSE UNCHANGED clusterVars
    /\ IF part = "deploy" THEN TRUE ELSE UNCHANGED deployVars
    /\ IF part = "cicd" THEN TRUE ELSE UNCHANGED cicdVars
    /\ IF part = "readings" THEN TRUE ELSE UNCHANGED readingVars
    /\ \/ part = "monitors" /\ MonitorsNext
       \/ part = "sessions" /\ SessionsNext
       \/ part = "rules" /\ AlertRulesNext
       \/ part = "updater" /\ UpdaterNext
       \/ part = "settings" /\ SettingsNext
       \/ part = "cluster" /\ ClusterNext
       \/ part = "deploy" /\ DeployNext
       \/ part = "cicd" /\ CicdNext
       \/ part = "readings" /\ ReadingsNext

\* The fair actions of the monitors are disabled where another module runs: in
\* their initial state no connection has been asked for and no timer set.
DesktopSpec ==
    /\ DesktopInit
    /\ [][DesktopNext]_<<part, desktopVars, sessionVars, alertRuleVars, updaterVars, settingsVars,
                         clusterVars, deployVars, cicdVars, readingVars>>
    /\ MonitorsFairness

-----------------------------------------------------------------------------
\* The state of the module that takes the steps stays within its types.
DesktopTypeOK ==
    /\ part = "monitors" => MonitorsTypeOK
    /\ part = "sessions" => SessionsTypeOK
    /\ part = "rules" => AlertRulesTypeOK
    /\ part = "updater" => UpdaterTypeOK
    /\ part = "settings" => SettingsTypeOK
    /\ part = "cluster" => ClusterTypeOK
    /\ part = "deploy" => DeployTypeOK
    /\ part = "cicd" => CicdTypeOK
    /\ part = "readings" => ReadingsTypeOK

\* Monitors start and stop with the user, but for delayed starts
\* (MonitorsFollowTheUser); what is reported of a counter adds up, unless polls
\* overtook each other or a pod came without counters (ReadingsAddUp); and the window
\* calls connected what is, and calls what is so unless a torn-down client spoke last
\* (StatusShownIsReal).
MonitoringIsSound == MonitorsFollowTheUser /\ ReadingsAddUp /\ StatusShownIsReal

\* A session or stream of the main process is one the renderer still shows or is
\* still starting (NothingRunsUnheld), and the dashboard's quick terminal is one of
\* the server it shows (QuickTerminalIsHere), within the limits these two state.
SessionsAreHeld == NothingRunsUnheld /\ QuickTerminalIsHere

\* What says that something is under way says so only while it is: the updater's
\* status (BusyStatusIsReal) and the flags of the pages (LoadingIsReal,
\* ButtonsComeBack and TriggersComeBack).
BusyIsReal == BusyStatusIsReal /\ LoadingIsReal /\ ButtonsComeBack /\ TriggersComeBack

\* A page shows, and acts on, what was read from what is chosen on it
\* (ListIsOfItsCluster, ShownIsOfTheSelected and RunsAreOfTheRepo), within the
\* limits these three state.
PagesShowTheChosen == ListIsOfItsCluster /\ ShownIsOfTheSelected /\ RunsAreOfTheRepo
===============================================================================
