-------------------------- MODULE DesktopMonitors --------------------------
(***************************************************************************)
(* What the desktop hangs on the status events of the SSH manager, for one *)
(* server: the three monitors and their delayed starts (ipc-handlers.ts,   *)
(* system-, docker- and kubernetes-monitor.ts), and the rules that raise   *)
(* an alert when the connection stays down (alert-engine.ts).              *)
(*                                                                         *)
(* The module composes with SshConnection: emit() calls its listeners      *)
(* before it returns, so an event of a client and what the listeners do    *)
(* with it are one step.                                                   *)
(***************************************************************************)
EXTENDS SshConnection

CONSTANTS
  Rule,               \* rules with metric connection_lost for the server
  MaxStarts           \* bound: times the monitors are started

ASSUME MonitorAssumption ==
  IsFiniteSet(Rule) /\ MaxStarts \in Nat

VARIABLES
  known,              \* the server is in appData.servers
  shownStatus,        \* status the window shows, and whether a torn-down client reported it
  interval,           \* intervals that poll, of each monitor
  held,               \* monitors whose timers map has an entry for the server
  delayed,            \* delayed starts that are still to come
  hasty,              \* history: starts made while the kubernetes monitor's was delayed
  outrun,             \* history: the last stop came while a start was delayed
  armed,              \* connectionTimers: rules with a timer set
  enabled,            \* rules that are enabled
  cooling,            \* rules whose cooldown since lastTriggeredAt runs
  watching,           \* history: rules enabled ever since the last 'connected'
  checked,            \* history: those of them that have reported the server down since
  silenced,           \* history: those that have not, kept from it by their cooldown
  starts              \* bound used up

monitorVars == <<interval, held, delayed, starts, hasty, outrun>>
alertVars == <<armed, enabled, cooling, watching, checked, silenced>>
desktopVars == <<sshVars, known, shownStatus, monitorVars, alertVars>>

Monitor == {"system", "docker", "kubernetes"}

MonitorsTypeOK ==
  /\ TypeOK
  /\ known \in BOOLEAN
  /\ shownStatus \in [status : Status \cup {"disconnected"}, late : BOOLEAN]
  /\ interval \in [Monitor -> 0..MaxStarts] /\ held \subseteq Monitor
  /\ delayed \in [{"docker", "kubernetes"} -> 0..MaxStarts]
  /\ armed \subseteq Rule /\ enabled \subseteq Rule /\ cooling \subseteq Rule
  /\ watching \subseteq Rule /\ checked \subseteq Rule /\ silenced \subseteq Rule
  /\ starts \in 0..MaxStarts /\ hasty \in 0..MaxStarts /\ outrun \in BOOLEAN

StatusNow(s) == [status |-> s, late |-> FALSE]

(* A rule is loaded with the lastTriggeredAt that an earlier run saved.    *)
MonitorsInit ==
  /\ Init
  /\ known = TRUE /\ shownStatus = StatusNow("disconnected")
  /\ interval = [m \in Monitor |-> 0] /\ held = {}
  /\ delayed = [m \in {"docker", "kubernetes"} |-> 0]
  /\ armed = {} /\ enabled = Rule /\ cooling \in SUBSET Rule
  /\ watching = {} /\ checked = {} /\ silenced = {}
  /\ starts = 0 /\ hasty = 0 /\ outrun = FALSE

-----------------------------------------------------------------------------
(* Monitors.                                                               *)

Count(b) == IF b THEN 1 ELSE 0

(* Mutant: stop() trusts that its timers map has an entry.                 *)
AfterBlindStop(ms) == [m \in Monitor |-> interval[m] - Count(m \in ms)]

(* stop() clears the interval its timers map holds, if any; it knows       *)
(* nothing of a start that is delayed.                                     *)
AfterStop(ms) == [m \in Monitor |-> interval[m] - Count(m \in ms \cap held)]

(* startMonitors starts the system monitor, and sets timers for the other  *)
(* two.  The kubernetes monitor is stopped at once, the docker monitor     *)
(* when its start comes.                                                   *)
StartMonitors ==
  /\ starts < MaxStarts /\ starts' = starts + 1
  /\ interval' = [AfterStop({"system", "kubernetes"}) EXCEPT !["system"] = @ + 1]
  /\ held' = (held \ {"kubernetes"}) \cup {"system"}
  /\ delayed' = [m \in DOMAIN delayed |-> delayed[m] + 1]
  /\ hasty' = hasty + Count(delayed["kubernetes"] > 0)
  /\ UNCHANGED outrun

(* The delayed starts are not called off.                                  *)
LeavesDelayed ==
  /\ outrun' = (delayed["docker"] > 0 \/ delayed["kubernetes"] > 0)
  /\ UNCHANGED <<delayed, starts, hasty>>

(* Mutant: monitor:stop leaves the system monitor running.                 *)
StopOthers ==
  /\ interval' = AfterStop(Monitor \ {"system"}) /\ held' = held \cap {"system"}
  /\ LeavesDelayed

StopMonitors ==
  /\ interval' = AfterStop(Monitor) /\ held' = {}
  /\ LeavesDelayed

(* The delayed start of the docker monitor is a whole start(): it stops    *)
(* what runs.                                                              *)
DockerStarts ==
  /\ delayed["docker"] > 0
  /\ delayed' = [delayed EXCEPT !["docker"] = @ - 1]
  /\ interval' = [AfterStop({"docker"}) EXCEPT !["docker"] = @ + 1]
  /\ held' = held \cup {"docker"}
  /\ UNCHANGED <<sshVars, known, shownStatus, starts, hasty, outrun, alertVars>>

(* Of the kubernetes monitor only startPolling is delayed: an interval     *)
(* that a later start has set meanwhile is overwritten and runs for ever.  *)
KubernetesStarts ==
  /\ delayed["kubernetes"] > 0
  /\ delayed' = [delayed EXCEPT !["kubernetes"] = @ - 1]
  /\ interval' = [interval EXCEPT !["kubernetes"] = @ + 1]
  /\ held' = held \cup {"kubernetes"}
  /\ UNCHANGED <<sshVars, known, shownStatus, starts, hasty, outrun, alertVars>>

-----------------------------------------------------------------------------
(* Alerts.                                                                 *)

(* Mutant: only a disconnect arms the rules.                               *)
ArmOnDisconnectOnly(s) ==
  /\ armed' = IF s = "disconnected" THEN armed \cup enabled ELSE armed
  /\ UNCHANGED <<enabled, cooling, watching, checked, silenced>>

(* evaluateConnectionStatus for 'disconnected' and 'error': a timer for    *)
(* each enabled rule that has none.                                        *)
ArmRules(s) ==
  /\ armed' = armed \cup enabled
  /\ UNCHANGED <<enabled, cooling, watching, checked, silenced>>

(* resetConnectionRules, on 'connected'.                                   *)
ResetRules ==
  /\ armed' = {} /\ watching' = enabled /\ checked' = {} /\ silenced' = {}
  /\ UNCHANGED <<enabled, cooling>>

(* fireConnectionAlertIfStillDown gives up when the server is connected or *)
(* about to be.                                                            *)
StillDown(s) == s \notin {"connected", "connecting"}

(* The timer of a rule fires.  The rule is looked up again, for it may     *)
(* have been disabled; within its cooldown it says nothing, and it is not  *)
(* asked again before another event arms it.                               *)
AlertTimerFires(r) ==
  /\ r \in armed /\ armed' = armed \ {r}
  /\ LET down == StillDown(CurrentStatus) /\ r \in enabled
         cold == r \notin cooling
     IN  /\ checked' = IF down /\ cold THEN checked \cup ({r} \cap watching) ELSE checked
         /\ cooling' = IF down /\ cold THEN cooling \cup {r} ELSE cooling
         /\ silenced' = IF down /\ ~cold THEN silenced \cup (({r} \cap watching) \ checked)
                        ELSE silenced \ checked'
  /\ UNCHANGED <<sshVars, known, shownStatus, monitorVars, enabled, watching>>

RuleCoolsDown(r) ==
  /\ r \in cooling /\ cooling' = cooling \ {r}
  /\ UNCHANGED <<sshVars, known, shownStatus, monitorVars, armed, enabled, watching, checked, silenced>>

(* alerts:update and alerts:remove leave timers alone.  The rule saved has *)
(* the lastTriggeredAt that the page loaded, perhaps before the last alert.*)
EditRule(r) ==
  /\ \/ r \in enabled /\ enabled' = enabled \ {r} /\ watching' = watching \ {r}
     \/ /\ r \notin enabled /\ enabled' = enabled \cup {r}
        /\ watching' = IF CurrentStatus = "connected" THEN watching \cup {r} ELSE watching
  /\ cooling' \in {cooling, cooling \ {r}}
  /\ checked' = checked \ {r} /\ silenced' = silenced \ {r}
  /\ UNCHANGED <<sshVars, known, shownStatus, monitorVars, armed>>

-----------------------------------------------------------------------------
(* The status listener of setupIpcHandlers, composed with the events.      *)

(* connection:status, and SET_CONNECTION in the window.  What a client     *)
(* reports after it was torn down or replaced is shown like the rest.      *)
ShowStatus(e, event) == shownStatus' = [status |-> event, late |-> e # current]

Connected(e) ==
  /\ Ready(e) /\ ResetRules /\ ShowStatus(e, "connected")
  /\ IF known THEN StartMonitors ELSE UNCHANGED monitorVars
  /\ UNCHANGED known

Failed(e) ==
  /\ HandshakeFails(e) \/ AbortedHandshakeFails(e) \/ ConnectionFails(e)
  /\ ArmRules("error") /\ ShowStatus(e, "error")
  /\ UNCHANGED <<known, monitorVars>>

(* A client that was connected is lost.                                    *)
Drops(e) ==
  /\ ConnectionEnds(e) \/ SocketCloses(e) \/ ProbeFails(e)
  /\ IF status[e] = "connected" /\ status'[e] = "reconnecting"
     THEN ShowStatus(e, "reconnecting") ELSE UNCHANGED shownStatus
  /\ UNCHANGED <<known, monitorVars, alertVars>>

(* 'connecting' and 'reconnecting' start and stop nothing.                 *)
OtherEvent(e) ==
  /\ \/ Drops(e)
     \/ RetryFires(e) /\ shownStatus' = StatusNow("connecting")
     \/ (ProbeStarts(e) \/ ProbeAnswers(e)) /\ UNCHANGED shownStatus
  /\ UNCHANGED <<known, monitorVars, alertVars>>

-----------------------------------------------------------------------------
(* IPC calls.                                                              *)

(* monitor:start connects, and restarts the monitors of a server that was  *)
(* connected already.  ensureSftpConnection connects just the same.        *)
MonitorStart ==
  /\ known
  /\ IF CurrentStatus = "connected"
     THEN StartMonitors /\ UNCHANGED <<sshVars, shownStatus>>
     ELSE Connect /\ shownStatus' = StatusNow("connecting") /\ UNCHANGED monitorVars
  /\ UNCHANGED <<known, alertVars>>

MonitorStop ==
  /\ StopMonitors
  /\ IF current = 0 THEN UNCHANGED <<sshVars, shownStatus, alertVars>>
     ELSE Disconnect /\ ArmRules("disconnected") /\ shownStatus' = StatusNow("disconnected")
  /\ UNCHANGED known

(* servers:remove clears the timers of the rules and then disconnects,     *)
(* which arms them again.                                                  *)
RemoveServer ==
  /\ known /\ known' = FALSE
  /\ StopMonitors
  /\ IF current = 0
     THEN armed' = {} /\ UNCHANGED <<sshVars, shownStatus, enabled, cooling, watching, checked, silenced>>
     ELSE Disconnect /\ ArmRules("disconnected") /\ shownStatus' = StatusNow("disconnected")

(* app:reset forgets servers and rules; connections, monitors and timers   *)
(* stay as they are.                                                       *)
ResetServers ==
  /\ known /\ known' = FALSE
  /\ enabled' = {} /\ watching' = {} /\ checked' = {} /\ silenced' = {}
  /\ UNCHANGED <<sshVars, shownStatus, monitorVars, armed, cooling>>

MonitorsNext ==
  \/ ResetServers
  \/ MonitorStart \/ MonitorStop \/ RemoveServer
  \/ DockerStarts \/ KubernetesStarts
  \/ \E e \in Client : Connected(e) \/ Failed(e) \/ OtherEvent(e)
  \/ \E r \in Rule : AlertTimerFires(r) \/ RuleCoolsDown(r) \/ EditRule(r)

(* Timers fire, and the SSH manager is as fair as it is alone.             *)
MonitorsFairness ==
  /\ \A e \in Client :
       /\ WF_desktopVars(Connected(e) \/ (HandshakeFails(e) /\ Failed(e)))
       /\ WF_desktopVars((AbortedHandshakeFails(e) /\ Failed(e)) \/ (SocketCloses(e) /\ OtherEvent(e)))
       /\ WF_desktopVars(RetryFires(e) /\ OtherEvent(e))
       /\ WF_desktopVars((ProbeAnswers(e) \/ ProbeFails(e)) /\ OtherEvent(e))
  /\ WF_desktopVars(DockerStarts) /\ WF_desktopVars(KubernetesStarts)
  /\ \A r \in Rule : WF_desktopVars(AlertTimerFires(r))

MonitorsSpec == MonitorsInit /\ [][MonitorsNext]_desktopVars /\ MonitorsFairness

-----------------------------------------------------------------------------
(* Properties.                                                             *)

(* The system monitor polls a server from the moment it is connected until *)
(* the user stops it, through drops and retries and never after a stop or  *)
(* a removal.  The docker monitor has one interval at most.  Delayed       *)
(* starts cannot be called off, and this is all the harm they do: each     *)
(* start made while another's is delayed may leave the kubernetes monitor  *)
(* one interval that polls for ever, and a stop or removal that comes      *)
(* while a start is delayed may be followed by polls of the docker and     *)
(* kubernetes monitors, until the next stop (ipc-handlers.ts:32-54,        *)
(* 135-146, 227-246, docker-monitor.ts:27-37, kubernetes-monitor.ts:88-    *)
(* 108).                                                                   *)
MonitorsFollowTheUser ==
  /\ CurrentStatus = "connected" /\ known => interval["system"] = 1
  /\ ~wanted => interval["system"] = 0
  /\ interval["docker"] <= 1
  /\ interval["kubernetes"] <= 1 + hasty
  /\ ~wanted /\ ~outrun => interval["docker"] = 0 /\ interval["kubernetes"] <= hasty

(* The window calls a server connected only while it is, whatever torn-    *)
(* down clients report; and it calls a connected server so, unless such a  *)
(* client has reported last: its 'error' or 'reconnecting' is shown like   *)
(* any other, and stays (ssh-manager.ts:238-258, 300-309).                 *)
StatusShownIsReal ==
  /\ shownStatus.status = "connected" => CurrentStatus = "connected"
  /\ CurrentStatus = "connected" => shownStatus.status = "connected" \/ shownStatus.late

(* A server whose retries are used up is reported by every rule that was   *)
(* enabled all the while: the timer that finds it down is set by the last  *)
(* failure at the latest.  A rule whose cooldown has not run out by then   *)
(* says nothing, and says nothing of this outage later either              *)
(* (alert-engine.ts:94-133).                                               *)
OutageIsReported ==
  \A r \in Rule :
    GaveUp /\ r \in watching ~> r \in checked \cup silenced \/ ~GaveUp \/ r \notin watching
=============================================================================
