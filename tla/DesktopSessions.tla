---------------------------- MODULE DesktopSessions ----------------------------
(***************************************************************************)
(* Terminals and log streams of the desktop, with the pages that open them *)
(* (ssh-terminal-manager.ts, local-terminal-manager.ts, log-streamer.ts,   *)
(* their calls in ipc-handlers.ts, TerminalPage.tsx, Dashboard.tsx).       *)
(*                                                                         *)
(* A tab of the terminal page is known by the session it is opening or     *)
(* shows.  A page that is left forgets its tabs.  Log streams have a fixed *)
(* name, so starting the logs of a source again takes the old ones' place. *)
(***************************************************************************)
EXTENDS Integers, FiniteSets

CONSTANTS
    Server,       \* servers
    Logged,       \* the servers whose logs are followed, one source each
    Session,      \* terminal sessions ever opened
    Stream        \* log streams ever started

Local == "local"
ASSUME SessionAssumption ==
    /\ Server # {} /\ Logged \subseteq Server /\ Logged # {}
    /\ Local \notin Server /\ "none" \notin Stream

VARIABLES
    page,         \* the page that is shown, and the dashboard's server
    session,      \* session -> where it runs and how far it is
    owner,        \* session -> what shows it: a tab, the dashboard or nobody
    stream,       \* stream -> its source and how far it is
    streams,      \* the streamer's map: source -> its stream
    servers,      \* servers in appData
    forgotten,    \* history: sessions whose tab or page went first
    switched,     \* history: sessions opened before another server was selected
    late          \* history: sessions and streams told to end before they had begun

terminalPart == <<session, owner, forgotten, switched>>
streamPart == <<stream, streams>>
sessionVars == <<page, terminalPart, streamPart, servers, late>>

NoStream == "none"
Place == Server \cup {Local}
Sessions(step) == {s \in Session : session[s].step = step}
\* Identifiers are new every time: any unused one will do.
Unused(s, all) == s = CHOOSE t \in DOMAIN all : all[t].step = "none"
Owned(by) == {s \in Session : owner[s] = by}
Owners(S, by) == owner' = [s \in Session |-> IF s \in S THEN by ELSE owner[s]]
Steps(S, step) == session' = [s \in Session |-> IF s \in S THEN [session[s] EXCEPT !.step = step] ELSE session[s]]

-----------------------------------------------------------------------------
(* Terminals.                                                               *)

\* terminal:open, from a new tab, a tab that connects again or the dashboard.
Open(s, p, by) ==
    /\ session[s].step = "none" /\ Unused(s, session)
    /\ p \in servers \cup {Local}
    /\ session' = [session EXCEPT ![s] = [place |-> p, step |-> IF p = Local THEN "open" ELSE "connecting"]]
    /\ Owners({s}, by)

OpenTab(s, p) ==
    /\ page.name = "terminal"
    /\ Open(s, p, "tab")
    /\ UNCHANGED <<page, streamPart, servers, forgotten, switched, late>>

\* reconnectTab: the session that the tab shows is closed first.
ReconnectTab(s, t) ==
    /\ page.name = "terminal"
    /\ t \in Owned("tab") \ Sessions("connecting")
    /\ session[s].step = "none" /\ Unused(s, session)
    /\ session[t].place \in servers \cup {Local}
    /\ session' = [session EXCEPT
          ![t].step = "closed",
          ![s] = [place |-> session[t].place, step |-> IF session[t].place = Local THEN "open" ELSE "connecting"]]
    /\ owner' = [owner EXCEPT ![t] = "nobody", ![s] = "tab"]
    /\ UNCHANGED <<page, streamPart, servers, forgotten, switched, late>>

\* connectQuickTerminal: one at a time.
OpenQuick(s) ==
    /\ page.name = "dashboard" /\ Owned("quick") = {}
    /\ Open(s, page.server, "quick")
    /\ UNCHANGED <<page, streamPart, servers, forgotten, switched, late>>

\* The shell opens: the session enters the manager's map, whoever waits for it.
ShellReady(s) ==
    /\ session[s].step = "connecting"
    /\ Steps({s}, "open")
    /\ UNCHANGED <<page, owner, streamPart, servers, forgotten, switched, late>>

\* An error before the shell opens, or the end of the shell.  The dashboard
\* forgets the session; a tab keeps it until it is closed or connects again.
SessionEnds(s) ==
    /\ session[s].step \in {"connecting", "open"}
    /\ Steps({s}, "closed")
    /\ IF owner[s] = "quick" THEN Owners({s}, "nobody") ELSE UNCHANGED owner
    /\ UNCHANGED <<page, streamPart, servers, forgotten, switched, late>>

\* closeTab: terminal:close for a session that is known to the tab.
CloseTab(s) ==
    /\ page.name = "terminal" /\ s \in Owned("tab")
    /\ Owners({s}, "nobody")
    /\ IF session[s].step = "connecting"
       THEN forgotten' = forgotten \cup {s} /\ UNCHANGED session
       ELSE Steps({s}, "closed") /\ UNCHANGED forgotten
    /\ UNCHANGED <<page, streamPart, servers, switched, late>>

\* The quick session that selecting another server closes.
QuickSessions == Owned("quick") \cap Sessions("open")

\* closeQuickSession and the dashboard's effects: selecting another server closes
\* the session that is open, not the one that is being opened.
SelectServer(p) ==
    LET closing == QuickSessions
    IN /\ page.name = "dashboard" /\ p \in servers \ {page.server}
       /\ page' = [page EXCEPT !.server = p]
       /\ Steps(closing, "closed") /\ Owners(closing, "nobody")
       /\ switched' = switched \cup (Owned("quick") \cap Sessions("connecting"))
       /\ UNCHANGED <<streamPart, servers, forgotten, late>>

\* (The page forgets the sessions it had open.)
DashboardLeftOpen ==
    /\ Owners(Owned("quick"), "nobody")
    /\ forgotten' = forgotten \cup (Owned("quick") \cap Sessions("connecting"))
    /\ UNCHANGED session

\* The dashboard's unmount closes its session, if it is open.
LeaveDashboard ==
    /\ Owners(Owned("quick"), "nobody")
    /\ Steps(Owned("quick") \cap Sessions("open"), "closed")
    /\ forgotten' = forgotten \cup (Owned("quick") \cap Sessions("connecting"))

\* The terminal page's unmount closes nothing.
LeaveTerminals ==
    /\ Owners(Owned("tab"), "nobody")
    /\ forgotten' = forgotten \cup Owned("tab")
    /\ UNCHANGED session

GoTo(name) ==
    /\ page.name # name
    /\ page' = [page EXCEPT !.name = name]
    /\ CASE page.name = "dashboard" -> LeaveDashboard
         [] page.name = "terminal" -> LeaveTerminals
         [] OTHER -> UNCHANGED <<session, owner, forgotten>>
    /\ UNCHANGED <<streamPart, servers, switched, late>>

\* moveQuickTerminal hands the open session over to a tab.
MoveQuick(s) ==
    /\ page.name = "dashboard" /\ s \in Owned("quick") \cap Sessions("open")
    /\ page' = [page EXCEPT !.name = "terminal"]
    /\ Owners({s}, "tab")
    /\ UNCHANGED <<session, streamPart, servers, forgotten, switched, late>>

-----------------------------------------------------------------------------
(* Log streams.                                                             *)

\* streamCommand's close() does nothing until the channel is there.
Closing(S) == [i \in Stream |-> IF i \in S /\ stream[i].step = "running"
                                THEN [stream[i] EXCEPT !.step = "closed"] ELSE stream[i]]
TooEarly(S) == {i \in S : stream[i].step = "starting"}
Entry(p) == {streams[p]} \ {NoStream}

\* startDockerLog and startKubernetesLog stop the stream of that name first.
Stopped(p) == Closing(Entry(p))

StartLog(i, p) ==
    /\ stream[i].step = "none" /\ Unused(i, stream)
    /\ stream' = [Stopped(p) EXCEPT ![i] = [source |-> p, step |-> "starting"]]
    /\ late' = late \cup TooEarly(Entry(p))
    /\ streams' = [streams EXCEPT ![p] = i]
    /\ UNCHANGED <<page, terminalPart, servers>>

\* exec's callback, with a channel or an error.
StreamOpens(i) ==
    /\ stream[i].step = "starting"
    /\ stream' \in {[stream EXCEPT ![i].step = step] : step \in {"running", "closed"}}
    /\ UNCHANGED <<page, terminalPart, streams, servers, late>>

\* The command or the connection ends; the map keeps the entry.
StreamEnds(i) ==
    /\ stream[i].step = "running"
    /\ stream' = [stream EXCEPT ![i].step = "closed"]
    /\ UNCHANGED <<page, terminalPart, streams, servers, late>>

StopLog(p) ==
    /\ Entry(p) # {}
    /\ stream' = Closing(Entry(p))
    /\ late' = late \cup TooEarly(Entry(p))
    /\ streams' = [streams EXCEPT ![p] = NoStream]
    /\ UNCHANGED <<page, terminalPart, servers>>

-----------------------------------------------------------------------------
\* servers:remove, from the servers page: stopAllForServer and
\* closeAllForServer end what has begun.  (Bound: one server stays.)
RemoveServerSessions(p) ==
    LET here == {s \in Session : session[s].place = p}
        log == IF p \in Logged THEN Entry(p) ELSE {}
    IN /\ page.name = "other" /\ p \in servers /\ Cardinality(servers) > 1
       /\ servers' = servers \ {p}
       /\ page' \in [name : {"other"}, server : IF page.server = p THEN servers' ELSE {page.server}]
       /\ stream' = Closing(log)
       /\ streams' = [q \in Logged |-> IF q = p THEN NoStream ELSE streams[q]]
       /\ Steps(here \cap Sessions("open"), "closed")
       /\ late' = late \cup TooEarly(log) \cup (here \cap Sessions("connecting"))
       /\ UNCHANGED <<owner, forgotten, switched>>

SessionsInit ==
    /\ page = [name |-> "dashboard", server |-> CHOOSE p \in Server : TRUE]
    /\ session \in [Session -> [place : {Local}, step : {"none"}]]
    /\ owner = [s \in Session |-> "nobody"]
    /\ stream \in [Stream -> [source : {CHOOSE p \in Logged : TRUE}, step : {"none"}]]
    /\ streams = [p \in Logged |-> NoStream]
    /\ servers = Server
    /\ forgotten = {} /\ switched = {} /\ late = {}

SessionsNext ==
    \/ \E s \in Session : \/ \E p \in Place : OpenTab(s, p)
                          \/ \E t \in Session : ReconnectTab(s, t)
                          \/ OpenQuick(s) \/ ShellReady(s) \/ SessionEnds(s)
                          \/ CloseTab(s) \/ MoveQuick(s)
    \/ \E name \in {"dashboard", "terminal", "other"} : GoTo(name)
    \/ \E i \in Stream : StreamOpens(i) \/ StreamEnds(i) \/ \E p \in Logged \cap servers : StartLog(i, p)
    \/ \E p \in Server : SelectServer(p) \/ RemoveServerSessions(p)
    \/ \E p \in Logged : StopLog(p)

SessionsSpec == SessionsInit /\ [][SessionsNext]_sessionVars

-----------------------------------------------------------------------------
\* Pages, sessions and streams stay within their types.
SessionsTypeOK ==
    /\ page \in [name : {"dashboard", "terminal", "other"}, server : Server]
    /\ session \in [Session -> [place : Place, step : {"none", "connecting", "open", "closed"}]]
    /\ owner \in [Session -> {"tab", "quick", "nobody"}]
    /\ stream \in [Stream -> [source : Logged, step : {"none", "starting", "running", "closed"}]]
    /\ streams \in [Logged -> Stream \cup {NoStream}]
    /\ servers \subseteq Server
    /\ forgotten \subseteq Session /\ switched \subseteq Session /\ late \subseteq Session \cup Stream

\* What runs can be ended by somebody.  An open terminal is shown, unless its
\* tab or page went before it was open, or with the whole terminal page; a
\* running log stream is the one its name stands for, and on a removed server
\* nothing runs, unless it was told to end before it had begun.
NothingRunsUnheld ==
    /\ \A s \in Sessions("open") :
          /\ owner[s] # "nobody" \/ s \in forgotten
          /\ session[s].place \in servers \cup {Local} \/ s \in late
    /\ \A i \in Stream : stream[i].step = "running" =>
          streams[stream[i].source] = i \/ i \in late

\* The dashboard's terminal runs on the server the dashboard shows, unless
\* another server was selected while it was being opened.
QuickTerminalIsHere ==
    \A s \in Owned("quick") : session[s].place = page.server \/ s \in switched
=============================================================================
