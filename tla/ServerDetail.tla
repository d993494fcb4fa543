------------------------------ MODULE ServerDetail ------------------------------
(***************************************************************************)
(* The page of one server in the web console (pages/ServerDetailPage.tsx)  *)
(* and the dialog on it that stores an SSH credential for terminal and     *)
(* files (components/SshFallbackModal.tsx).                                *)
(*                                                                         *)
(* The page reads the server, its workloads, its history and its latest    *)
(* sample, each again some time after the last answer.  A request keeps    *)
(* the server it was made for, and `active` of the effect that made it:    *)
(* an effect that is cleaned up clears its timers and tells its requests   *)
(* under way to set none.  The browser's history may lead from one         *)
(* server's page to another's without the page being left.  What answers   *)
(* to a page that was left sets nothing and is dropped.                    *)
(***************************************************************************)
EXTENDS Integers, FiniteSets

CONSTANTS
    Node,        \* the servers of the workspace
    AgentNode,   \* those that are connected by an agent
    MaxJumps,    \* bound: jumps while the page is not left
    MaxAsks      \* bound: requests under way at once

ASSUME DetailAssumption ==
    AgentNode \subseteq Node /\ "none" \notin Node /\ MaxJumps \in Nat /\ MaxAsks \in Nat

VARIABLES
    stored,      \* the platform: the servers that have an SSH credential
    detail,      \* what the page keeps
    asks,        \* its requests under way
    submit,      \* the dialog's submission under way
    jumps,       \* history: jumps since the page was entered
    lagging      \* history: it jumped while something was under way

visitVars == <<jumps, lagging>>
detailVars == <<stored, detail, asks, submit, visitVars>>

\* (The history of the last hours is read as the inventory is, in a loop of its
\* own: one stands for both.)
ReadKind == {"inventory", "latest"}
\* (Of the tabs the terminal stands for the files, too, and the overview for the
\* workloads.)
PageTab == {"overview", "terminal"}
Nobody == [of |-> "none", access |-> FALSE]
NoSubmit == [step |-> "none", of |-> "none", mounted |-> FALSE, here |-> FALSE]

NoPage == [at |-> "none", tab |-> "overview", loading |-> FALSE, refreshing |-> FALSE,
           server |-> Nobody, live |-> "none", timers |-> {},
           open |-> FALSE, busy |-> FALSE]

\* (Only what the inventory says of a server changes with time.)
Ask(s, k, by) ==
    [of |-> s, kind |-> k, by |-> by, active |-> TRUE,
     was |-> k = "inventory" /\ s \in stored]

-----------------------------------------------------------------------------
(* The effects that follow a change of what the page keeps.                 *)

Ticks(d) == d.server.of \in AgentNode

\* The effect on connectionMode and loadLatest: a loop of its own for agents.
\* Cleaned up, it clears its timer; started, it sets one.
Ticked(old, d) ==
    IF Ticks(old) = Ticks(d) THEN d
    ELSE [d EXCEPT !.timers = IF Ticks(d) THEN @ \cup {"tick"} ELSE @ \ {"tick"}]

Told(old, d, requests) ==
    IF Ticks(old) /\ ~Ticks(d)
    THEN {[a EXCEPT !.active = @ /\ a.by # "tick"] : a \in requests} ELSE requests

\* The effect on server and tab: terminal and files need a credential.
Guarded(d) ==
    IF d.server # Nobody /\ ~d.server.access /\ d.tab = "terminal"
    THEN [d EXCEPT !.tab = "overview"] ELSE d

WithServer(d, s) ==
    Ticked(d, Guarded([d EXCEPT !.server = s]))

-----------------------------------------------------------------------------
(* Entering and leaving.                                                    *)

Entered(d, s, t) ==
    [d EXCEPT !.at = s, !.tab = t, !.loading = TRUE, !.server = Nobody, !.live = "none",
              !.timers = {}, !.busy = FALSE]

RoomFor(kinds) == Cardinality(asks) + Cardinality(kinds) <= MaxAsks

FirstAsks(s) == {Ask(s, k, "open") : k \in ReadKind}

EnterPage(s, t) ==
    /\ detail.at = "none"
    /\ detail' = Entered(NoPage, s, t)
    /\ asks' = FirstAsks(s)
    /\ jumps' = 0 /\ lagging' = FALSE
    /\ UNCHANGED <<stored, submit>>

\* The address names another server: both effects clean up, and the first starts
\* again.  The dialog goes with what the page showed.
JumpTo(s, t) ==
    /\ detail.at \notin {"none", s} /\ jumps < MaxJumps /\ RoomFor(ReadKind)
    /\ detail' = Entered(detail, s, t)
    /\ asks' = {[a EXCEPT !.active = FALSE] : a \in asks} \cup FirstAsks(s)
    /\ submit' = [submit EXCEPT !.here = FALSE]
    /\ jumps' = jumps + 1
    /\ lagging' = (lagging \/ asks # {} \/ submit.mounted)
    /\ UNCHANGED stored

LeavePage ==
    /\ detail.at # "none"
    /\ detail' = NoPage /\ asks' = {}
    /\ submit' = [submit EXCEPT !.mounted = FALSE, !.here = FALSE]
    /\ UNCHANGED <<stored, visitVars>>

\* A tab is chosen: terminal and files can be only with a credential.
ShowTab(t) ==
    /\ detail.at # "none" /\ ~detail.loading /\ detail.server # Nobody
    /\ t # detail.tab /\ (t = "terminal" => detail.server.access)
    /\ detail' = [detail EXCEPT !.tab = t]
    /\ UNCHANGED <<stored, asks, submit, visitVars>>

-----------------------------------------------------------------------------
(* Requests.  The server answers with what it holds at some time between    *)
(* the request and the answer.                                              *)

TimerFires(k) ==
    /\ k \in detail.timers /\ RoomFor({k})
    /\ detail' = [detail EXCEPT !.timers = @ \ {k}]
    /\ asks' = asks \cup {IF k = "tick" THEN Ask(detail.at, "latest", "tick") ELSE Ask(detail.at, k, "loop")}
    /\ UNCHANGED <<stored, submit, visitVars>>

\* refresh(): a server connected by SSH is collected from first.  (Bound: one
\* refresh at a time, though the button stays enabled.)
Refresh ==
    /\ detail.at # "none" /\ ~detail.loading /\ detail.server # Nobody
    /\ (\A a \in asks : a.by # "refresh") /\ RoomFor(ReadKind)
    /\ detail' = [detail EXCEPT !.refreshing = TRUE]
    /\ asks' = asks \cup (IF detail.server.of \in AgentNode THEN {Ask(detail.at, k, "refresh") : k \in ReadKind}
                          ELSE {Ask(detail.at, "collect", "refresh")})
    /\ UNCHANGED <<stored, submit, visitVars>>

Others(a) == {b \in asks \ {a} : b.by = a.by /\ b.of = a.of /\ b.active = a.active}

\* What follows when a request has settled: the next turn of its loop, the end of
\* the first loads (at once when the server could not be read), of a refresh.
Settled(a, failed, d) ==
    CASE a.by \in {"loop", "tick"} /\ a.active ->
             [d EXCEPT !.timers = @ \cup {IF a.by = "tick" THEN "tick" ELSE a.kind}]
      [] a.by = "open" /\ a.active /\ d.loading
            /\ (Others(a) = {} \/ (failed /\ a.kind = "inventory")) ->
             [d EXCEPT !.loading = FALSE, !.timers = @ \cup {"inventory"}]
      [] a.by = "refresh" /\ a.kind # "collect" /\ Others(a) = {} -> [d EXCEPT !.refreshing = FALSE]
      [] OTHER -> d

\* loadInventory: the server of the request.
Found(a, access) == [of |-> a.of, access |-> access]

\* After the collection the page is read again, with the closure's server.
Reread(a) ==
    IF a.kind # "collect" THEN {}
    ELSE {[Ask(a.of, k, "refresh") EXCEPT !.active = a.active] : k \in ReadKind}

AskAnswered(a) ==
    /\ a \in asks
    /\ \E access \in {a.was, a.of \in stored} :
          LET d == CASE a.kind = "inventory" -> WithServer(detail, Found(a, access))
                     [] a.kind = "latest" -> [detail EXCEPT !.live = a.of]
                     [] OTHER -> detail
          IN /\ detail' = Settled(a, FALSE, d)
             /\ asks' = Told(detail, d, (asks \ {a}) \cup Reread(a))
    /\ UNCHANGED <<stored, submit, visitVars>>

\* A listing without the server: the page shows none, and the dialog goes with what it
\* showed.  (The server was removed; any listing may be one from after that.)
ServerGone(a) ==
    /\ a \in asks /\ a.kind = "inventory"
    /\ LET d == [WithServer(detail, Nobody) EXCEPT !.busy = FALSE]
       IN /\ detail' = Settled(a, FALSE, d)
          /\ asks' = Told(detail, d, asks \ {a})
    /\ submit' = [submit EXCEPT !.here = FALSE]
    /\ UNCHANGED <<stored, visitVars>>

AskFails(a) ==
    /\ a \in asks
    /\ detail' = Settled(a, TRUE, detail)
    /\ asks' = (asks \ {a}) \cup Reread(a)
    /\ UNCHANGED <<stored, submit, visitVars>>

-----------------------------------------------------------------------------
(* The dialog (SshFallbackModal), which an agent's server has.              *)

DialogShown == detail.open /\ ~detail.loading /\ detail.server # Nobody

OpenDialog ==
    /\ ~detail.open /\ ~detail.loading /\ detail.server # Nobody /\ Ticks(detail)
    /\ detail' = [detail EXCEPT !.open = TRUE]
    /\ UNCHANGED <<stored, asks, submit, visitVars>>

CloseDialog ==
    /\ DialogShown /\ ~detail.busy
    /\ detail' = [detail EXCEPT !.open = FALSE]
    /\ UNCHANGED <<stored, asks, submit, visitVars>>

\* (Bound: one submission at a time, though a second can follow a jump.)
SubmitCredential ==
    /\ DialogShown /\ ~detail.busy /\ submit.step = "none"
    /\ detail' = [detail EXCEPT !.busy = TRUE]
    /\ submit' = [step |-> "saving", of |-> detail.server.of, mounted |-> TRUE, here |-> TRUE]
    /\ UNCHANGED <<stored, asks, visitVars>>

\* PATCH /servers/:id stores the credential.
CredentialStored ==
    /\ submit.step = "saving"
    /\ stored' = stored \cup {submit.of}
    /\ submit' = [submit EXCEPT !.step = "saved"]
    /\ UNCHANGED <<detail, asks, visitVars>>

\* onUpdated: what the page shows takes the fields of the answer.
Updated(d) == IF submit.mounted THEN WithServer(d, [of |-> submit.of, access |-> TRUE]) ELSE d

\* The finally block, on the dialog that made the submission.
Freed(d) == IF submit.here THEN [d EXCEPT !.busy = FALSE] ELSE d

CredentialSaved ==
    /\ submit.step = "saved"
    /\ detail' = Updated(detail)
    /\ asks' = Told(detail, Updated(detail), asks)
    /\ submit' = [submit EXCEPT !.step = "testing"]
    /\ UNCHANGED <<stored, visitVars>>

\* The SSH test passes: onUpdated again, and the page closes the dialog.
TestPassed ==
    /\ submit.step = "testing"
    /\ detail' = LET d == Freed(Updated(detail))
                 IN IF submit.mounted THEN [d EXCEPT !.open = FALSE] ELSE d
    /\ asks' = Told(detail, Updated(detail), asks)
    /\ submit' = NoSubmit
    /\ UNCHANGED <<stored, visitVars>>

\* A request fails, or its answer is lost: the error line, and the dialog stays.
SubmitFails ==
    /\ submit.step # "none"
    /\ detail' = Freed(detail)
    /\ submit' = NoSubmit
    /\ UNCHANGED <<stored, asks, visitVars>>

-----------------------------------------------------------------------------
DetailInit ==
    /\ stored = Node \ AgentNode
    /\ detail = NoPage /\ asks = {} /\ submit = NoSubmit /\ jumps = 0 /\ lagging = FALSE

DetailNext ==
    \/ \E s \in Node, t \in PageTab : EnterPage(s, t) \/ JumpTo(s, t)
    \/ LeavePage \/ Refresh
    \/ \E t \in PageTab : ShowTab(t)
    \/ \E k \in {"inventory", "tick"} : TimerFires(k)
    \/ \E a \in asks : AskAnswered(a) \/ ServerGone(a) \/ AskFails(a)
    \/ OpenDialog \/ CloseDialog \/ SubmitCredential
    \/ CredentialStored \/ CredentialSaved \/ TestPassed \/ SubmitFails

DetailSpec == DetailInit /\ [][DetailNext]_detailVars

-----------------------------------------------------------------------------
\* What the page keeps and has under way stays within its types.
DetailTypeOK ==
    /\ stored \subseteq Node
    /\ detail.at \in Node \cup {"none"} /\ jumps \in 0..MaxJumps
    /\ detail.tab \in PageTab /\ detail.server.of \in Node \cup {"none"}
    /\ detail.timers \subseteq {"inventory", "tick"}
    /\ \A a \in asks : a.kind \in ReadKind \cup {"collect"} /\ a.by \in {"open", "loop", "tick", "refresh"}
    /\ submit.step \in {"none", "saving", "saved", "testing"} /\ lagging \in BOOLEAN

\* However pages are entered, jumped between and left while requests are under way,
\* a page polls each thing in one loop: its timer is set, or one request of the
\* loop is under way (the `active` flags of ServerDetailPage.tsx).
LoopsRunOnce ==
    \A k \in {"inventory", "tick"} :
        Cardinality({a \in asks : a.active /\ (a.by = k \/ (a.by = "loop" /\ a.kind = k))})
            + (IF k \in detail.timers THEN 1 ELSE 0) <= 1

\* Terminal and files are shown only for a server that is known to have a
\* credential, also when the address asked for them before the server was read.
AccessTabsNeedAccess ==
    detail.tab = "terminal" /\ detail.server # Nobody => detail.server.access

\* The server and the sample shown are those of the page, unless the page changed
\* its server while something of the last one was under way: requests are not
\* compared with the page they answer to.
DetailIsOfThePage ==
    lagging \/ (detail.server.of \in {"none", detail.at} /\ detail.live \in {"none", detail.at})

\* What says that something is under way says so only while it is: the skeleton of
\* the first load, the spinner of a refresh and the dialog's.
WaitsAreReal ==
    /\ detail.loading => \E a \in asks : a.by = "open" /\ a.active
    /\ detail.refreshing => \E a \in asks : a.by = "refresh"
    /\ detail.busy => submit.here
=============================================================================
