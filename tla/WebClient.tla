------------------------------- MODULE WebClient -------------------------------
(***************************************************************************)
(* The browser side of a platform session (apps/web/src/lib/api.ts and     *)
(* context.tsx; the administration console has the same two files): the    *)
(* tabs of one browser share the refresh cookie, each keeps its own access *)
(* token in memory, and a call that is refused refreshes once and is sent  *)
(* again.  The server's part is rotateSession as a client meets it; its    *)
(* transactions are in PlatformAccounts.                                   *)
(*                                                                         *)
(* A refresh token is a family and a number: rotation issues the next      *)
(* number, and a number that is not the newest has been rotated.           *)
(***************************************************************************)
EXTENDS Integers, Sequences, FiniteSets

CONSTANTS
    Tab,            \* browser tabs
    Call,           \* API calls a tab makes
    MaxRotations,   \* bound: tokens issued in one family
    MaxLogins       \* bound: families

ASSUME WebAssumption == MaxRotations \in Nat \ {0} /\ MaxLogins \in Nat

VARIABLES
    jar,        \* the browser's refresh cookie
    newest,     \* family -> number of its newest token
    ended,      \* families that have been revoked
    revoked,    \* tokens that a logout has revoked
    tabs,       \* tab -> what its page holds
    flights,    \* refresh requests that have not settled
    calls,      \* call -> its tab and how far it is
    opened,     \* history: the tabs ever opened
    lost,       \* history: an answer to a refresh did not arrive
    replayed    \* history: the server was shown a token it had rotated

issuedVars == <<newest, ended, revoked, replayed>>
historyVars == <<opened, lost>>
webVars == <<jar, issuedVars, tabs, flights, calls, historyVars>>

NoToken == [family |-> 0, number |-> 0]
Token == [family : 0..MaxLogins, number : 0..MaxRotations]
ClosedTab == [open |-> FALSE, restoring |-> FALSE, user |-> FALSE, access |-> FALSE, leaving |-> NoToken]
Of(t) == {f \in flights : f.tab = t}
Flight(t, by) == [tab |-> t, by |-> by, token |-> jar, answer |-> "none", next |-> NoToken]

-----------------------------------------------------------------------------
(* Refreshing.                                                              *)

\* refreshPromise ??= fetch(...): one request of a tab at a time.
JoinRefresh(t, by) == IF Of(t) = {} THEN flights \cup {Flight(t, by)} ELSE flights

\* POST /refresh at the server: the newest token is rotated; a token that was
\* rotated or revoked ends its family.
ServerRefreshes(f) ==
    LET k == f.token
        known == k # NoToken
        fresh == known /\ k.family \notin ended /\ k \notin revoked /\ k.number = newest[k.family]
        next == [k EXCEPT !.number = @ + 1]
    IN /\ f \in flights /\ f.answer = "none"
       /\ fresh => k.number < MaxRotations
       /\ newest' = IF fresh THEN [newest EXCEPT ![k.family] = next.number] ELSE newest
       /\ ended' = IF known /\ ~fresh THEN ended \cup {k.family} ELSE ended
       /\ replayed' = (replayed \/ (known /\ k.number < newest[k.family]))
       /\ flights' = (flights \ {f}) \cup
              {IF fresh THEN [f EXCEPT !.answer = "yes", !.next = next] ELSE [f EXCEPT !.answer = "no"]}
       /\ UNCHANGED <<jar, revoked, tabs, calls, historyVars>>

\* Every caller that waits for the tab's refresh goes on with its result.
Resume(t, ok) ==
    calls' = [c \in Call |->
        IF calls[c].tab = t /\ calls[c].step = "waiting"
        THEN [calls[c] EXCEPT !.step = IF ok THEN "resent" ELSE "idle"]
        ELSE calls[c]]

\* The answer arrives: the cookie is stored or cleared, restoreSession's answer
\* is accepted, and a new access token is kept.
RefreshAnswered(f) ==
    LET t == f.tab
        ok == f.answer = "yes"
    IN /\ f \in flights /\ f.answer # "none" /\ tabs[t].open
       /\ flights' = flights \ {f}
       /\ jar' = IF f.token = NoToken THEN jar ELSE f.next
       /\ tabs' = [tabs EXCEPT ![t].restoring = FALSE,
                               ![t].user = IF tabs[t].restoring THEN ok ELSE @,
                               ![t].access = IF ok THEN TRUE ELSE IF tabs[t].restoring THEN FALSE ELSE @]
       /\ Resume(t, ok)
       /\ UNCHANGED <<issuedVars, historyVars>>

\* The request or its answer is lost, or its tab is gone.
RefreshLost(f) ==
    LET t == f.tab
    IN /\ f \in flights
       /\ flights' = flights \ {f}
       /\ lost' = TRUE
       /\ tabs' = IF tabs[t].restoring
                  THEN [tabs EXCEPT ![t].restoring = FALSE, ![t].user = FALSE, ![t].access = FALSE]
                  ELSE tabs
       /\ Resume(t, FALSE)
       /\ UNCHANGED <<jar, issuedVars, opened>>

-----------------------------------------------------------------------------
(* Tabs.                                                                    *)

\* AuthProvider's effect: restoreSession.
OpenTab(t) ==
    /\ ~tabs[t].open /\ Of(t) = {}
    /\ tabs' = [tabs EXCEPT ![t] = [ClosedTab EXCEPT !.open = TRUE, !.restoring = TRUE]]
    /\ flights' = JoinRefresh(t, "restore")
    /\ opened' = opened \cup {t}
    /\ UNCHANGED <<jar, issuedVars, calls, lost>>

CloseTab(t) ==
    /\ tabs[t].open
    /\ tabs' = [tabs EXCEPT ![t] = ClosedTab]
    /\ calls' = [c \in Call |-> IF calls[c].tab = t THEN [calls[c] EXCEPT !.step = "idle"] ELSE calls[c]]
    /\ UNCHANGED <<jar, issuedVars, flights, historyVars>>

\* login and register: a new family, accepted even while a restore is under way.
SignIn(t) ==
    /\ tabs[t].open /\ ~tabs[t].user
    /\ Len(newest) < MaxLogins
    /\ newest' = Append(newest, 1)
    /\ jar' = [family |-> Len(newest'), number |-> 1]
    /\ tabs' = [tabs EXCEPT ![t].user = TRUE, ![t].access = TRUE]
    /\ UNCHANGED <<ended, revoked, replayed, flights, calls, historyVars>>

SendLogout(t) ==
    /\ tabs[t].user /\ tabs[t].leaving = NoToken /\ jar # NoToken
    /\ tabs' = [tabs EXCEPT ![t].leaving = jar]
    /\ UNCHANGED <<jar, issuedVars, flights, calls, historyVars>>

\* The server revokes the token it was sent and clears the cookie.  An answer
\* that is lost leaves the user signed in.
LogoutAnswered(t) ==
    /\ tabs[t].leaving # NoToken
    /\ revoked' = revoked \cup {tabs[t].leaving}
    /\ \/ /\ jar' = NoToken
          /\ tabs' = [tabs EXCEPT ![t].user = FALSE, ![t].access = FALSE, ![t].leaving = NoToken]
       \/ /\ tabs' = [tabs EXCEPT ![t].leaving = NoToken]
          /\ UNCHANGED jar
    /\ UNCHANGED <<newest, ended, replayed, flights, calls, historyVars>>

-----------------------------------------------------------------------------
(* Calls: api and apiBlob.                                                  *)

AccessExpires(t) ==
    /\ tabs[t].access
    /\ tabs' = [tabs EXCEPT ![t].access = FALSE]
    /\ UNCHANGED <<jar, issuedVars, flights, calls, historyVars>>

SendCall(c, t) ==
    /\ calls[c].step = "idle" /\ tabs[t].user
    /\ calls' = [calls EXCEPT ![c] = [tab |-> t, step |-> IF tabs[t].access THEN "sent" ELSE "stale"]]
    /\ UNCHANGED <<jar, issuedVars, tabs, flights, historyVars>>

\* An answer, whatever it says, to a call that is not refreshed for.
CallAnswered(c) ==
    /\ calls[c].step \in {"sent", "resent"}
    /\ calls' = [calls EXCEPT ![c].step = "idle"]
    /\ UNCHANGED <<jar, issuedVars, tabs, flights, historyVars>>

\* 401: the call waits for the tab's refresh, which it may have to start.
CallRefused(c) ==
    /\ calls[c].step = "stale"
    /\ calls' = [calls EXCEPT ![c].step = "waiting"]
    /\ flights' = JoinRefresh(calls[c].tab, c)
    /\ UNCHANGED <<jar, issuedVars, tabs, historyVars>>

-----------------------------------------------------------------------------
WebInit ==
    /\ jar = NoToken
    /\ newest = <<>> /\ ended = {} /\ revoked = {} /\ replayed = FALSE
    /\ tabs = [t \in Tab |-> ClosedTab]
    /\ flights = {}
    /\ calls \in [Call -> [tab : Tab, step : {"idle"}]]
    /\ opened = {} /\ lost = FALSE

WebNext ==
    \/ \E f \in flights : ServerRefreshes(f) \/ RefreshAnswered(f) \/ RefreshLost(f)
    \/ \E t \in Tab : \/ OpenTab(t) \/ CloseTab(t) \/ SignIn(t)
                      \/ SendLogout(t) \/ LogoutAnswered(t) \/ AccessExpires(t)
    \/ \E c \in Call : CallAnswered(c) \/ CallRefused(c) \/ \E t \in Tab : SendCall(c, t)

WebSpec == WebInit /\ [][WebNext]_webVars

-----------------------------------------------------------------------------
\* Cookies, tabs, requests and calls stay within their types.
WebTypeOK ==
    /\ jar \in Token
    /\ newest \in Seq(1..MaxRotations) /\ Len(newest) <= MaxLogins
    /\ ended \subseteq DOMAIN newest /\ revoked \subseteq Token
    /\ tabs \in [Tab -> [open : BOOLEAN, restoring : BOOLEAN, user : BOOLEAN, access : BOOLEAN, leaving : Token]]
    /\ flights \subseteq [tab : Tab, by : Call \cup {"restore"}, token : Token,
                          answer : {"none", "yes", "no"}, next : Token]
    /\ calls \in [Call -> [tab : Tab, step : {"idle", "sent", "stale", "waiting", "resent"}]]
    /\ opened \subseteq Tab /\ lost \in BOOLEAN /\ replayed \in BOOLEAN

\* A browser with one tab whose refresh answers all arrive never shows the
\* server a token that was rotated, so the rule that ends a family on such a
\* token never signs this user out, however many calls are refused at once and
\* whatever logins and logouts run meanwhile.  Left out are two tabs, and a refresh
\* whose answer is lost or whose tab is reloaded before it (`lost`): the server has
\* rotated the token by then, and the client shows it again.
OneTabNeverReplays ==
    replayed => lost \/ Cardinality(opened) > 1
=============================================================================
