----------------------------- MODULE WorkloadDrawer -----------------------------
(***************************************************************************)
(* The drawer of the web console that shows one workload's logs or details *)
(* and starts, stops or restarts it (components/WorkloadDrawer.tsx), and   *)
(* the reloads of the list behind it (pages/WorkloadsPage.tsx).            *)
(*                                                                         *)
(* Every load keeps the workload and the tab it was started for; nothing   *)
(* aborts it when the drawer moves on.  `crossed` records that the drawer  *)
(* moved while a load or an action of what it showed was under way.  The   *)
(* plan is one that allows logs and actions.                               *)
(***************************************************************************)
EXTENDS Integers, FiniteSets

CONSTANTS
    Openable,   \* the workloads of the list
    MaxLoads,   \* bound: loads under way at once
    MaxOpens    \* bound: times the drawer is opened

ASSUME DrawerAssumption == MaxLoads \in Nat \ {0} /\ MaxOpens \in Nat /\ "closed" \notin Openable

VARIABLES
    drawer,     \* what WorkloadDrawer keeps (useState)
    loads,      \* requests of load() that have not settled
    acting,     \* runAction: the request under way, with what it was made for
    refreshing, \* the list behind: it was asked to read again
    crossed,    \* history
    opens       \* history: times opened

drawerVars == <<drawer, loads, acting, refreshing, crossed, opens>>

View == {"logs", "details"}
Closed == "closed"
Blank == [of |-> Closed, view |-> "logs"]
NoAction == [step |-> "none", of |-> Closed, view |-> "logs"]
Output(w, v) == [of |-> w, view |-> v]
Here == Output(drawer.open, drawer.view)

-----------------------------------------------------------------------------
(* load(): the flag and the error line first, then the request.             *)

LoadOf(n, target, silent, after) ==
    [id |-> n, of |-> target.of, view |-> target.view, silent |-> silent, after |-> after]

\* Requests are numbered with the smallest number that is free.
FreeNumbers == (1..MaxLoads) \ {l.id : l \in loads}
IsNext(n, free) == n \in free /\ \A k \in free : n <= k

\* One more request for `target`.
Loading(target, silent, after) ==
    \E n \in FreeNumbers :
        /\ IsNext(n, FreeNumbers)
        /\ loads' = loads \cup {LoadOf(n, target, silent, after)}

Started(d, silent) == [d EXCEPT !.error = FALSE, !.loading = @ \/ ~silent]

\* Something asked for another workload or tab than `target` may still answer.
Elsewhere(target) ==
    \/ \E l \in loads : Output(l.of, l.view) # target
    \/ acting.step # "none" /\ Output(acting.of, acting.view) # target

-----------------------------------------------------------------------------
(* The drawer.                                                              *)

\* The effect on `selected`.
ClearedOutput(d) == [d EXCEPT !.view = "logs", !.content = Blank, !.error = FALSE, !.auto = TRUE]

\* A row of the list is chosen.  The second effect runs first with the tab that
\* was left behind, and again when the first has set the tab and the timer.
OpenDrawer(w) ==
    LET again == drawer.view # "logs" \/ ~drawer.auto
        first == Output(w, drawer.view)
    IN /\ drawer.open = Closed /\ opens < MaxOpens
       /\ opens' = opens + 1
       /\ crossed' = (Elsewhere(Output(w, "logs")) \/ drawer.view # "logs")
       /\ drawer' = Started([ClearedOutput(drawer) EXCEPT !.open = w], FALSE)
       /\ \E n, k \in FreeNumbers :
              /\ IsNext(n, FreeNumbers)
              /\ IF again THEN IsNext(k, FreeNumbers \ {n}) ELSE k = n
              /\ loads' = loads \cup {LoadOf(n, first, FALSE, FALSE), LoadOf(k, Output(w, "logs"), FALSE, FALSE)}
       /\ UNCHANGED <<acting, refreshing>>

\* onClose, by the button, the backdrop or the Escape key.
CloseDrawer ==
    /\ drawer.open # Closed
    /\ drawer' = [drawer EXCEPT !.open = Closed]
    /\ UNCHANGED <<loads, acting, refreshing, crossed, opens>>

ChooseTab(v) ==
    /\ drawer.open # Closed /\ v # drawer.view
    /\ drawer' = Started([drawer EXCEPT !.view = v], FALSE)
    /\ crossed' = (crossed \/ Elsewhere(Output(drawer.open, v)))
    /\ Loading(Output(drawer.open, v), FALSE, FALSE)
    /\ UNCHANGED <<acting, refreshing, opens>>

\* The pause button, which only the logs have, and the refresh button.
ToggleRefresh ==
    /\ drawer.open # Closed /\ drawer.view = "logs"
    /\ drawer' = Started([drawer EXCEPT !.auto = ~@], FALSE)
    /\ Loading(Here, FALSE, FALSE)
    /\ UNCHANGED <<acting, refreshing, crossed, opens>>

RefreshNow ==
    /\ drawer.open # Closed
    /\ drawer' = Started(drawer, FALSE)
    /\ Loading(Here, FALSE, FALSE)
    /\ UNCHANGED <<acting, refreshing, crossed, opens>>

\* The interval of four seconds: whether or not the last load has settled.
LogTimer ==
    /\ drawer.open # Closed /\ drawer.view = "logs" /\ drawer.auto
    /\ drawer' = Started(drawer, TRUE)
    /\ Loading(Here, TRUE, FALSE)
    /\ UNCHANGED <<acting, refreshing, crossed, opens>>

\* What every settled load does, and the end of the action it belongs to, which
\* asks for the list again.
Lowered(l, d) == [d EXCEPT !.loading = IF l.silent THEN @ ELSE FALSE]
AfterLoad(l) ==
    /\ acting' = IF l.after THEN NoAction ELSE acting
    /\ refreshing' = (refreshing \/ l.after)

LoadAnswered(l) ==
    /\ l \in loads
    /\ loads' = loads \ {l}
    /\ drawer' = Lowered(l, [drawer EXCEPT !.content = Output(l.of, l.view)])
    /\ AfterLoad(l)
    /\ UNCHANGED <<crossed, opens>>

\* load's catch.
Reported(d) == [d EXCEPT !.error = TRUE]

LoadFails(l) ==
    /\ l \in loads
    /\ loads' = loads \ {l}
    /\ drawer' = Lowered(l, Reported(drawer))
    /\ AfterLoad(l)
    /\ UNCHANGED <<crossed, opens>>

\* 404: the timer is stopped, which makes the effect load once more, and the list
\* is asked for.  It may be the answer for a workload that was open before.
WorkloadIsGone(l) ==
    /\ l \in loads
    /\ LET d == Lowered(l, Reported([drawer EXCEPT !.auto = FALSE]))
       IN IF drawer.auto /\ drawer.open # Closed
          THEN /\ drawer' = Started(d, FALSE)
               /\ loads' = (loads \ {l}) \cup {LoadOf(l.id, Here, FALSE, FALSE)}
          ELSE /\ drawer' = d
               /\ loads' = loads \ {l}
    /\ acting' = IF l.after THEN NoAction ELSE acting
    /\ refreshing' = TRUE
    /\ UNCHANGED <<crossed, opens>>

-----------------------------------------------------------------------------
(* runAction.                                                               *)

RunAction ==
    /\ drawer.open # Closed /\ acting.step = "none"
    /\ acting' = [step |-> "sent", of |-> drawer.open, view |-> drawer.view]
    /\ drawer' = [drawer EXCEPT !.error = FALSE]
    /\ UNCHANGED <<loads, refreshing, crossed, opens>>

\* The action is done: load() of what was shown when it was asked for.
ActionAnswered ==
    /\ acting.step = "sent"
    /\ acting' = [acting EXCEPT !.step = "loading"]
    /\ drawer' = Started(drawer, FALSE)
    /\ Loading(Output(acting.of, acting.view), FALSE, TRUE)
    /\ UNCHANGED <<refreshing, crossed, opens>>

ActionFails ==
    /\ acting.step = "sent"
    /\ acting' = NoAction
    /\ drawer' = Reported(drawer)
    /\ UNCHANGED <<loads, refreshing, crossed, opens>>

-----------------------------------------------------------------------------
(* The list, asked by its button or by the drawer.                          *)

AskFleet ==
    /\ refreshing' = TRUE
    /\ UNCHANGED <<drawer, loads, acting, crossed, opens>>

FleetSettles ==
    /\ refreshing
    /\ refreshing' = FALSE
    /\ UNCHANGED <<drawer, loads, acting, crossed, opens>>

-----------------------------------------------------------------------------
DrawerInit ==
    /\ drawer = [open |-> Closed, view |-> "logs", content |-> Blank,
                 auto |-> TRUE, loading |-> FALSE, error |-> FALSE]
    /\ loads = {} /\ acting = NoAction
    /\ refreshing = FALSE
    /\ crossed = FALSE /\ opens = 0

DrawerNext ==
    \/ \E w \in Openable : OpenDrawer(w)
    \/ \E v \in View : ChooseTab(v)
    \/ CloseDrawer \/ ToggleRefresh \/ RefreshNow \/ LogTimer
    \/ \E l \in loads : LoadAnswered(l) \/ LoadFails(l) \/ WorkloadIsGone(l)
    \/ RunAction \/ ActionAnswered \/ ActionFails
    \/ AskFleet \/ FleetSettles

DrawerSpec == DrawerInit /\ [][DrawerNext]_drawerVars

-----------------------------------------------------------------------------
Place == [of : Openable \cup {Closed}, view : View]

\* The drawer, its requests and the list's stay within their types.
DrawerTypeOK ==
    /\ drawer \in [open : Openable \cup {Closed}, view : View, content : Place,
                   auto : BOOLEAN, loading : BOOLEAN, error : BOOLEAN]
    /\ loads \subseteq [id : 1..MaxLoads, of : Openable, view : View, silent : BOOLEAN, after : BOOLEAN]
    /\ acting \in [step : {"none", "sent", "loading"}, of : Openable \cup {Closed}, view : View]
    /\ refreshing \in BOOLEAN /\ crossed \in BOOLEAN
    /\ opens \in 0..MaxOpens

\* Something that will replace the output, or put up an error, is under way.
AnswerIsComing ==
    \/ \E l \in loads : Output(l.of, l.view) = Here
    \/ acting.step = "sent" /\ Output(acting.of, acting.view) = Here

\* Unless the drawer moved on while it was waiting, the output is of the open
\* workload, and where it is not of the chosen tab an answer is coming or an
\* error says that none came.
OutputIsOfTheOpen ==
    drawer.open # Closed /\ ~crossed /\ drawer.content # Blank =>
        /\ drawer.content.of = drawer.open
        /\ drawer.content.view # drawer.view => drawer.error \/ AnswerIsComing
=============================================================================
