------------------------------ MODULE ClusterPage ------------------------------
(***************************************************************************)
(* The cluster page of the desktop application (K8sManagePage.tsx) and the *)
(* handlers it calls (k8s:* of ipc-handlers-devops.ts).                    *)
(*                                                                         *)
(* One flag stands for all that is being loaded and hides the lists; what  *)
(* a call answers is stored whatever has been chosen since it was made.  A *)
(* list is modelled by the cluster and namespace it was read from.  A      *)
(* handler answers every failure, with an empty list or success: false, so *)
(* a call always ends; its commands (k8s-management-commands.ts) carry the *)
(* namespace and name they were given.                                     *)
(***************************************************************************)
EXTENDS Integers, FiniteSets

CONSTANTS
    Cluster,     \* servers
    Namespace,   \* namespaces, "default" among them
    MaxAsked,    \* bound: calls under way at once
    MaxMoves     \* bound: what the user does on the page before leaving it

ASSUME ClusterAssumption ==
    /\ "default" \in Namespace /\ "" \notin Cluster \cup Namespace
    /\ MaxAsked \in Nat /\ MaxAsked >= 2 /\ MaxMoves \in Nat

VARIABLES
    clusterPage,   \* server, tab and namespace chosen; whether something is loading
    lists,         \* list -> where what it shows was read from
    kubeconfig,    \* the cluster whose kubeconfig is shown
    asked,         \* calls under way
    moves,         \* what the user did on the page
    hurried        \* history: something was chosen while a call was under way

clusterVars == <<clusterPage, lists, kubeconfig, asked, moves, hurried>>

List == {"namespaces", "secrets", "serviceaccounts"}
Unread == [cluster |-> "", ns |-> ""]
ReadFrom == [cluster : Cluster, ns : Namespace \cup {""}]
Numbers == 1..MaxAsked
NewNumber == CHOOSE n \in Numbers : \A a \in asked : a.n # n

\* Where a list is read from, on the page as it is.
Source(page, list) == [cluster |-> page.cluster, ns |-> IF list = "namespaces" THEN "" ELSE page.ns]

\* (The flag forgotten.)
Unflagged(page) == page

\* loadNamespaces, loadSecrets and loadSAs raise the flag before they ask.
Flagged(page) == [page EXCEPT !.loading = TRUE]

\* A load of a list: kind "load" lowers the flag when it ends, kind "read" (the
\* namespaces offered for choice) does not.
Load(kind, page, list, n) == [n |-> n, kind |-> kind, list |-> list, from |-> Source(page, list)]

\* The tab's list is loaded anew.
Reloaded(page, calls) ==
    /\ clusterPage' = IF page.tab \in List THEN Flagged(page) ELSE page
    /\ asked' = calls \cup IF page.tab \in List THEN {Load("load", page, page.tab, NewNumber)} ELSE {}

Hurry == hurried' = (hurried \/ asked # {})

Move == moves < MaxMoves /\ moves' = moves + 1 /\ Cardinality(asked) < MaxAsked

-----------------------------------------------------------------------------
(* The user.                                                                *)

\* Another server: the effects load its namespaces and the tab's list.
ChooseCluster(c) ==
    /\ Move /\ c # clusterPage.cluster /\ Cardinality(asked) < MaxAsked - 1
    /\ LET page == [clusterPage EXCEPT !.cluster = c]
           spare == CHOOSE n \in Numbers \ {NewNumber} : \A a \in asked : a.n # n
       IN Reloaded(page, asked \cup {Load("read", page, "namespaces", spare)})
    /\ Hurry
    /\ UNCHANGED <<lists, kubeconfig>>

ChooseTab(t) ==
    /\ Move /\ t # clusterPage.tab
    /\ Reloaded([clusterPage EXCEPT !.tab = t], asked)
    /\ Hurry
    /\ UNCHANGED <<lists, kubeconfig>>

\* The namespaces offered are those of the list, or "default" while there are none.
ChooseNamespace(ns) ==
    /\ Move /\ clusterPage.tab \in {"secrets", "serviceaccounts"} /\ ns # clusterPage.ns
    /\ ns = "default" \/ lists["namespaces"] # Unread
    /\ Reloaded([clusterPage EXCEPT !.ns = ns], asked)
    /\ Hurry
    /\ UNCHANGED <<lists, kubeconfig>>

Refresh ==
    /\ Move /\ clusterPage.tab \in List
    /\ Reloaded(clusterPage, asked)
    /\ UNCHANGED <<lists, kubeconfig, hurried>>

\* A namespace, secret or service account is created in what is chosen.
Create ==
    /\ Move /\ clusterPage.tab \in List
    /\ asked' = asked \cup {Load("create", clusterPage, clusterPage.tab, NewNumber)}
    /\ UNCHANGED <<clusterPage, lists, kubeconfig, hurried>>

\* A row's delete button: what the row names is deleted in what is chosen.
Shown(list) == clusterPage.tab = list /\ ~clusterPage.loading /\ lists[list] # Unread

Delete ==
    /\ Move /\ \E list \in {"namespaces", "secrets"} : Shown(list)
    /\ asked' = asked \cup {Load("delete", clusterPage, clusterPage.tab, NewNumber)}
    /\ UNCHANGED <<clusterPage, lists, kubeconfig, hurried>>

\* loadKubeconfig and loadCICDKubeconfig.
LoadKubeconfig ==
    /\ Move /\ clusterPage.tab = "kubeconfig"
    /\ clusterPage' = Flagged(clusterPage)
    /\ asked' = asked \cup {[n |-> NewNumber, kind |-> "load", list |-> "kubeconfig",
                             from |-> [cluster |-> clusterPage.cluster, ns |-> ""]]}
    /\ UNCHANGED <<lists, kubeconfig, hurried>>

\* The page is left, and what was asked for goes nowhere; it is opened anew.
OpenClusterPage(c) ==
    /\ LET page == [cluster |-> c, tab |-> "namespaces", ns |-> "default", loading |-> TRUE]
       IN /\ clusterPage' = page
          /\ asked' = {Load("read", page, "namespaces", 1), Load("load", page, "namespaces", 2)}
    /\ lists' = [l \in List |-> Unread] /\ kubeconfig' = "" /\ moves' = 0 /\ hurried' = FALSE

-----------------------------------------------------------------------------
(* Answers.                                                                 *)

ListAnswered(a) ==
    /\ a \in asked /\ a.kind \in {"load", "read"} /\ a.list \in List
    /\ asked' = asked \ {a}
    /\ lists' = [lists EXCEPT ![a.list] = a.from]
    /\ clusterPage' = [clusterPage EXCEPT !.loading = a.kind = "read" /\ @]
    /\ UNCHANGED <<kubeconfig, moves, hurried>>

\* An answer that is no success empties what is shown.
KubeconfigAnswered(a, found) ==
    /\ a \in asked /\ a.list = "kubeconfig"
    /\ asked' = asked \ {a}
    /\ kubeconfig' = IF found THEN a.from.cluster ELSE ""
    /\ clusterPage' = [clusterPage EXCEPT !.loading = FALSE]
    /\ UNCHANGED <<lists, moves, hurried>>

\* An operation that succeeded loads the list it was made on, as it was chosen then.
OperationAnswered(a, success) ==
    /\ a \in asked /\ a.kind \in {"create", "delete"}
    /\ asked' = (asked \ {a}) \cup IF success THEN {[a EXCEPT !.kind = "load"]} ELSE {}
    /\ clusterPage' = IF success THEN Flagged(clusterPage) ELSE clusterPage
    /\ UNCHANGED <<lists, kubeconfig, moves, hurried>>

-----------------------------------------------------------------------------
ClusterInit ==
    /\ clusterPage \in [cluster : Cluster, tab : {"namespaces"}, ns : {"default"}, loading : {TRUE}]
    /\ asked = {Load("read", clusterPage, "namespaces", 1), Load("load", clusterPage, "namespaces", 2)}
    /\ lists = [l \in List |-> Unread] /\ kubeconfig = "" /\ moves = 0 /\ hurried = FALSE

ClusterNext ==
    \/ \E c \in Cluster : ChooseCluster(c) \/ OpenClusterPage(c)
    \/ \E t \in List \cup {"kubeconfig"} : ChooseTab(t)
    \/ \E ns \in Namespace : ChooseNamespace(ns)
    \/ Refresh \/ Create \/ Delete \/ LoadKubeconfig
    \/ \E a \in asked : \/ ListAnswered(a)
                        \/ \E ok \in BOOLEAN : KubeconfigAnswered(a, ok) \/ OperationAnswered(a, ok)

ClusterSpec == ClusterInit /\ [][ClusterNext]_clusterVars

-----------------------------------------------------------------------------
\* The page, its lists and its calls stay within their types.
ClusterTypeOK ==
    /\ clusterPage \in [cluster : Cluster, tab : List \cup {"kubeconfig"}, ns : Namespace, loading : BOOLEAN]
    /\ lists \in [List -> ReadFrom \cup {Unread}] /\ kubeconfig \in Cluster \cup {""}
    /\ moves \in 0..MaxMoves /\ hurried \in BOOLEAN
    /\ asked \subseteq [n : Numbers, kind : {"load", "read", "create", "delete"},
                        list : List \cup {"kubeconfig"}, from : ReadFrom]

\* The list a tab shows was read from the cluster and namespace that are chosen -
\* so that is where a row's delete button deletes - in whatever order the calls a
\* choice makes are answered.  Left out is a choice made while a call was under
\* way: the late answer, or the flag it lowers, shows the rows of what was chosen
\* before (K8sManagePage.tsx:61).
ListIsOfItsCluster ==
    \A list \in List : Shown(list) => lists[list] = Source(clusterPage, list) \/ hurried

\* The flag that hides the lists is up only while a load that lowers it is under way.
LoadingIsReal == clusterPage.loading => \E a \in asked : a.kind = "load"
=============================================================================
