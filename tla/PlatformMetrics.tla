----------------------------- MODULE PlatformMetrics -----------------------------
(***************************************************************************)
(* The samples of one server and what the API reads from them              *)
(* (routes/metrics.ts), beside the worker's retention (worker/             *)
(* collector-loop.ts, cleanRetention).                                     *)
(*                                                                         *)
(* An agent's samples are kept raw for a day and as one-minute rollups for *)
(* the plan's retention; a history longer than an hour reads the rollups.  *)
(* The workloads shown are those of the newest inventory.  An agent may    *)
(* deliver its spool late, so samples do not arrive in the order in which  *)
(* they were taken.  Time is counted in coarse steps: an hour is one step, *)
(* a day RawKept of them.                                                  *)
(***************************************************************************)
EXTENDS Integers, FiniteSetsExt

CONSTANTS
    Workload,   \* pods and containers of the server
    RawKept,    \* steps for which an agent's raw samples are kept: 24 hours
    Retention,  \* steps of the plan's retentionDays
    PageSize,   \* rows a history returns at most (2000)
    MaxNow      \* bound: steps of time

ASSUME MetricsAssumption ==
    /\ RawKept \in Nat \ {0} /\ Retention \in Nat /\ Retention >= RawKept
    /\ PageSize \in Nat \ {0} /\ MaxNow \in Nat

VARIABLES
    mode,       \* connection_mode of the server
    now,        \* time
    raw,        \* sampled_at of the rows of system_metric_samples
    rollups,    \* bucket_at of the rows of system_metric_rollups_1m
    workloads,  \* rows of kubernetes_pod_samples, docker_container_samples: [at, of]
    snapshots,  \* sampled_at of the rows of server_inventory_snapshots
    sampled,    \* history: when every sample ever stored was taken
    inventory,  \* history: time -> workloads listed then
    heard,      \* the agent was heard of within 90 seconds
    statuses,   \* statuses of the agent's identity and of the server
    cleaning    \* next statement of cleanRetention, "idle"

metricsVars == <<mode, now, raw, rollups, workloads, snapshots, sampled, inventory,
                 heard, statuses, cleaning>>

Time == 0..MaxNow
Cleanup == <<"samples", "workloads", "rollups", "agents", "servers">>

\* Rows of an inventory taken at t.
Listed(t, ws) == {[at |-> t, of |-> w] : w \in ws}
StoreInventory(t, ws) ==
    /\ workloads' = workloads \cup Listed(t, ws)
    /\ inventory' = [x \in DOMAIN inventory \cup {t} |-> IF x = t THEN ws ELSE inventory[x]]

-----------------------------------------------------------------------------
(* Samples arrive.                                                          *)

\* The worker's own collection over SSH: no rollup, no snapshot of the inventory.
CollectOverSsh(ws) ==
    /\ mode = "ssh" /\ now \notin sampled
    /\ raw' = raw \cup {now} /\ sampled' = sampled \cup {now}
    /\ StoreInventory(now, ws)
    /\ UNCHANGED <<mode, now, rollups, snapshots, heard, statuses, cleaning>>

\* A batch of the agent, now or out of its spool.
StoreBatch(t, ws, listed) ==
    /\ mode = "agent" /\ t <= now /\ t \notin sampled
    /\ raw' = raw \cup {t} /\ rollups' = rollups \cup {t} /\ sampled' = sampled \cup {t}
    /\ IF listed THEN StoreInventory(t, ws) /\ snapshots' = snapshots \cup {t}
                 ELSE UNCHANGED <<workloads, inventory, snapshots>>
    /\ heard' = TRUE /\ statuses' = [agent |-> "connected", server |-> "connected"]
    /\ UNCHANGED <<mode, now, cleaning>>

TimePasses ==
    /\ now < MaxNow
    /\ now' = now + 1 /\ heard' = FALSE
    /\ UNCHANGED <<mode, raw, rollups, workloads, snapshots, sampled, inventory, statuses, cleaning>>

-----------------------------------------------------------------------------
(* cleanRetention: one statement after the other, each on its own.          *)

RowsKept == IF mode = "agent" THEN RawKept ELSE Retention
Recently(t, kept) == t >= now - kept

\* (Every table is cleaned as the raw samples are.)
RollupsAsRaw == RowsKept

\* How long rollups are kept.
RollupsKept == Retention

CleanBegin ==
    /\ cleaning = "idle"
    /\ cleaning' = Cleanup[1]
    /\ UNCHANGED <<mode, now, raw, rollups, workloads, snapshots, sampled, inventory, heard, statuses>>

\* Agents not heard of are marked offline, and then the servers of those.
CleanStep(i) ==
    /\ cleaning = Cleanup[i]
    /\ cleaning' = IF i < 5 THEN Cleanup[i + 1] ELSE "idle"
    /\ raw' = IF i = 1 THEN {t \in raw : Recently(t, RowsKept)} ELSE raw
    /\ workloads' = IF i = 2 THEN {r \in workloads : Recently(r.at, RowsKept)} ELSE workloads
    /\ rollups' = IF i = 3 THEN {t \in rollups : Recently(t, RollupsKept)} ELSE rollups
    /\ statuses' =
         CASE i = 4 /\ statuses.agent = "connected" /\ ~heard -> [statuses EXCEPT !.agent = "offline"]
           [] i = 5 /\ statuses.agent = "offline" /\ statuses.server = "connected"
                -> [statuses EXCEPT !.server = "offline"]
           [] OTHER -> statuses
    /\ UNCHANGED <<mode, now, snapshots, sampled, inventory, heard>>

\* A statement fails, or the worker stops: the next cleanup starts anew.
CleanFails ==
    /\ cleaning # "idle"
    /\ cleaning' = "idle"
    /\ UNCHANGED <<mode, now, raw, rollups, workloads, snapshots, sampled, inventory, heard, statuses>>

-----------------------------------------------------------------------------
(* What the routes answer.                                                  *)

Newest(s, n) == {t \in s : Cardinality({u \in s : u > t}) < n}
Oldest(s, n) == {t \in s : Cardinality({u \in s : u < t}) < n}
Within(s, hours) == {t \in s : Recently(t, hours)}

\* GET overview: the last rows of at most a day, always raw.
Overview == Newest(Within(raw, RawKept), PageSize)

\* GET :id/history: raw rows, the newest ones of a page; rollups, the oldest ones.
ReadsRollups(hours) == mode = "agent" /\ hours > 1
History(hours) ==
    IF ReadsRollups(hours) THEN Oldest(Within(rollups, hours), PageSize)
                           ELSE Newest(Within(raw, hours), PageSize)

\* GET :id/latest.
Latest == Newest(raw, 1)

\* The time of the newest inventory: of a snapshot, for want of one of a row.
LatestInventory == IF snapshots # {} THEN Newest(snapshots, 1) ELSE Newest({r.at : r \in workloads}, 1)

\* GET fleet, :id/pods, :id/containers.
Shown == {r.of : r \in {x \in workloads : x.at \in LatestInventory}}

-----------------------------------------------------------------------------
MetricsInit ==
    /\ mode \in {"ssh", "agent"} /\ now = 0
    /\ raw = {} /\ rollups = {} /\ workloads = {} /\ snapshots = {}
    /\ sampled = {} /\ inventory = [t \in {} |-> {}]
    /\ heard = FALSE /\ statuses = [agent |-> "pending", server |-> "pending"]
    /\ cleaning = "idle"

MetricsNext ==
    \/ \E ws \in SUBSET Workload :
         \/ CollectOverSsh(ws)
         \/ \E t \in Time : StoreBatch(t, ws, TRUE)
    \/ \E t \in Time : StoreBatch(t, {}, FALSE)
    \/ TimePasses
    \/ CleanBegin \/ CleanFails \/ \E i \in 1..5 : CleanStep(i)

MetricsSpec == MetricsInit /\ [][MetricsNext]_metricsVars

-----------------------------------------------------------------------------
\* Stored rows stay within their types; rollups belong to agents.
MetricsTypeOK ==
    /\ mode \in {"ssh", "agent"} /\ now \in Time
    /\ raw \subseteq sampled /\ rollups \subseteq sampled /\ sampled \subseteq 0..now
    /\ snapshots \subseteq DOMAIN inventory /\ DOMAIN inventory \subseteq sampled
    /\ workloads \subseteq UNION {Listed(t, inventory[t]) : t \in DOMAIN inventory}
    /\ heard \in BOOLEAN
    /\ statuses \in [agent : {"pending", "connected", "offline"}, server : {"pending", "connected", "offline"}]
    /\ cleaning \in {Cleanup[i] : i \in 1..5} \cup {"idle"}
    /\ mode = "ssh" => rollups = {} /\ snapshots = {}

\* A history shows every sample of its window that the plan retains, however
\* late the sample arrived and whatever retention has removed, as long as the
\* window has no more of them than a page; the overview ends with the latest one.
\* (Of a longer window the route returns one page, of rollups the oldest one, which
\* lacks the newest minutes: metrics.ts:263-271.)
HistoryIsComplete ==
    /\ Within(Latest, RawKept) \subseteq Overview
    /\ \A hours \in 1..MaxNow :
         Cardinality(Within(sampled, hours)) <= PageSize
             => Within(sampled, IF hours < Retention THEN hours ELSE Retention) \subseteq History(hours)

\* The workloads shown are those of the newest inventory, also when an older
\* one arrived after it or when nothing runs any more.  (Without a snapshot, as
\* for servers collected over SSH, the newest inventory that listed anything.)
InventoryShownIsNewest ==
    LET times == IF mode = "agent" THEN DOMAIN inventory
                 ELSE {t \in DOMAIN inventory : inventory[t] # {}}
    IN \A t \in times : (t = Max(times) /\ Recently(t, RowsKept)) => Shown = inventory[t]
=============================================================================
