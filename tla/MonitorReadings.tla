---------------------------- MODULE MonitorReadings ----------------------------
(***************************************************************************)
(* What the desktop's monitors make of the byte counters they poll: the    *)
(* interfaces of a server (system-monitor.ts) and the pods of its cluster  *)
(* (kubernetes-monitor.ts).  Each poll reports what a counter has moved    *)
(* since the previous reading.                                             *)
(*                                                                         *)
(* An interval starts a poll whether or not the one before has ended, and  *)
(* a poll ends when the last of its commands has, so a poll can overtake   *)
(* another.  Counters start over, interfaces and pods come and go.         *)
(*                                                                         *)
(* One counter, in units of traffic.  That rates divide by the time since  *)
(* the previous reading, and every other value a poll reads, is left out.  *)
(***************************************************************************)
EXTENDS Integers, FiniteSets

CONSTANTS
    MaxTraffic,   \* bound: traffic of the counter in all
    MaxOutages,   \* bound: times the counter starts over or goes away
    MaxPolls      \* bound: polls under way at once

ASSUME ReadingsAssumption ==
    MaxTraffic \in Nat /\ MaxOutages \in Nat /\ MaxPolls \in Nat

VARIABLES
    meter,      \* whose counter it is: "interface" or "pod"
    present,    \* the interface or pod is there
    traffic,    \* what it has moved in all
    startedAt,  \* traffic when the counter last started at 0
    outages,    \* bound used up
    polls,      \* polls under way
    previous,   \* the reading kept: prevNetworkStats, podNetworkPrevious
    untold,     \* history: traffic between kept readings that was not reported
    newest,     \* history: the newest reading that a poll ended with
    overtaken,  \* history: a poll ended after one that read later
    blank       \* history: the kubelet listed the pod without its counters

sourceVars == <<meter, present, traffic, startedAt, outages>>
readingVars == <<sourceVars, polls, previous, untold, newest, overtaken, blank>>

\* A reading: the counter, and the traffic and outages there had been by then.
NoReading == [counter |-> -1, traffic |-> -1, outages |-> 0]
Now(counter) == [counter |-> counter, traffic |-> traffic, outages |-> outages]
Asked == [pods |-> "asked", network |-> "asked", reading |-> NoReading]

-----------------------------------------------------------------------------
(* The server.                                                              *)

Moves ==
    /\ present /\ traffic < MaxTraffic /\ traffic' = traffic + 1
    /\ UNCHANGED <<meter, present, startedAt, outages, polls, previous, untold, newest, overtaken, blank>>

\* It goes away or comes back, or starts over: a reboot, a pod made anew under
\* the same name.
Restarts ==
    /\ outages < MaxOutages /\ outages' = outages + 1
    /\ present' \in BOOLEAN /\ startedAt' = traffic
    /\ UNCHANGED <<meter, traffic, polls, previous, untold, newest, overtaken, blank>>

-----------------------------------------------------------------------------
(* A poll.  Its commands run side by side on the SSH connection.            *)

PollStarts ==
    /\ Cardinality(polls) < MaxPolls /\ Asked \notin polls
    /\ polls' = polls \cup {Asked}
    /\ UNCHANGED <<sourceVars, previous, untold, newest, overtaken, blank>>

Becomes(p, q) == polls' = (polls \ {p}) \cup {q}

\* kubectl get pods.
ListPods(p) ==
    /\ meter = "pod" /\ p.pods = "asked"
    /\ Becomes(p, [p EXCEPT !.pods = IF present THEN "listed" ELSE "gone"])
    /\ UNCHANGED <<sourceVars, previous, untold, newest, overtaken, blank>>

\* /proc/net/dev, or the kubelets' summaries.
ReadCounters(p) ==
    /\ p.network = "asked"
    /\ Becomes(p, IF present
                  THEN [p EXCEPT !.network = "read",
                                 !.reading = Now(traffic - startedAt)]
                  ELSE [p EXCEPT !.network = "none"])
    /\ UNCHANGED <<sourceVars, previous, untold, newest, overtaken, blank>>

\* A kubelet gives no summary; or one that has no counters of the pod, which is
\* taken for counters of 0.
ReadNothing(p) ==
    /\ meter = "pod" /\ p.network = "asked"
    /\ \/ Becomes(p, [p EXCEPT !.network = "none"]) /\ UNCHANGED blank
       \/ /\ present /\ blank' = TRUE
          /\ Becomes(p, [p EXCEPT !.network = "read", !.reading = Now(0)])
    /\ UNCHANGED <<sourceVars, previous, untold, newest, overtaken>>

\* A counter that has gone down has started over, and nothing is reported.
Since(p) ==
    IF previous = NoReading \/ p.reading.counter < previous.counter THEN 0
    ELSE p.reading.counter - previous.counter

Older(r, q) == r.traffic < q.traffic \/ r.outages < q.outages

\* parseNetwork keeps what this poll read and nothing else; parsePods keeps the
\* last reading of every pod that is still listed.
Keeps(p) ==
    IF p.network = "read" /\ p.pods # "gone" THEN p.reading
    ELSE IF meter = "pod" /\ p.pods = "listed" THEN previous ELSE NoReading

\* The window and, for an interface, the metrics database are told of this much.
\* Nobody keeps account once polls have overtaken each other.
Report(bytes, between) ==
    untold' = IF overtaken' \/ blank THEN 0
              ELSE untold + (IF previous = NoReading THEN 0 ELSE between) - bytes

\* The last command ends.
PollEnds(p) ==
    /\ p.network # "asked" /\ (meter = "pod" => p.pods # "asked")
    /\ polls' = polls \ {p} /\ previous' = Keeps(p)
    /\ IF p.network = "read" /\ p.pods # "gone"
       THEN /\ overtaken' = (overtaken \/ Older(p.reading, newest))
            /\ newest' = IF overtaken' THEN NoReading ELSE p.reading
            /\ Report(Since(p), p.reading.traffic - previous.traffic)
       ELSE UNCHANGED <<untold, newest, overtaken>>
    /\ UNCHANGED <<sourceVars, blank>>

\* A command fails, or never ends.
PollFails(p) ==
    /\ polls' = polls \ {p}
    /\ UNCHANGED <<sourceVars, previous, untold, newest, overtaken, blank>>

\* stop(): polls under way go on.  Only the pods' readings are dropped.
StopReading ==
    /\ meter = "pod" /\ previous # NoReading /\ previous' = NoReading
    /\ UNCHANGED <<sourceVars, polls, untold, newest, overtaken, blank>>

-----------------------------------------------------------------------------
ReadingsInit ==
    /\ meter \in {"interface", "pod"} /\ present = TRUE
    /\ traffic = 0 /\ startedAt = 0 /\ outages = 0
    /\ polls = {} /\ previous = NoReading
    /\ untold = 0 /\ newest = NoReading /\ overtaken = FALSE /\ blank = FALSE

ReadingsNext ==
    \/ Moves \/ Restarts \/ PollStarts \/ StopReading
    \/ \E p \in polls : ListPods(p) \/ ReadCounters(p) \/ ReadNothing(p) \/ PollEnds(p) \/ PollFails(p)

ReadingsSpec == ReadingsInit /\ [][ReadingsNext]_readingVars

-----------------------------------------------------------------------------
\* A reading.
Reading == [counter : -1..MaxTraffic, traffic : -1..MaxTraffic, outages : 0..MaxOutages]

\* Counters and readings stay within their types.
ReadingsTypeOK ==
    /\ meter \in {"interface", "pod"} /\ present \in BOOLEAN
    /\ traffic \in 0..MaxTraffic /\ startedAt \in 0..traffic /\ outages \in 0..MaxOutages
    /\ polls \subseteq [pods : {"asked", "listed", "gone"}, network : {"asked", "read", "none"}, reading : Reading]
    /\ previous \in Reading /\ newest \in Reading /\ untold \in 0..MaxTraffic /\ overtaken \in BOOLEAN /\ blank \in BOOLEAN

\* What the window is told adds up: across reboots, pods made anew, readings that
\* fail and monitors stopped in between, no traffic is reported twice, and none
\* between two readings is missed unless the counter started over.  Left out are
\* polls that overtake each other, which count the traffic between them twice, and
\* pods that the kubelet once listed without counters (kubernetes-monitor.ts:190).
ReadingsAddUp ==
    ~overtaken /\ ~blank =>
        /\ untold >= 0
        /\ outages = 0 => untold = 0
=============================================================================
