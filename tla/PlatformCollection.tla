--------------------------- MODULE PlatformCollection ---------------------------
(***************************************************************************)
(* The worker's SSH collection of one server (worker/collector-loop.ts,    *)
(* services/alert-evaluator.ts), beside the API's requests about the same  *)
(* server and its alert rule (routes/servers.ts, routes/alerts.ts).        *)
(*                                                                         *)
(* Several workers may run.  A lock in Redis keeps two of them from        *)
(* collecting a server at once, but it expires after two minutes whether   *)
(* or not its holder has finished; a server in agent mode is not collected *)
(* but every worker evaluates its alerts in each cycle, without a lock.    *)
(* Workers and requests hold the server's secret in memory across the      *)
(* connection and write it back with the host fingerprint they saw.        *)
(***************************************************************************)
EXTENDS Integers, FiniteSets

CONSTANTS
    Worker,       \* worker processes
    HostKey,      \* fingerprints of keys the host may present
    MaxVersions,  \* bound: secrets a user enters
    MaxAtOnce,    \* bound: cycles of workers and connection tests under way
    MaxAlerts     \* bound: open alerts

ASSUME CollectionAssumption ==
    /\ "none" \notin Worker /\ "none" \notin HostKey
    /\ MaxVersions \in Nat \ {0} /\ MaxAtOnce \in Nat /\ MaxAlerts \in Nat

VARIABLES
    server,      \* row of server_connections: mode, secret, status, last_seen_at; absent at first
    worker,      \* worker -> step of collectOne and the secret it loaded
    lock,        \* holder of the Redis lock, "none"
    late,        \* workers still collecting after their lock expired
    overlapped,  \* history: a lock has expired under its holder
    met,         \* history: two workers have evaluated the server's rules at once
    requests,    \* connection tests under way, with the secret they loaded
    rule,        \* the alert rule: "none", "on", "off" or "deleted"
    openAlerts,  \* open rows of alert_events for the rule
    cooling      \* an alert was triggered within the cooldown

serverVars == <<server, requests>>
workVars == <<worker, lock, late, overlapped, met>>
alertVars == <<rule, openAlerts, cooling>>
collectionVars == <<serverVars, workVars, alertVars>>

NoKey == "none"
Secret == [version : 1..MaxVersions, key : HostKey \cup {NoKey}]
Absent == [row |-> "none", agent |-> FALSE, secret |-> [version |-> 1, key |-> NoKey],
           status |-> "pending", seen |-> FALSE]
Idle == [step |-> "idle", secret |-> Absent.secret]
Spare == Cardinality(requests) + Cardinality({w \in Worker : worker[w].step # "idle"}) < MaxAtOnce
Collecting(w) == worker[w].step \in {"collecting", "evaluating", "inserting", "releasing"}
Evaluating(w) == worker[w].step \in {"evaluating", "inserting", "watching", "alarming"}
Step(w, s) == worker' = [worker EXCEPT ![w].step = s]
\* The secret is not used any more.
Leave(w, s) == worker' = [worker EXCEPT ![w] = [Idle EXCEPT !.step = s]]

\* A secret without a fingerprint is written back with the one just seen.
WithFingerprint(secret, key) == [secret EXCEPT !.key = key]

\* A host whose key is not the one recorded is refused.
Trusts(secret, key) == secret.key \in {NoKey, key}

\* The test of a server in agent mode looks at its agent's row, not at the host.
ByAgent(r) == server.agent /\ r.kind = "test"

\* Secrets that were loaded and may yet be written back.
Loaded == {worker[w].secret : w \in {v \in Worker : worker[v].step \in {"queued", "collecting"}}}
              \cup {r.secret : r \in {q \in requests : ~ByAgent(q)}}

-----------------------------------------------------------------------------
(* The API: the server's row and its secret.                                *)

CreateServer(agent) ==
    /\ server.row = "none"
    /\ server' = [server EXCEPT !.row = "present", !.agent = agent]
    /\ UNCHANGED <<requests, workVars, alertVars>>

\* A new secret is a new version, without a fingerprint.
UpdateServer ==
    /\ server.row = "present" /\ server.secret.version < MaxVersions
    /\ server' = [server EXCEPT !.secret = [version |-> @.version + 1, key |-> NoKey]]
    /\ UNCHANGED <<requests, workVars, alertVars>>

\* Its samples, rules and alerts go with it; the identifier is not used again.
DeleteServer ==
    /\ server.row = "present"
    /\ server' = [Absent EXCEPT !.row = "deleted"]
    /\ rule' = "deleted" /\ openAlerts' = 0 /\ cooling' = FALSE
    /\ UNCHANGED <<requests, workVars>>

\* POST ssh/test and test: the row is read, then the server is contacted.
TestBegin(kind) ==
    /\ server.row = "present"
    /\ Spare
    /\ requests' = requests \cup {[kind |-> kind, secret |-> server.secret]}
    /\ UNCHANGED <<server, workVars, alertVars>>

\* Only a secret that was loaded without a fingerprint is written back, whatever the
\* row holds by now.
TestPasses(r) ==
    /\ r \in requests
    /\ requests' = requests \ {r}
    /\ \E key \in HostKey, status \in IF ByAgent(r) THEN {"connected", "offline", "pending"} ELSE {"connected"} :
         /\ ByAgent(r) \/ Trusts(r.secret, key)
         /\ server' = IF server.row # "present" THEN server ELSE
              [server EXCEPT !.secret = IF ByAgent(r) \/ r.secret.key # NoKey THEN @
                                        ELSE WithFingerprint(r.secret, key),
                             !.status = IF r.kind = "test" THEN status ELSE @,
                             !.seen = @ \/ (r.kind = "test" /\ status = "connected")]
    /\ UNCHANGED <<workVars, alertVars>>

TestFails(r) ==
    /\ r \in requests
    /\ requests' = requests \ {r}
    /\ server' = IF server.row = "present" /\ r.kind = "test"
                 THEN [server EXCEPT !.status = "degraded"] ELSE server
    /\ UNCHANGED <<workVars, alertVars>>

-----------------------------------------------------------------------------
(* The API: the alert rule.                                                 *)

CreateRule(r) ==
    /\ server.row = "present" /\ rule = "none"
    /\ rule' = r
    /\ UNCHANGED <<serverVars, workVars, openAlerts, cooling>>

\* PATCH writes every column of the rule, those it does not change as it read
\* them earlier: the result may be any.
PatchRule(r) ==
    /\ rule \in {"on", "off"}
    /\ rule' = r
    /\ UNCHANGED <<serverVars, workVars, openAlerts, cooling>>

\* The events of a rule are deleted with it.
DeleteRule ==
    /\ rule \in {"on", "off"}
    /\ rule' = "deleted" /\ openAlerts' = 0 /\ cooling' = FALSE
    /\ UNCHANGED <<serverVars, workVars>>

-----------------------------------------------------------------------------
(* The worker.                                                              *)

\* loadWork reads the rows of a whole cycle before the first is collected.
LoadWork(w) ==
    /\ worker[w].step = "idle" /\ server.row = "present" /\ ~server.agent /\ Spare
    /\ worker' = [worker EXCEPT ![w] = [step |-> "queued", secret |-> server.secret]]
    /\ UNCHANGED <<serverVars, lock, late, overlapped, met, alertVars>>

\* Seen too recently when it was loaded, or locked by another worker.
Skip(w) ==
    /\ worker[w].step = "queued"
    /\ Leave(w, "idle")
    /\ UNCHANGED <<serverVars, lock, late, overlapped, met, alertVars>>

\* SET ... NX PX 120000.
AcquireLock(w) ==
    /\ worker[w].step = "queued" /\ lock = "none"
    /\ lock' = w
    /\ Step(w, "collecting")
    /\ UNCHANGED <<serverVars, late, overlapped, met, alertVars>>

LockExpires ==
    /\ lock # "none"
    /\ lock' = "none"
    /\ IF Collecting(lock) THEN late' = late \cup {lock} /\ overlapped' = TRUE
                           ELSE UNCHANGED <<late, overlapped>>
    /\ UNCHANGED <<serverVars, worker, met, alertVars>>

\* (The secret written back as it was loaded.)
AsLoaded(secret, key) == secret

\* What a collection writes back for the secret it loaded.
Collected(secret, key) == WithFingerprint(secret, key)

\* Evaluations that begin beside another worker's.
Meet(w) == met' = (met \/ \E v \in Worker \ {w} : Evaluating(v))

\* The server answered: samples, secret and status in one transaction.  The
\* loaded secret is written whether or not it gained a fingerprint, and whatever
\* the row holds by now.
PersistSnapshot(w) ==
    /\ worker[w].step = "collecting" /\ server.row = "present"
    /\ \E key \in HostKey :
         /\ Trusts(worker[w].secret, key)
         /\ server' = [server EXCEPT !.secret = Collected(worker[w].secret, key),
                                     !.status = "connected", !.seen = TRUE]
    /\ Leave(w, "evaluating") /\ Meet(w)
    /\ UNCHANGED <<requests, lock, late, overlapped, alertVars>>

\* evaluateAgentAlerts: the newest sample of an agent's server, in every worker and
\* without a lock.
EvaluateAgent(w) ==
    /\ worker[w].step = "idle" /\ server.row = "present" /\ server.agent /\ Spare
    /\ Leave(w, "watching") /\ Meet(w)
    /\ UNCHANGED <<serverVars, lock, late, overlapped, alertVars>>

\* It did not, or its row is gone: the error is recorded.
CollectFails(w) ==
    /\ worker[w].step = "collecting"
    /\ server' = IF server.row = "present"
                 THEN [server EXCEPT !.status = IF server.seen THEN "degraded" ELSE "offline"] ELSE server
    /\ Leave(w, "releasing")
    /\ UNCHANGED <<requests, lock, late, overlapped, met, alertVars>>

\* After an evaluation: a collection frees its lock.
Evaluated(w) == IF Collecting(w) THEN "releasing" ELSE "idle"

\* evaluateSystemAlerts, the value within its limits: open alerts of an enabled
\* rule are resolved.
Resolves(w) ==
    /\ worker[w].step \in {"evaluating", "watching"}
    /\ openAlerts' = IF rule = "on" THEN 0 ELSE openAlerts
    /\ Step(w, Evaluated(w))
    /\ UNCHANGED <<serverVars, lock, late, overlapped, met, rule, cooling>>

\* An alert is open, or was triggered within the cooldown.
Recent == openAlerts > 0 \/ cooling

\* A breach that has lasted: the look for a recent alert...
Breach(w) ==
    /\ worker[w].step \in {"evaluating", "watching"} /\ rule = "on"
    /\ Step(w, IF Recent THEN Evaluated(w) ELSE IF Collecting(w) THEN "inserting" ELSE "alarming")
    /\ UNCHANGED <<serverVars, lock, late, overlapped, met, alertVars>>

\* ... and the insert that follows it.
InsertAlert(w) ==
    /\ worker[w].step \in {"inserting", "alarming"}
    /\ IF rule \in {"on", "off"} /\ openAlerts < MaxAlerts
       THEN openAlerts' = openAlerts + 1 /\ cooling' = TRUE
       ELSE UNCHANGED <<openAlerts, cooling>>
    /\ Step(w, Evaluated(w))
    /\ UNCHANGED <<serverVars, lock, late, overlapped, met, rule>>

CooldownEnds ==
    /\ cooling
    /\ cooling' = FALSE
    /\ UNCHANGED <<serverVars, workVars, rule, openAlerts>>

\* (DEL without the comparison.)
DropLock(w) == "none"

\* The script deletes the lock only while it holds the worker's own token.
ReleasedLock(w) == IF lock = w THEN "none" ELSE lock

ReleaseLock(w) ==
    /\ worker[w].step = "releasing"
    /\ lock' = ReleasedLock(w)
    /\ late' = late \ {w}
    /\ Leave(w, "idle")
    /\ UNCHANGED <<serverVars, overlapped, met, alertVars>>

\* The process stops: the lock stays until it expires.
WorkerStops(w) ==
    /\ worker[w].step # "idle"
    /\ Leave(w, "idle")
    /\ late' = late \ {w}
    /\ UNCHANGED <<serverVars, lock, overlapped, met, alertVars>>

-----------------------------------------------------------------------------
CollectionInit ==
    /\ server = Absent /\ requests = {}
    /\ worker = [w \in Worker |-> Idle] /\ lock = "none" /\ late = {}
    /\ overlapped = FALSE /\ met = FALSE
    /\ rule = "none" /\ openAlerts = 0 /\ cooling = FALSE

WorkerStep(w) ==
    \/ LoadWork(w) \/ Skip(w) \/ AcquireLock(w) \/ PersistSnapshot(w) \/ CollectFails(w)
    \/ EvaluateAgent(w) \/ Resolves(w) \/ Breach(w) \/ InsertAlert(w) \/ ReleaseLock(w) \/ WorkerStops(w)

CollectionNext ==
    \/ \E agent \in BOOLEAN : CreateServer(agent)
    \/ UpdateServer \/ DeleteServer
    \/ \E kind \in {"ssh/test", "test"} : TestBegin(kind)
    \/ \E r \in requests : TestPasses(r) \/ TestFails(r)
    \/ \E r \in {"on", "off"} : CreateRule(r) \/ PatchRule(r)
    \/ DeleteRule
    \/ \E w \in Worker : WorkerStep(w)
    \/ LockExpires \/ CooldownEnds

CollectionSpec == CollectionInit /\ [][CollectionNext]_collectionVars

-----------------------------------------------------------------------------
\* Rows, workers and requests stay within their types.
CollectionTypeOK ==
    /\ server \in [row : {"none", "present", "deleted"}, agent : BOOLEAN, secret : Secret, seen : BOOLEAN,
                   status : {"pending", "connected", "degraded", "offline"}]
    /\ worker \in [Worker -> [step : {"idle", "queued", "collecting", "evaluating", "inserting", "releasing",
                                      "watching", "alarming"},
                              secret : Secret]]
    /\ lock \in Worker \cup {"none"} /\ late \subseteq Worker /\ overlapped \in BOOLEAN /\ met \in BOOLEAN
    /\ requests \subseteq [kind : {"ssh/test", "test"}, secret : Secret]
    /\ rule \in {"none", "on", "off", "deleted"}
    /\ openAlerts \in 0..MaxAlerts /\ cooling \in BOOLEAN

\* Two workers collect the server at once only when the lock of one of them
\* expired under it: a worker that finishes late does not free the lock of the
\* one that came after it.
LockHoldersExclusive ==
    \A w \in Worker : Collecting(w) /\ w \notin late => lock = w

\* A rule has a second open alert for the server only when two workers evaluated
\* it at once.  The lock keeps them apart until it expires under its holder; a
\* server in agent mode has no lock, and two workers do open two alerts for it
\* (collector-loop.ts:294-332).
OneOpenAlert == openAlerts > 1 => met /\ (overlapped \/ server.agent)

\* A server is collected by one worker at a time (LockHoldersExclusive) and a rule
\* has one open alert at most (OneOpenAlert), within the limits these two state.
CollectionIsExclusive == LockHoldersExclusive /\ OneOpenAlert

\* A host fingerprint recorded for a secret is never lost: a collection or test that
\* loaded the secret before records the one it saw.  It is replaced by another only
\* by one of those that had loaded the secret with another fingerprint, or none.
FingerprintStands ==
    [][/\ server.row = "present" /\ server'.row = "present"
       /\ server.secret.key # NoKey /\ server'.secret.version = server.secret.version
       => /\ server'.secret.key # NoKey
          /\ \/ server'.secret.key = server.secret.key
             \/ \E h \in Loaded : h.version = server.secret.version /\ h.key # server.secret.key]_collectionVars

\* A secret the user entered is put back to an earlier one only by a collection or
\* test that had loaded the earlier one and was still under way.  These do put it
\* back (collector-loop.ts:171-185, servers.ts:298-305): nothing compares the row with
\* what was loaded.
SecretStands ==
    [][/\ server.row = "present" /\ server'.row = "present"
       /\ server'.secret.version < server.secret.version
       => \E h \in Loaded : h.version = server'.secret.version]_collectionVars
=============================================================================
