---------------------------- MODULE PlatformProofs ----------------------------
(***************************************************************************)
(* Proofs about the platform's API, worker, administration and feed, for   *)
(* every value of the constants: collection (PlatformCollection),          *)
(* terminals (PlatformAccess), startup (PlatformStartup), billing          *)
(* (PlatformBilling), releases (Releases) and the website's feed           *)
(* (FeedServer); and the properties of the whole platform that its run     *)
(* checks, from these and from the proofs about the console                *)
(* (ConsoleProofs).                                                        *)
(***************************************************************************)
EXTENDS MCPlatform, PlatformAccountsProofs, AgentEnrollmentProofs, ConsoleProofs, TLAPS

-----------------------------------------------------------------------------
(* Collection. Two workers evaluate the server's rules at once only when a *)
(* lock expired under one of them or the server is in agent mode, and one  *)
(* that evaluates alone finds no open alert when it inserts its own.       *)

\* Without an expired lock nobody is late; a worker that has met no other is the only one
\* to evaluate, and no alert is open between its look for a recent one and its insert.
AloneInserts ==
    /\ ~overlapped => late = {}
    /\ ~met => /\ \A v, w \in Worker : Evaluating(v) /\ Evaluating(w) => v = w
               /\ \A w \in Worker : worker[w].step \in {"inserting", "alarming"} => openAlerts = 0

\* A present server is collected or watched according to its mode, for as long as it is
\* there; its rule and alerts go with it.
ByMode ==
    /\ server.row = "none" => ~server.agent /\ \A w \in Worker : worker[w].step = "idle"
    /\ server.row = "present"
         => \A w \in Worker : worker[w].step # "idle"
                                => (server.agent <=> worker[w].step \in {"watching", "alarming"})
    /\ server.row = "deleted" => rule = "deleted" /\ openAlerts = 0
    /\ met => overlapped \/ server.agent \/ server.row = "deleted"

CollectionInv == CollectionTypeOK /\ LockHoldersExclusive /\ OneOpenAlert /\ AloneInserts /\ ByMode

CollectionServerRow ==
    [row : {"none", "present", "deleted"}, agent : BOOLEAN, secret : Secret, seen : BOOLEAN,
     status : {"pending", "connected", "degraded", "offline"}]
WorkerStepName == {"idle", "queued", "collecting", "evaluating", "inserting", "releasing", "watching", "alarming"}

LEMMA AbsentRow == Absent \in CollectionServerRow /\ Absent.secret \in Secret /\ 0 \in 0..MaxAlerts
<1>1. [version |-> 1, key |-> NoKey] \in Secret
  BY CollectionAssumption DEF Secret
<1> QED BY <1>1, CollectionAssumption DEF Absent, CollectionServerRow

LEMMA InitCollection == CollectionInit => CollectionInv
<1> SUFFICES ASSUME CollectionInit PROVE CollectionInv
  OBVIOUS
<1>1. Idle = [step |-> "idle", secret |-> Absent.secret]
  BY DEF Idle
<1>2. CollectionTypeOK
  BY <1>1, AbsentRow DEF CollectionInit, CollectionTypeOK, CollectionServerRow
<1>3. \A w \in Worker : worker[w].step = "idle"
  BY <1>1 DEF CollectionInit
<1>4. LockHoldersExclusive /\ OneOpenAlert /\ AloneInserts
  BY <1>3 DEF CollectionInit, LockHoldersExclusive, OneOpenAlert, AloneInserts, Collecting, Evaluating
<1>5. ByMode
  BY <1>3 DEF CollectionInit, ByMode, Absent
<1> QED BY <1>2, <1>4, <1>5 DEF CollectionInv

\* A worker takes one step and writes nothing else of its own.
LEMMA WorkerTypes ==
  ASSUME CollectionTypeOK, NEW w \in Worker, NEW s \in WorkerStepName, Step(w, s) \/ Leave(w, s)
  PROVE  /\ worker' \in [Worker -> [step : WorkerStepName, secret : Secret]]
         /\ worker'[w].step = s
         /\ \A v \in Worker \ {w} : worker'[v] = worker[v]
<1>1. Absent.secret \in Secret
  BY AbsentRow
<1>2. [Idle EXCEPT !.step = s] = [step |-> s, secret |-> Absent.secret]
  BY DEF Idle
<1>3. CASE Step(w, s)
  BY <1>3 DEF Step, CollectionTypeOK, WorkerStepName
<1>4. CASE Leave(w, s)
  BY <1>1, <1>2, <1>4 DEF Leave, CollectionTypeOK, WorkerStepName
<1> QED BY <1>3, <1>4

\* The requests of the API leave the workers alone and open no alert.
LEMMA RequestsKeep ==
  ASSUME CollectionInv, workVars' = workVars, openAlerts' = openAlerts \/ openAlerts' = 0,
         CollectionTypeOK', ByMode', server'.row = "deleted" \/ server.agent => server'.agent \/ openAlerts' = 0
  PROVE  CollectionInv'
<1>1. OneOpenAlert'
  <2>1. openAlerts \in Nat /\ server \in CollectionServerRow /\ server' \in CollectionServerRow
    BY CollectionAssumption DEF CollectionInv, CollectionTypeOK, CollectionServerRow
  <2> QED BY <2>1 DEF CollectionInv, OneOpenAlert, workVars
<1>2. LockHoldersExclusive'
  BY DEF CollectionInv, workVars, LockHoldersExclusive, Collecting
<1>3. AloneInserts'
  BY DEF CollectionInv, workVars, AloneInserts, Evaluating
<1> QED BY <1>1, <1>2, <1>3 DEF CollectionInv

LEMMA ServerSteps ==
  ASSUME CollectionInv,
         \/ \E agent \in BOOLEAN : CreateServer(agent)
         \/ UpdateServer \/ DeleteServer
         \/ \E kind \in {"ssh/test", "test"} : TestBegin(kind)
         \/ \E r \in requests : TestPasses(r) \/ TestFails(r)
         \/ \E r \in {"on", "off"} : CreateRule(r) \/ PatchRule(r)
         \/ DeleteRule \/ CooldownEnds
  PROVE  CollectionInv'
<1>0. CollectionTypeOK /\ ByMode /\ MaxVersions \in Nat
  BY CollectionAssumption DEF CollectionInv
<1>a. server \in CollectionServerRow
  BY <1>0 DEF CollectionTypeOK, CollectionServerRow
<1>1. CASE \E agent \in BOOLEAN : CreateServer(agent)
  <2> PICK agent \in BOOLEAN : CreateServer(agent)
    BY <1>1
  <2>1. /\ server' = [server EXCEPT !.row = "present", !.agent = agent] /\ server.row = "none"
        /\ UNCHANGED <<requests, worker, lock, late, overlapped, met, rule, openAlerts, cooling>>
    BY DEF CreateServer, workVars, alertVars
  <2>2. CollectionTypeOK'
    BY <1>0, <2>1 DEF CollectionTypeOK
  <2>3. server'.row = "present" /\ ~server.agent
    BY <1>0, <1>a, <2>1 DEF CollectionServerRow, ByMode
  <2>4. ByMode'
    BY <1>0, <2>1, <2>3 DEF ByMode
  <2> QED BY <2>1, <2>2, <2>3, <2>4, RequestsKeep DEF workVars
<1>2. CASE UpdateServer
  <2>1. [version |-> server.secret.version + 1, key |-> NoKey] \in Secret
    BY <1>0, <1>2 DEF UpdateServer, CollectionTypeOK, Secret
  <2>2. server' = [server EXCEPT !.secret = [version |-> server.secret.version + 1, key |-> NoKey]]
    BY <1>0, <1>2 DEF UpdateServer, CollectionTypeOK
  <2>3. CollectionTypeOK'
    BY <1>0, <1>2, <2>1, <2>2 DEF UpdateServer, CollectionTypeOK, workVars, alertVars
  <2>4. server'.row = server.row /\ server'.agent = server.agent
    BY <1>a, <2>2 DEF CollectionServerRow
  <2>5. ByMode'
    BY <1>0, <1>2, <2>4 DEF ByMode, UpdateServer, workVars, alertVars
  <2> QED BY <1>2, <2>3, <2>4, <2>5, RequestsKeep DEF UpdateServer, workVars, alertVars, CollectionInv, ByMode
<1>3. CASE DeleteServer
  <2>1. [Absent EXCEPT !.row = "deleted"] \in CollectionServerRow /\ [Absent EXCEPT !.row = "deleted"].row = "deleted"
    BY AbsentRow DEF CollectionServerRow
  <2>2. CollectionTypeOK'
    BY <1>0, <1>3, <2>1, AbsentRow DEF DeleteServer, CollectionTypeOK, workVars, CollectionServerRow
  <2>3. ByMode'
    BY <1>3, <2>1 DEF DeleteServer, ByMode
  <2> QED BY <1>3, <2>2, <2>3, RequestsKeep DEF DeleteServer
<1>4. CASE \E kind \in {"ssh/test", "test"} : TestBegin(kind)
  <2>1. CollectionTypeOK'
    BY <1>0, <1>4 DEF TestBegin, CollectionTypeOK, workVars, alertVars
  <2>2. ByMode'
    BY <1>0, <1>4 DEF TestBegin, ByMode, workVars, alertVars
  <2> QED BY <1>0, <1>4, <2>1, <2>2, RequestsKeep DEF TestBegin, alertVars, ByMode
<1>5. CASE \E r \in requests : TestPasses(r) \/ TestFails(r)
  <2> PICK r \in requests : TestPasses(r) \/ TestFails(r)
    BY <1>5
  <2>1. r.secret \in Secret
    BY <1>0 DEF CollectionTypeOK
  <2>2. server' \in CollectionServerRow /\ server'.row = server.row /\ server'.agent = server.agent
    <3>1. CASE TestFails(r)
      BY <1>a, <3>1 DEF TestFails, CollectionServerRow
    <3>2. CASE TestPasses(r)
      <4>1. PICK key \in HostKey, status \in {"connected", "offline", "pending"} :
              server' = IF server.row # "present" THEN server ELSE
                [server EXCEPT !.secret = IF ByAgent(r) \/ r.secret.key # NoKey THEN @
                                          ELSE WithFingerprint(r.secret, key),
                               !.status = IF r.kind = "test" THEN status ELSE @,
                               !.seen = @ \/ (r.kind = "test" /\ status = "connected")]
        BY <3>2 DEF TestPasses
      <4>2. WithFingerprint(r.secret, key) \in Secret
        BY <2>1 DEF WithFingerprint, Secret
      <4> QED BY <1>a, <4>1, <4>2 DEF CollectionServerRow
    <3> QED BY <3>1, <3>2
  <2>3. requests' \subseteq requests /\ UNCHANGED <<worker, lock, late, overlapped, met, rule, openAlerts, cooling>>
    BY DEF TestPasses, TestFails, workVars, alertVars
  <2>4. CollectionTypeOK'
    BY <1>0, <2>2, <2>3 DEF CollectionTypeOK, CollectionServerRow
  <2>5. ByMode'
    BY <1>0, <2>2, <2>3 DEF ByMode
  <2> QED BY <1>0, <2>2, <2>3, <2>4, <2>5, RequestsKeep DEF workVars, ByMode
<1>6. CASE (\E r \in {"on", "off"} : CreateRule(r) \/ PatchRule(r)) \/ DeleteRule \/ CooldownEnds
  <2>1. /\ rule' \in {"none", "on", "off", "deleted"}
        /\ openAlerts' \in {openAlerts, 0} /\ cooling' \in {cooling, FALSE}
        /\ UNCHANGED <<server, requests, worker, lock, late, overlapped, met>>
        /\ rule = "deleted" => rule' = "deleted"
        /\ server.row = "deleted" => rule = "deleted" /\ openAlerts = 0
    BY <1>0, <1>6 DEF CreateRule, PatchRule, DeleteRule, CooldownEnds, CollectionTypeOK, ByMode, serverVars, workVars
  <2>2. CollectionTypeOK'
    BY <1>0, <2>1, AbsentRow DEF CollectionTypeOK
  <2>3. ByMode'
    BY <1>0, <2>1 DEF ByMode
  <2> QED BY <2>1, <2>2, <2>3, RequestsKeep DEF workVars
<1> QED BY <1>1, <1>2, <1>3, <1>4, <1>5, <1>6

\* A worker that moves on alone, beginning no evaluation and opening no alert.
LEMMA WorkerMoveKeeps ==
  ASSUME CollectionInv, NEW w \in Worker, NEW s \in WorkerStepName, Step(w, s) \/ Leave(w, s),
         CollectionTypeOK', LockHoldersExclusive',
         server'.row = server.row, server'.agent = server.agent, late' \subseteq late,
         UNCHANGED <<rule, overlapped, met>>, openAlerts' = openAlerts \/ openAlerts' = 0,
         s \in {"evaluating", "inserting", "watching", "alarming"} => Evaluating(w),
         s \in {"inserting", "alarming"} => openAlerts' = 0,
         s # "idle" => /\ worker[w].step # "idle"
                       /\ s \in {"watching", "alarming"} <=> worker[w].step \in {"watching", "alarming"}
  PROVE  CollectionInv'
<1>1. worker'[w].step = s /\ \A v \in Worker \ {w} : worker'[v] = worker[v]
  BY WorkerTypes DEF CollectionInv
<1>2. OneOpenAlert'
  <2>1. openAlerts \in Nat
    BY CollectionAssumption DEF CollectionInv, CollectionTypeOK
  <2> QED BY <2>1 DEF CollectionInv, OneOpenAlert
<1>3. AloneInserts'
  <2>1. \A v \in Worker : Evaluating(v)' => Evaluating(v)
    BY <1>1 DEF Evaluating
  <2>2. \A v \in Worker : worker'[v].step \in {"inserting", "alarming"} /\ ~met => openAlerts' = 0
    <3> SUFFICES ASSUME NEW v \in Worker, worker'[v].step \in {"inserting", "alarming"}, ~met
                 PROVE  openAlerts' = 0
      OBVIOUS
    <3>1. v # w => worker'[v] = worker[v]
      BY <1>1
    <3> QED BY <1>1, <3>1 DEF CollectionInv, AloneInserts
  <2> QED BY <2>1, <2>2 DEF CollectionInv, AloneInserts
<1>4. ByMode'
  <2>1. \A v \in Worker : worker'[v].step # "idle"
          => /\ worker[v].step # "idle"
             /\ worker'[v].step \in {"watching", "alarming"} <=> worker[v].step \in {"watching", "alarming"}
    BY <1>1
  <2> QED BY <2>1 DEF CollectionInv, ByMode
<1> QED BY <1>2, <1>3, <1>4 DEF CollectionInv

\* A worker that is not collecting, or collects under its lock, goes on.
LEMMA WorkerMoves ==
  ASSUME CollectionInv, NEW w \in Worker,
         Skip(w) \/ AcquireLock(w) \/ CollectFails(w) \/ Resolves(w) \/ Breach(w) \/ ReleaseLock(w) \/ WorkerStops(w)
  PROVE  CollectionInv'
<1>0. CollectionTypeOK /\ LockHoldersExclusive /\ server \in CollectionServerRow
  BY DEF CollectionInv, CollectionTypeOK, CollectionServerRow
<1>1. CASE Skip(w)
  <2>1. /\ Leave(w, "idle") /\ "idle" \in WorkerStepName
        /\ UNCHANGED <<server, requests, lock, late, overlapped, met, rule, openAlerts, cooling>>
    BY <1>1 DEF Skip, serverVars, alertVars, WorkerStepName
  <2>2. CollectionTypeOK' /\ LockHoldersExclusive'
    BY <1>0, <2>1, WorkerTypes DEF CollectionTypeOK, LockHoldersExclusive, Collecting, WorkerStepName
  <2> QED BY <2>1, <2>2, WorkerMoveKeeps
<1>2. CASE AcquireLock(w)
  <2>1. /\ Step(w, "collecting") /\ "collecting" \in WorkerStepName /\ lock = "none" /\ lock' = w
        /\ worker[w].step = "queued"
        /\ UNCHANGED <<server, requests, late, overlapped, met, rule, openAlerts, cooling>>
    BY <1>2 DEF AcquireLock, serverVars, alertVars, WorkerStepName
  <2>2. \A v \in Worker : Collecting(v) => v \in late
    BY <1>0, <2>1, CollectionAssumption DEF LockHoldersExclusive
  <2>3. CollectionTypeOK' /\ LockHoldersExclusive'
    BY <1>0, <2>1, <2>2, WorkerTypes DEF CollectionTypeOK, LockHoldersExclusive, Collecting, WorkerStepName
  <2> QED BY <2>1, <2>3, WorkerMoveKeeps
<1>3. CASE CollectFails(w)
  <2>1. /\ Leave(w, "releasing") /\ "releasing" \in WorkerStepName /\ worker[w].step = "collecting"
        /\ server' = IF server.row = "present"
                     THEN [server EXCEPT !.status = IF server.seen THEN "degraded" ELSE "offline"] ELSE server
        /\ UNCHANGED <<requests, lock, late, overlapped, met, rule, openAlerts, cooling>>
    BY <1>3 DEF CollectFails, alertVars, WorkerStepName
  <2>2. server' \in CollectionServerRow /\ server'.row = server.row /\ server'.agent = server.agent
    BY <1>0, <2>1 DEF CollectionServerRow
  <2>3. CollectionTypeOK' /\ LockHoldersExclusive'
    BY <1>0, <2>1, <2>2, WorkerTypes
       DEF CollectionTypeOK, CollectionServerRow, LockHoldersExclusive, Collecting, WorkerStepName
  <2> QED BY <2>1, <2>2, <2>3, WorkerMoveKeeps
<1>a. Evaluating(w) => /\ Evaluated(w) \in {"releasing", "idle"}
                       /\ Evaluated(w) = "idle" <=> worker[w].step \in {"watching", "alarming"}
                       /\ Evaluated(w) = "releasing" => Collecting(w)
  BY DEF Evaluating, Evaluated, Collecting
<1>4. CASE Resolves(w)
  <2>1. /\ Step(w, Evaluated(w)) /\ Evaluated(w) \in WorkerStepName /\ Evaluating(w)
        /\ openAlerts' = openAlerts \/ openAlerts' = 0
        /\ UNCHANGED <<server, requests, lock, late, overlapped, met, rule, cooling>>
    BY <1>4, <1>a DEF Resolves, serverVars, WorkerStepName, Evaluating
  <2>2. openAlerts' \in 0..MaxAlerts
    BY <1>0, <2>1, AbsentRow DEF CollectionTypeOK
  <2>3. CollectionTypeOK' /\ LockHoldersExclusive'
    BY <1>0, <1>a, <2>1, <2>2, WorkerTypes DEF CollectionTypeOK, LockHoldersExclusive, Collecting, WorkerStepName
  <2> QED BY <1>a, <2>1, <2>3, WorkerMoveKeeps DEF Evaluating
\* It looks for an open alert before it inserts one.
<1>5. CASE Breach(w)
  <2>1. /\ worker[w].step \in {"evaluating", "watching"}
        /\ UNCHANGED <<server, requests, lock, late, overlapped, met, rule, openAlerts, cooling>>
    BY <1>5 DEF Breach, serverVars, alertVars
  <2>2. ~Recent => openAlerts = 0
    BY <1>0 DEF Recent, CollectionTypeOK
  <2>3. PICK s \in {"releasing", "idle", "inserting", "alarming"} :
               /\ Step(w, s) /\ (s \in {"inserting", "alarming"} => openAlerts = 0)
               /\ s \in {"idle", "alarming"} <=> worker[w].step = "watching"
    BY <1>5, <2>1, <2>2 DEF Breach, Evaluated, Collecting
  <2>4. CollectionTypeOK' /\ LockHoldersExclusive'
    BY <1>0, <2>1, <2>3, WorkerTypes DEF CollectionTypeOK, LockHoldersExclusive, Collecting, WorkerStepName
  <2> QED BY <2>1, <2>3, <2>4, WorkerMoveKeeps DEF Evaluating, WorkerStepName
\* A late worker has lost the lock: the one that came after it keeps its own.
<1>6. CASE ReleaseLock(w)
  <2>1. /\ Leave(w, "idle") /\ "idle" \in WorkerStepName /\ lock' = IF lock = w THEN "none" ELSE lock
        /\ late' = late \ {w}
        /\ UNCHANGED <<server, requests, overlapped, met, rule, openAlerts, cooling>>
    BY <1>6 DEF ReleaseLock, ReleasedLock, serverVars, alertVars, WorkerStepName
  <2>2. CollectionTypeOK' /\ LockHoldersExclusive'
    BY <1>0, <2>1, WorkerTypes DEF CollectionTypeOK, LockHoldersExclusive, Collecting, WorkerStepName
  <2> QED BY <2>1, <2>2, WorkerMoveKeeps
<1>7. CASE WorkerStops(w)
  <2>1. /\ Leave(w, "idle") /\ "idle" \in WorkerStepName /\ late' = late \ {w}
        /\ UNCHANGED <<server, requests, lock, overlapped, met, rule, openAlerts, cooling>>
    BY <1>7 DEF WorkerStops, serverVars, alertVars, WorkerStepName
  <2>2. CollectionTypeOK' /\ LockHoldersExclusive'
    BY <1>0, <2>1, WorkerTypes DEF CollectionTypeOK, LockHoldersExclusive, Collecting, WorkerStepName
  <2> QED BY <2>1, <2>2, WorkerMoveKeeps
<1> QED BY <1>1, <1>2, <1>3, <1>4, <1>5, <1>6, <1>7

\* A worker that begins an evaluation beside another's collects beside a late one, or
\* watches a server in agent mode.
LEMMA EvaluationsBegin ==
  ASSUME CollectionInv, NEW w \in Worker, PersistSnapshot(w) \/ EvaluateAgent(w)
  PROVE  CollectionInv'
<1>0. /\ CollectionTypeOK /\ LockHoldersExclusive /\ OneOpenAlert /\ AloneInserts /\ ByMode
      /\ server \in CollectionServerRow
  BY DEF CollectionInv, CollectionTypeOK, CollectionServerRow
<1>1. PICK s \in {"evaluating", "watching"} :
        /\ Leave(w, s) /\ (s = "watching" <=> server.agent)
        /\ server.row = "present" /\ server'.row = "present" /\ server'.agent = server.agent
        /\ server' \in CollectionServerRow
        /\ s = "evaluating" => worker[w].step = "collecting"
  <2>1. CASE PersistSnapshot(w)
    <3>1. PICK key \in HostKey :
            server' = [server EXCEPT !.secret = Collected(worker[w].secret, key), !.status = "connected", !.seen = TRUE]
      BY <2>1 DEF PersistSnapshot
    <3>2. Collected(worker[w].secret, key) \in Secret
      BY <1>0 DEF CollectionTypeOK, Collected, WithFingerprint, Secret
    <3>3. ~server.agent
      BY <1>0, <2>1 DEF PersistSnapshot, ByMode
    <3>4. server' \in CollectionServerRow /\ server'.row = server.row /\ server'.agent = server.agent
      BY <1>0, <3>1, <3>2 DEF CollectionServerRow
    <3> QED BY <2>1, <3>3, <3>4 DEF PersistSnapshot
  <2>2. CASE EvaluateAgent(w)
    BY <1>0, <2>2 DEF EvaluateAgent, serverVars
  <2> QED BY <2>1, <2>2
<1>2. /\ Meet(w) /\ UNCHANGED <<requests, lock, late, overlapped, rule, openAlerts, cooling>>
      /\ worker[w].step \in {"idle", "collecting"}
  BY DEF PersistSnapshot, EvaluateAgent, serverVars, alertVars
<1>a. s \in WorkerStepName /\ Leave(w, s)
  BY <1>1 DEF WorkerStepName
<1>3. /\ worker' \in [Worker -> [step : WorkerStepName, secret : Secret]]
      /\ worker'[w].step = s /\ \A v \in Worker \ {w} : worker'[v] = worker[v]
  BY <1>0, <1>a, WorkerTypes
<1>4. met' \in BOOLEAN /\ (met => met') /\ (met' => met \/ \E v \in Worker \ {w} : Evaluating(v))
  BY <1>0, <1>2, Zenon DEF Meet, CollectionTypeOK
<1>5. CollectionTypeOK'
  BY <1>0, <1>1, <1>2, <1>3, <1>4 DEF CollectionTypeOK, CollectionServerRow, WorkerStepName
<1>6. LockHoldersExclusive' /\ OneOpenAlert'
  BY <1>0, <1>1, <1>2, <1>3, <1>4 DEF LockHoldersExclusive, OneOpenAlert, Collecting
<1>7. AloneInserts'
  <2>1. ~met' => ~met /\ \A v \in Worker \ {w} : ~Evaluating(v)
    BY <1>2, <1>4 DEF Meet
  <2>2. ~met' => \A v \in Worker : Evaluating(v)' => v = w
    BY <1>3, <2>1 DEF Evaluating
  <2>a. worker'[w].step \notin {"inserting", "alarming"}
    BY <1>1, <1>3
  <2>3. ~met' => \A v \in Worker : worker'[v].step \in {"inserting", "alarming"} => openAlerts' = 0
    <3>1. \A v \in Worker : worker'[v].step \in {"inserting", "alarming"} => Evaluating(v)'
      BY DEF Evaluating
    <3> QED BY <2>2, <2>a, <3>1
  <2> QED BY <1>0, <1>2, <2>2, <2>3 DEF AloneInserts
<1>8. ByMode'
  <2>1. ASSUME NEW v \in Worker \ {w}, Evaluating(v), ~server.agent PROVE overlapped
    <3>1. Collecting(v) /\ Collecting(w) /\ v # w
      BY <1>0, <1>1, <2>1 DEF Evaluating, Collecting, ByMode
    <3>2. v \in late \/ w \in late
      BY <1>0, <3>1 DEF LockHoldersExclusive
    <3> QED BY <1>0, <3>2 DEF AloneInserts
  <2>2. met' => overlapped \/ server.agent
    BY <1>0, <1>1, <1>4, <2>1 DEF ByMode
  <2>3. \A v \in Worker : worker'[v].step # "idle"
                            => (server.agent <=> worker'[v].step \in {"watching", "alarming"})
    <3>1. worker'[w].step # "idle" => (server.agent <=> worker'[w].step \in {"watching", "alarming"})
      BY <1>1, <1>3
    <3> QED BY <1>0, <1>1, <1>3, <3>1 DEF ByMode
  <2> QED BY <1>1, <1>2, <2>2, <2>3 DEF ByMode
<1> QED BY <1>5, <1>6, <1>7, <1>8 DEF CollectionInv

\* The alert of a worker that evaluates alone is the only one open.
LEMMA AlertKeeps ==
  ASSUME CollectionInv, NEW w \in Worker, InsertAlert(w)
  PROVE  CollectionInv'
<1>0. CollectionTypeOK /\ LockHoldersExclusive /\ OneOpenAlert /\ AloneInserts /\ ByMode
  BY DEF CollectionInv
<1>1. /\ worker[w].step \in {"inserting", "alarming"}
      /\ \/ rule # "deleted" /\ openAlerts < MaxAlerts /\ openAlerts' = openAlerts + 1 /\ cooling' = TRUE
         \/ UNCHANGED <<openAlerts, cooling>>
      /\ UNCHANGED <<server, requests, lock, late, overlapped, met, rule>>
  BY DEF InsertAlert, serverVars
<1>2. PICK s \in {"releasing", "idle"} : Step(w, s) /\ (s = "idle" <=> worker[w].step = "alarming")
  BY <1>1 DEF InsertAlert, Evaluated, Collecting
<1>3. /\ worker' \in [Worker -> [step : WorkerStepName, secret : Secret]]
      /\ worker'[w].step = s /\ \A v \in Worker \ {w} : worker'[v] = worker[v]
  BY <1>0, <1>2, WorkerTypes DEF WorkerStepName
<1>4. openAlerts \in Nat /\ MaxAlerts \in Nat /\ openAlerts' \in 0..MaxAlerts
  <2>1. openAlerts \in 0..MaxAlerts /\ MaxAlerts \in Nat
    BY <1>0, CollectionAssumption DEF CollectionTypeOK
  <2>2. openAlerts' = openAlerts \/ (openAlerts < MaxAlerts /\ openAlerts' = openAlerts + 1)
    BY <1>1
  <2> QED BY <2>1, <2>2
<1>5. CollectionTypeOK'
  <2>1. cooling' \in BOOLEAN
    BY <1>0, <1>1 DEF CollectionTypeOK
  <2> QED BY <1>0, <1>1, <1>3, <1>4, <2>1 DEF CollectionTypeOK, WorkerStepName
<1>6. LockHoldersExclusive'
  BY <1>0, <1>1, <1>2, <1>3 DEF LockHoldersExclusive, Collecting
<1>7. ByMode'
  <2>1. worker[w].step # "idle" /\ server.row # "none"
    BY <1>0, <1>1 DEF ByMode
  <2>2. server.row = "deleted" => openAlerts' = 0
    BY <1>0, <1>1 DEF ByMode
  <2>3. server.row = "present" => \A v \in Worker : worker'[v].step # "idle"
                                    => (server.agent <=> worker'[v].step \in {"watching", "alarming"})
    BY <1>0, <1>1, <1>2, <1>3 DEF ByMode
  <2> QED BY <1>0, <1>1, <2>1, <2>2, <2>3 DEF ByMode
<1>8. ~met => openAlerts = 0 /\ \A v \in Worker : ~Evaluating(v)'
  BY <1>0, <1>1, <1>2, <1>3 DEF AloneInserts, Evaluating
<1>9. AloneInserts'
  BY <1>0, <1>1, <1>8 DEF AloneInserts, Evaluating
<1>10. OneOpenAlert'
  <2>1. openAlerts' > 1 => met
    BY <1>1, <1>4, <1>8
  <2>2. server.row = "deleted" => openAlerts' = 0
    BY <1>0, <1>1 DEF ByMode
  <2> QED BY <1>0, <1>1, <1>4, <2>1, <2>2 DEF OneOpenAlert, ByMode
<1> QED BY <1>5, <1>6, <1>7, <1>9, <1>10 DEF CollectionInv

LEMMA LoadKeeps ==
  ASSUME CollectionInv, NEW w \in Worker, LoadWork(w)
  PROVE  CollectionInv'
<1>0. CollectionTypeOK /\ LockHoldersExclusive /\ OneOpenAlert /\ AloneInserts /\ ByMode
  BY DEF CollectionInv
<1>1. /\ worker' = [worker EXCEPT ![w] = [step |-> "queued", secret |-> server.secret]]
      /\ server.row = "present" /\ ~server.agent
      /\ UNCHANGED <<server, requests, lock, late, overlapped, met, rule, openAlerts, cooling>>
  BY DEF LoadWork, serverVars, alertVars
<1>2. worker'[w].step = "queued" /\ \A v \in Worker \ {w} : worker'[v] = worker[v]
  BY <1>0, <1>1 DEF CollectionTypeOK
<1>3. CollectionTypeOK'
  BY <1>0, <1>1 DEF CollectionTypeOK
<1>4. LockHoldersExclusive' /\ OneOpenAlert'
  BY <1>0, <1>1, <1>2 DEF LockHoldersExclusive, Collecting, OneOpenAlert
<1>5. AloneInserts' /\ ByMode'
  BY <1>0, <1>1, <1>2 DEF AloneInserts, ByMode, Evaluating
<1> QED BY <1>3, <1>4, <1>5 DEF CollectionInv

LEMMA ExpiryKeepsCollection ==
  ASSUME CollectionInv, LockExpires
  PROVE  CollectionInv'
<1>1. CollectionTypeOK'
  BY DEF CollectionInv, LockExpires, CollectionTypeOK, serverVars, alertVars
<1>2. /\ \A w \in Worker : worker'[w] = worker[w]
      /\ UNCHANGED <<server, worker, met, rule, openAlerts>>
      /\ overlapped => overlapped'
  BY DEF LockExpires, serverVars, alertVars
<1>3. LockHoldersExclusive'
  BY <1>2 DEF CollectionInv, LockExpires, LockHoldersExclusive, Collecting
<1>4. OneOpenAlert' /\ ByMode'
  BY <1>2 DEF CollectionInv, OneOpenAlert, ByMode
<1>5. AloneInserts'
  BY <1>2 DEF CollectionInv, LockExpires, AloneInserts, Evaluating
<1> QED BY <1>1, <1>3, <1>4, <1>5 DEF CollectionInv

LEMMA NextCollection == CollectionInv /\ [CollectionNext]_collectionVars => CollectionInv'
<1> SUFFICES ASSUME CollectionInv, [CollectionNext]_collectionVars PROVE CollectionInv'
  OBVIOUS
<1>1. CASE UNCHANGED collectionVars
  <2>1. CollectionTypeOK' /\ LockHoldersExclusive' /\ OneOpenAlert'
    BY <1>1 DEF CollectionInv, CollectionTypeOK, LockHoldersExclusive, Collecting, OneOpenAlert,
                collectionVars, serverVars, workVars, alertVars
  <2>2. AloneInserts' /\ ByMode'
    BY <1>1 DEF CollectionInv, AloneInserts, ByMode, Evaluating, collectionVars, serverVars, workVars, alertVars
  <2> QED BY <2>1, <2>2 DEF CollectionInv
<1>2. CASE \E w \in Worker : WorkerStep(w)
  BY <1>2, WorkerMoves, EvaluationsBegin, AlertKeeps, LoadKeeps DEF WorkerStep
<1>3. CASE LockExpires
  BY <1>3, ExpiryKeepsCollection
<1> QED BY <1>1, <1>2, <1>3, ServerSteps DEF CollectionNext

\* However workers, requests, stops and expired locks interleave: two workers collect a
\* server at once only when a lock expired under one of them, and a rule has a second
\* open alert only when two workers evaluated it at once, which the lock allows once it
\* has expired, and agent mode, which takes no lock, always (worker/collector-loop.ts,
\* services/alert-evaluator.ts).
THEOREM CollectionStaysExclusive == CollectionSpec => []CollectionIsExclusive
<1>1. CollectionInv => CollectionIsExclusive
  BY DEF CollectionInv, CollectionIsExclusive
<1> QED BY <1>1, InitCollection, NextCollection, PTL DEF CollectionSpec

\* What a step makes of the secret: the user's next one, or one that was loaded and is
\* written back with the fingerprint just seen.
SecretMoves ==
    \/ server'.secret = server.secret
    \/ server'.secret = [version |-> server.secret.version + 1, key |-> NoKey]
    \/ \E h \in Loaded, key \in HostKey : Trusts(h, key) /\ server'.secret = WithFingerprint(h, key)

LEMMA SecretSteps ==
  ASSUME CollectionTypeOK, CollectionNext, server.row = "present", server'.row = "present"
  PROVE  SecretMoves
<1>0. server \in CollectionServerRow
  BY DEF CollectionTypeOK, CollectionServerRow
<1>2. CASE (\E agent \in BOOLEAN : CreateServer(agent)) \/ DeleteServer
  BY <1>2 DEF CreateServer, DeleteServer, Absent
<1>3. CASE UpdateServer
  BY <1>0, <1>3 DEF UpdateServer, SecretMoves, CollectionServerRow
<1>4. ASSUME NEW r \in requests, TestPasses(r) \/ TestFails(r) PROVE SecretMoves
  <2>1. CASE TestPasses(r)
    <3>1. PICK key \in HostKey, status \in {"connected", "offline", "pending"} :
            /\ ByAgent(r) \/ Trusts(r.secret, key)
            /\ server' = [server EXCEPT !.secret = IF ByAgent(r) \/ r.secret.key # NoKey THEN @
                                                   ELSE WithFingerprint(r.secret, key),
                                        !.status = IF r.kind = "test" THEN status ELSE @,
                                        !.seen = @ \/ (r.kind = "test" /\ status = "connected")]
      BY <2>1 DEF TestPasses
    <3>2. CASE ByAgent(r) \/ r.secret.key # NoKey
      BY <1>0, <3>1, <3>2 DEF SecretMoves, CollectionServerRow
    <3>3. CASE ~ByAgent(r) /\ r.secret.key = NoKey
      <4>1. r.secret \in Loaded
        BY <1>4, <3>3 DEF Loaded
      <4>2. server'.secret = WithFingerprint(r.secret, key)
        BY <1>0, <3>1, <3>3 DEF CollectionServerRow
      <4> QED BY <3>1, <3>3, <4>1, <4>2 DEF SecretMoves
    <3> QED BY <3>2, <3>3
  <2>2. CASE TestFails(r)
    BY <1>0, <2>2 DEF TestFails, SecretMoves, CollectionServerRow
  <2> QED BY <1>4, <2>1, <2>2
<1>5. ASSUME NEW w \in Worker, PersistSnapshot(w) \/ CollectFails(w) PROVE SecretMoves
  <2>1. CASE PersistSnapshot(w)
    <3>1. worker[w].secret \in Loaded
      BY <2>1 DEF PersistSnapshot, Loaded
    <3> QED BY <1>0, <2>1, <3>1 DEF PersistSnapshot, Collected, SecretMoves, CollectionServerRow
  <2>2. CASE CollectFails(w)
    BY <1>0, <2>2 DEF CollectFails, SecretMoves, CollectionServerRow
  <2> QED BY <1>5, <2>1, <2>2
<1>6. CASE server' = server
  BY <1>6 DEF SecretMoves
<1> QED BY <1>2, <1>3, <1>4, <1>5, <1>6
     DEF CollectionNext, WorkerStep, TestBegin, CreateRule, PatchRule, DeleteRule, LockExpires, CooldownEnds,
         LoadWork, Skip, AcquireLock, EvaluateAgent, Resolves, Breach, InsertAlert, ReleaseLock, WorkerStops, serverVars

LEMMA LoadedSecrets == CollectionTypeOK => Loaded \subseteq Secret /\ server.secret \in Secret
BY DEF CollectionTypeOK, Loaded

LEMMA SecretsKept ==
  ASSUME CollectionTypeOK, CollectionNext, server.row = "present", server'.row = "present"
  PROVE  /\ server.secret.key # NoKey /\ server'.secret.version = server.secret.version
              => /\ server'.secret.key # NoKey
                 /\ \/ server'.secret.key = server.secret.key
                    \/ \E h \in Loaded : h.version = server.secret.version /\ h.key # server.secret.key
         /\ server'.secret.version < server.secret.version
              => \E h \in Loaded : h.version = server'.secret.version
<1>0. Loaded \subseteq Secret /\ server.secret \in Secret /\ server.secret.version \in Int
  BY LoadedSecrets DEF Secret
<1>1. CASE server'.secret = server.secret
  BY <1>0, <1>1
<1>2. CASE server'.secret = [version |-> server.secret.version + 1, key |-> NoKey]
  BY <1>0, <1>2
<1>3. ASSUME NEW h \in Loaded, NEW key \in HostKey, Trusts(h, key), server'.secret = WithFingerprint(h, key)
      PROVE  /\ server'.secret.version = h.version /\ server'.secret.key = key /\ key # NoKey
             /\ h.key \in {NoKey, key}
  BY <1>0, <1>3, CollectionAssumption DEF WithFingerprint, Trusts, Secret, NoKey
<1>4. ASSUME NEW h \in Loaded, NEW key \in HostKey, Trusts(h, key), server'.secret = WithFingerprint(h, key)
      PROVE  /\ server.secret.key # NoKey /\ server'.secret.version = server.secret.version
                  => /\ server'.secret.key # NoKey
                     /\ \/ server'.secret.key = server.secret.key
                        \/ \E g \in Loaded : g.version = server.secret.version /\ g.key # server.secret.key
             /\ server'.secret.version < server.secret.version
                  => \E g \in Loaded : g.version = server'.secret.version
  BY <1>3, <1>4
<1>5. SecretMoves
  BY SecretSteps
<1> QED BY <1>1, <1>2, <1>4, <1>5 DEF SecretMoves

\* However collections, tests and edits of a server interleave: a recorded host
\* fingerprint is never lost, and another takes its place only from a collection or test
\* that had loaded the secret with another or none (worker/collector-loop.ts,
\* routes/servers.ts).
THEOREM FingerprintsStand == CollectionSpec => FingerprintStands
<1>1. CollectionInv => CollectionTypeOK
  BY DEF CollectionInv
<1>2. CollectionTypeOK /\ [CollectionNext]_collectionVars
        => [/\ server.row = "present" /\ server'.row = "present"
            /\ server.secret.key # NoKey /\ server'.secret.version = server.secret.version
            => /\ server'.secret.key # NoKey
               /\ \/ server'.secret.key = server.secret.key
                  \/ \E h \in Loaded : h.version = server.secret.version /\ h.key # server.secret.key]_collectionVars
  BY SecretsKept
<1> QED BY <1>1, <1>2, InitCollection, NextCollection, PTL DEF CollectionSpec, FingerprintStands

\* Nor does a secret go back to an earlier one, but by a collection or test that had
\* loaded that one.
LEMMA SecretsStand == CollectionSpec => SecretStands
<1>1. CollectionInv => CollectionTypeOK
  BY DEF CollectionInv
<1>2. CollectionTypeOK /\ [CollectionNext]_collectionVars
        => [/\ server.row = "present" /\ server'.row = "present"
            /\ server'.secret.version < server.secret.version
            => \E h \in Loaded : h.version = server'.secret.version]_collectionVars
  BY SecretsKept
<1> QED BY <1>1, <1>2, InitCollection, NextCollection, PTL DEF CollectionSpec, SecretStands

-----------------------------------------------------------------------------
(* Terminals. What a socket was sent is what is pending for its            *)
(* connection and what was delivered, in order; a ticket that opened a     *)
(* terminal is gone, and a connection exists only while a terminal that    *)
(* was not abandoned holds it.                                             *)

\* Requests, tickets and terminals, with the buffers of every socket.
AccessShaped ==
    /\ AccessTypeOK
    /\ pending \in [Socket -> Seq(1..MaxInput)] /\ delivered \in [Socket -> Seq(1..MaxInput)]

\* A terminal past its ticket has used it up.
TicketsUsed ==
    \A s \in Socket : terminal[s].step \in {"connecting", "shell", "open"}
                        => ticket[terminal[s].ticket] = "gone"

\* A socket that closed before its connection was made is recorded as abandoned, and
\* one whose shell is open has its connection.
ClosedIsAbandoned ==
    \A s \in Socket : terminal[s].step \in {"ticket", "connecting", "shell", "open"} /\ ~terminal[s].open
                        => s \in abandoned

\* Only a terminal that is starting its shell or has it has a connection.
ShellsAreConnected == \A s \in Socket \cap conns : terminal[s].step \in {"shell", "open"}

\* The first n pieces of input, in order.
Pieces(n) == [i \in 1..n |-> i]

\* Pieces in the order they were typed, none of them later than the n-th.
Ordered(q, n) == \A i \in DOMAIN q : q[i] <= n /\ \A j \in DOMAIN q : i < j => q[i] < q[j]

\* What has come of a socket's input: in order, and whole unless it was cut.
Arrived(s, q) == Ordered(q, typed[s]) /\ (s \notin trimmed => q = Pieces(typed[s]))

\* What was typed before the shell opened waits for it, and a socket that no one has
\* opened has none.
BufferInOrder == \A s \in Socket : terminal[s].step \notin {"open", "ended"} => Arrived(s, pending[s])
ShellInOrder == \A s \in Socket : terminal[s].step = "open" => Arrived(s, delivered[s])

AccessInv == AccessShaped /\ TicketOpensOneTerminal /\ TicketsUsed /\ NoStrayConnection
                /\ ClosedIsAbandoned /\ ShellsAreConnected /\ BufferInOrder /\ ShellInOrder

\* Cutting a buffer keeps its order, and all of it when it is short enough.
LEMMA SliceKeeps ==
  ASSUME NEW q \in Seq(Int), NEW n \in Nat, Ordered(q, n)
  PROVE  /\ Slice(q) \in Seq(Int) /\ Ordered(Slice(q), n) /\ Len(Slice(q)) <= Len(q)
         /\ Len(q) <= Limit => Slice(q) = q
         /\ \A i \in 1..Len(Slice(q)) : Slice(q)[i] = q[i] /\ i \in 1..Len(q)
<1> DEFINE m == IF Len(q) < Limit THEN Len(q) ELSE Limit
<1>1. m \in 0..Len(q) /\ Len(q) \in Nat
  BY AccessAssumption
<1>2. Len(q) <= Limit => m = Len(q)
  BY AccessAssumption
<1>3. Slice(q) = SubSeq(q, 1, m)
  BY DEF Slice
<1> HIDE DEF m
<1>4. Slice(q) = [i \in 1..m |-> q[i]] /\ Slice(q) \in Seq(Int) /\ Len(Slice(q)) = m
  BY <1>1, <1>3
<1>5. Len(q) <= Limit => Slice(q) = q
  BY <1>1, <1>2, <1>4
<1>6. \A i \in 1..m : Slice(q)[i] = q[i] /\ i \in 1..Len(q)
  BY <1>1, <1>4
<1>7. Ordered(Slice(q), n)
  BY <1>1, <1>4, <1>6 DEF Ordered
<1> QED BY <1>1, <1>4, <1>5, <1>6, <1>7

\* New pieces come behind those before them.
LEMMA ExtendKeeps ==
  ASSUME NEW q \in Seq(Int), NEW n \in Nat, NEW k \in Nat,
         Ordered(q, n), NEW u \in Seq(Int), Len(u) <= k, \A i \in 1..Len(u) : u[i] = n + i
  PROVE  /\ q \o u \in Seq(Int) /\ Ordered(q \o u, n + k) /\ Len(q \o u) = Len(q) + Len(u)
         /\ q = Pieces(n) /\ Len(u) = k => q \o u = Pieces(n + k)
<1>1. Len(u) \in Nat /\ Len(q) \in Nat /\ Len(q \o u) = Len(q) + Len(u) /\ q \o u \in Seq(Int)
  OBVIOUS
<1> DEFINE long == q \o u
           l == Len(q)
           m == Len(u)
<1>0. l \in Nat /\ m \in 0..k /\ long \in Seq(Int) /\ Len(long) = l + m
      /\ DOMAIN q = 1..l /\ DOMAIN long = 1..(l + m)
  BY <1>1
<1>2. \A i \in 1..l : long[i] = q[i] /\ q[i] \in Int
  OBVIOUS
<1>a. \A i \in 1..l : q[i] <= n
  BY <1>0 DEF Ordered
<1>3. \A i \in (l + 1)..(l + m) : long[i] = n + (i - l) /\ i - l \in 1..m
  <2> TAKE i \in (l + 1)..(l + m)
  <2>1. i - l \in 1..m /\ i \in 1..(l + m) /\ i > l
    BY <1>0
  <2>2. long[i] = u[i - l]
    BY <1>1, <2>1
  <2> QED BY <2>1, <2>2
<1> HIDE DEF long, l, m
<1>4. \A i \in 1..(l + m) : i \in 1..l \/ i \in (l + 1)..(l + m)
  BY <1>0
<1>5. Ordered(long, n + k)
  <2> SUFFICES ASSUME NEW i \in 1..(l + m)
               PROVE  long[i] <= n + k /\ \A j \in 1..(l + m) : i < j => long[i] < long[j]
    BY <1>0 DEF Ordered
  <2>1. CASE i \in 1..l
    <3>1. long[i] = q[i] /\ q[i] <= n /\ q[i] \in Int
      BY <1>2, <1>a, <2>1
    <3>2. \A j \in 1..l : i < j => q[i] < q[j]
      BY <1>0, <2>1 DEF Ordered
    <3>3. \A j \in (l + 1)..(l + m) : long[i] < long[j]
      BY <1>0, <1>3, <3>1
    <3> QED BY <1>2, <1>4, <3>1, <3>2, <3>3
  <2>2. CASE i \in (l + 1)..(l + m)
    <3>2. \A j \in 1..(l + m) : i < j => j \in (l + 1)..(l + m)
      BY <1>0, <2>2
    <3>3. long[i] = n + (i - l) /\ i - l <= k /\ i \in Int /\ l \in Int
      <4>1. long[i] = n + (i - l) /\ i - l \in 1..m
        BY <1>3, <2>2
      <4> QED BY <1>0, <2>2, <4>1
    <3>4. ASSUME NEW j \in 1..(l + m), i < j PROVE long[i] < long[j]
      <4>1. long[j] = n + (j - l) /\ j \in Int
        BY <1>3, <3>2, <3>4
      <4> QED BY <3>3, <3>4, <4>1
    <3>5. long[i] <= n + k
      BY <3>3
    <3> QED BY <3>4, <3>5
  <2> QED BY <1>4, <2>1, <2>2
<1>6. ASSUME q = Pieces(n), m = k PROVE long = Pieces(n + k)
  <2>1. l = n /\ \A i \in 1..n : q[i] = i
    BY <1>6 DEF Pieces, l
  <2>a. l \in Nat /\ m \in Nat /\ l = n /\ m = k
    BY <1>0, <1>6, <2>1
  <2>b. \A i \in (n + 1)..(n + k) : long[i] = i
    <3> TAKE i \in (n + 1)..(n + k)
    <3>1. i \in (l + 1)..(l + m) /\ i \in Int /\ n + (i - l) = i
      BY <2>a
    <3> QED BY <1>3, <3>1
  <2>2. \A i \in 1..(n + k) : long[i] = i
    BY <1>2, <1>4, <2>1, <2>a, <2>b
  <2>3. DOMAIN long = 1..(n + k) /\ long \in Seq(Int)
    BY <1>0, <1>6, <2>1
  <2>4. long = [i \in 1..(n + k) |-> long[i]]
    BY <2>3
  <2> QED BY <2>2, <2>4 DEF Pieces
<1> QED BY <1>1, <1>5, <1>6 DEF long, m

\* Pieces that were typed are pieces within the bound.
LEMMA PiecesTyped ==
  ASSUME NEW q \in Seq(Int), \A i \in 1..Len(q) : q[i] \in 1..MaxInput
  PROVE  q \in Seq(1..MaxInput)
<1>1. Len(q) \in Nat /\ q = [i \in 1..Len(q) |-> q[i]]
  OBVIOUS
<1>2. [i \in 1..Len(q) |-> q[i]] \in Seq(1..MaxInput)
  BY <1>1
<1> QED BY <1>1, <1>2

LEMMA TypedPieces ==
  ASSUME NEW q \in Seq(1..MaxInput)
  PROVE  q \in Seq(Int) /\ Len(q) \in Nat /\ \A i \in 1..Len(q) : q[i] \in 1..MaxInput
<1>1. MaxInput \in Nat /\ \A i \in 1..Len(q) : q[i] \in 1..MaxInput
  BY AccessAssumption
<1>2. \A i \in 1..Len(q) : q[i] \in Int
  BY <1>1
<1> QED BY <1>1, <1>2

LEMMA InitAccess == AccessInit => AccessInv
<1> SUFFICES ASSUME AccessInit PROVE AccessInv
  OBVIOUS
<1>1. (CHOOSE t \in Ticket : TRUE) \in Ticket
  BY AccessAssumption
<1>2. \A s \in Socket : /\ terminal[s].step = "none" /\ typed[s] = 0
                        /\ pending[s] = <<>> /\ delivered[s] = <<>>
  BY DEF AccessInit, NoInput
<1>3. AccessShaped
  BY <1>1, AccessAssumption DEF AccessInit, AccessShaped, AccessTypeOK, NoInput, Kind
<1>4. Pieces(0) = <<>>
  BY DEF Pieces
<1>5. TicketOpensOneTerminal /\ TicketsUsed /\ NoStrayConnection /\ ClosedIsAbandoned /\ ShellsAreConnected
  BY <1>2 DEF AccessInit, TicketOpensOneTerminal, TicketsUsed, NoStrayConnection, ClosedIsAbandoned,
          ShellsAreConnected
<1>6. Ordered(<<>>, 0)
  BY DEF Ordered
<1>7. BufferInOrder /\ ShellInOrder
  BY <1>2, <1>4, <1>6 DEF BufferInOrder, ShellInOrder, Arrived
<1> QED BY <1>3, <1>5, <1>7 DEF AccessInv

\* A request's step leaves the terminals alone, and ends its connection with its work.
LEMMA RequestSteps ==
  ASSUME AccessInv, NEW r \in Request,
         \/ \E k \in Kind : Admit(r, k)
         \/ ConnectRequest(r) \/ RunWorkload(r) \/ WorkOnFiles(r)
         \/ Upload(r) \/ Download(r) \/ StreamEnds(r)
  PROVE  AccessInv'
<1>1. UNCHANGED <<ticket, terminal, typed, pending, delivered, trimmed, abandoned>>
  BY DEF Admit, ConnectRequest, RunWorkload, WorkOnFiles, Upload, Download, StreamEnds, terminalVars
<1>2. AccessTypeOK /\ request[r].step \in {"idle", "connecting", "working", "streaming"}
  BY DEF AccessInv, AccessShaped, AccessTypeOK
<1>3. audited' \subseteq Request
  BY <1>2 DEF AccessTypeOK, Admit, ConnectRequest, RunWorkload, WorkOnFiles, Upload, Download, StreamEnds
<1>4. \E row \in [kind : Kind, step : {"idle", "connecting", "working", "streaming"}] :
        /\ request' = [request EXCEPT ![r] = row]
        /\ conns' \subseteq conns \cup {r}
        /\ r \in conns' => row.step \in {"working", "streaming"}
  <2> DEFINE row(k, step) == [kind |-> k, step |-> step]
  <2>a. request[r] \in [kind : Kind, step : {"idle", "connecting", "working", "streaming"}]
    BY <1>2 DEF AccessTypeOK
  <2>b. \A step : [request[r] EXCEPT !.step = step] = row(request[r].kind, step)
    BY <2>a
  <2>0. /\ r \in conns => request[r].step \in {"working", "streaming"}
        /\ request[r].kind \in Kind
        /\ \A step : [request EXCEPT ![r].step = step] = [request EXCEPT ![r] = row(request[r].kind, step)]
        /\ \A k \in Kind, step \in {"idle", "connecting", "working", "streaming"} :
             /\ row(k, step) \in [kind : Kind, step : {"idle", "connecting", "working", "streaming"}]
             /\ row(k, step).step = step
    <3>1. r \in conns => request[r].step \in {"working", "streaming"}
      BY DEF AccessInv, NoStrayConnection
    <3>2. \A step : [request EXCEPT ![r].step = step] = [request EXCEPT ![r] = row(request[r].kind, step)]
      BY <2>b
    <3> QED BY <2>a, <3>1, <3>2
  <2> HIDE DEF row
  <2>1. ASSUME NEW k \in Kind, Admit(r, k) PROVE <1>4
    <3>1. request' = [request EXCEPT ![r] = row(k, "connecting")] /\ conns' = conns /\ r \notin conns
      BY <2>0, <2>1 DEF Admit, row
    <3> QED BY <2>0, <3>1
  <2>2. CASE ConnectRequest(r)
    <3>1. \/ request' = [request EXCEPT ![r] = row(request[r].kind, "working")] /\ conns' = conns \cup {r}
          \/ request' = [request EXCEPT ![r] = row(request[r].kind, "idle")] /\ conns' = conns /\ r \notin conns
      BY <2>0, <2>2 DEF ConnectRequest
    <3> QED BY <2>0, <3>1
  <2>3. CASE RunWorkload(r) \/ WorkOnFiles(r) \/ Upload(r) \/ Download(r) \/ StreamEnds(r)
    <3>1. \/ request' = [request EXCEPT ![r] = row(request[r].kind, "idle")] /\ conns' = conns \ {r}
          \/ request' = [request EXCEPT ![r] = row(request[r].kind, "streaming")] /\ conns' = conns
      BY <2>0, <2>3 DEF RunWorkload, WorkOnFiles, Upload, Download, StreamEnds, Finish
    <3> QED BY <2>0, <3>1
  <2> QED BY <2>1, <2>2, <2>3
<1>4a. PICK row \in [kind : Kind, step : {"idle", "connecting", "working", "streaming"}] :
        /\ request' = [request EXCEPT ![r] = row]
        /\ conns' \subseteq conns \cup {r}
        /\ r \in conns' => row.step \in {"working", "streaming"}
  BY <1>4
<1>5. \A q \in Request \ {r} : request'[q] = request[q]
  BY <1>2, <1>4a DEF AccessTypeOK
<1>6. AccessShaped'
  BY <1>1, <1>2, <1>3, <1>4a DEF AccessInv, AccessShaped, AccessTypeOK
<1>7. NoStrayConnection' /\ ShellsAreConnected'
  BY <1>1, <1>2, <1>4a, <1>5, AccessAssumption DEF AccessInv, NoStrayConnection, ShellsAreConnected, AccessTypeOK
<1> QED BY <1>1, <1>6, <1>7
     DEF AccessInv, TicketOpensOneTerminal, TicketsUsed, ClosedIsAbandoned, ShellsAreConnected, BufferInOrder, ShellInOrder, Arrived

LEMMA TicketSteps ==
  ASSUME AccessInv, NEW t \in Ticket, IssueTicket(t) \/ TicketExpires(t)
  PROVE  AccessInv'
<1>1. UNCHANGED <<request, conns, audited, terminal, typed, pending, delivered, trimmed, abandoned>>
  BY DEF IssueTicket, TicketExpires, terminalVars
<1>2. ticket' \in [Ticket -> {"none", "live", "gone"}] /\ \A u \in Ticket : ticket[u] = "gone" => ticket'[u] = "gone"
  BY DEF IssueTicket, TicketExpires, AccessInv, AccessShaped, AccessTypeOK
<1>3. \A s \in Socket : terminal[s].ticket \in Ticket
  BY DEF AccessInv, AccessShaped, AccessTypeOK
<1> QED BY <1>1, <1>2, <1>3
     DEF AccessInv, AccessShaped, AccessTypeOK, TicketOpensOneTerminal, TicketsUsed, NoStrayConnection,
         ClosedIsAbandoned, ShellsAreConnected, BufferInOrder, ShellInOrder, Arrived

TerminalRow == [ticket : Ticket, open : BOOLEAN,
                step : {"none", "ticket", "connecting", "shell", "open", "ended"}]

\* A socket's own step, whatever it is, leaves the others as they are.
LEMMA SocketKeeps ==
  ASSUME AccessInv, NEW s \in Socket, NEW row \in TerminalRow,
         terminal' = [terminal EXCEPT ![s] = row],
         ticket' \in [Ticket -> {"none", "live", "gone"}],
         \A t \in Ticket : ticket[t] = "gone" => ticket'[t] = "gone",
         row.step \in {"connecting", "shell", "open"} =>
           /\ ticket'[row.ticket] = "gone"
           /\ \/ ticket[row.ticket] = "live"
              \/ row.ticket = terminal[s].ticket /\ terminal[s].step \in {"connecting", "shell", "open"},
         conns' \subseteq conns \cup {s}, s \in conns' => row.step \in {"shell", "open"} /\ (row.open \/ s \in abandoned'),
         abandoned' \in SUBSET Socket, abandoned \subseteq abandoned',
         row.step \in {"ticket", "connecting", "shell", "open"} /\ ~row.open => s \in abandoned',
         typed' = typed, pending' \in [Socket -> Seq(1..MaxInput)], delivered' \in [Socket -> Seq(1..MaxInput)],
         \A u \in Socket \ {s} : pending'[u] = pending[u] /\ delivered'[u] = delivered[u],
         row.step \notin {"open", "ended"} => Arrived(s, pending'[s]),
         row.step = "open" => Arrived(s, delivered'[s]),
         UNCHANGED <<request, audited, trimmed>>
  PROVE  AccessInv'
<1>0. AccessTypeOK /\ \A u \in Socket : terminal[u] \in TerminalRow
  BY DEF AccessInv, AccessShaped, AccessTypeOK, TerminalRow
<1>1. terminal'[s] = row /\ \A u \in Socket \ {s} : terminal'[u] = terminal[u]
  BY <1>0 DEF AccessTypeOK
<1>2. AccessShaped'
  <2>1. terminal' \in [Socket -> TerminalRow]
    BY <1>0 DEF AccessTypeOK, TerminalRow
  <2>2. conns' \subseteq Request \cup Socket
    BY <1>0 DEF AccessTypeOK
  <2> QED BY <1>0, <2>1, <2>2 DEF AccessShaped, AccessTypeOK, TerminalRow
<1>3. TicketsUsed'
  BY <1>0, <1>1 DEF AccessInv, TicketsUsed, TerminalRow
<1>4. TicketOpensOneTerminal'
  <2> SUFFICES ASSUME NEW u \in Socket, NEW v \in Socket, u # v, terminal'[u].ticket = terminal'[v].ticket,
                      terminal'[u].step \in {"connecting", "shell", "open"},
                      terminal'[v].step \in {"connecting", "shell", "open"}
               PROVE  FALSE
    BY DEF TicketOpensOneTerminal
  <2>1. CASE u # s /\ v # s
    BY <1>1, <2>1 DEF AccessInv, TicketOpensOneTerminal
  <2>2. CASE u = s
    BY <1>0, <1>1, <2>2 DEF AccessInv, TicketOpensOneTerminal, TicketsUsed, TerminalRow
  <2>3. CASE v = s
    BY <1>0, <1>1, <2>3 DEF AccessInv, TicketOpensOneTerminal, TicketsUsed, TerminalRow
  <2> QED BY <2>1, <2>2, <2>3
<1>5. NoStrayConnection'
  BY <1>1, AccessAssumption DEF AccessInv, NoStrayConnection
<1>6. ClosedIsAbandoned' /\ ShellsAreConnected'
  BY <1>1 DEF AccessInv, ClosedIsAbandoned, ShellsAreConnected
<1>7. BufferInOrder'
  BY <1>1 DEF AccessInv, BufferInOrder, Arrived
<1>8. ShellInOrder'
  BY <1>1 DEF AccessInv, ShellInOrder, Arrived
<1> QED BY <1>2, <1>3, <1>4, <1>5, <1>6, <1>7, <1>8 DEF AccessInv

\* A row of terminal with a new step, or with a new step and closed.
LEMMA SocketSteps ==
  ASSUME AccessInv, NEW s \in Socket,
         \/ \E t \in Ticket : OpenSocket(s, t)
         \/ TakeTicket(s) \/ ConnectTerminal(s) \/ TerminalFails(s) \/ ShellOpens(s) \/ SocketCloses(s) \/ InvalidMessage(s)
  PROVE  AccessInv'
<1> DEFINE old == terminal[s]
<1>0. /\ terminal \in [Socket -> TerminalRow] /\ old \in TerminalRow
      /\ ticket \in [Ticket -> {"none", "live", "gone"}] /\ abandoned \in SUBSET Socket
      /\ pending \in [Socket -> Seq(1..MaxInput)] /\ delivered \in [Socket -> Seq(1..MaxInput)]
      /\ typed \in [Socket -> 0..MaxInput]
  BY DEF AccessInv, AccessShaped, AccessTypeOK, TerminalRow
<1>1. /\ old.step \in {"connecting", "shell", "open"} => ticket[old.ticket] = "gone"
      /\ s \in conns => old.step \in {"shell", "open"} /\ (old.open \/ s \in abandoned)
      /\ old.step \in {"ticket", "connecting", "shell", "open"} /\ ~old.open => s \in abandoned
      /\ old.step \notin {"open", "ended"} => Arrived(s, pending[s])
      /\ old.step = "open" => Arrived(s, delivered[s])
  BY DEF AccessInv, TicketsUsed, NoStrayConnection, ClosedIsAbandoned, ShellsAreConnected, BufferInOrder, ShellInOrder
<1>2. ASSUME NEW t \in Ticket, OpenSocket(s, t) PROVE AccessInv'
  <2> DEFINE row == [ticket |-> t, step |-> "ticket", open |-> TRUE]
  <2>1. /\ row \in TerminalRow /\ row.step = "ticket" /\ row.open
        /\ terminal' = [terminal EXCEPT ![s] = row] /\ old.step = "none"
        /\ UNCHANGED <<request, ticket, conns, audited, typed, pending, delivered, trimmed, abandoned>>
    BY <1>2 DEF OpenSocket, TerminalRow
  <2> HIDE DEF row
  <2> QED BY <1>0, <1>1, <2>1, SocketKeeps
<1>3. CASE TakeTicket(s)
  <2> DEFINE row == IF ticket[old.ticket] = "live" THEN [old EXCEPT !.step = "connecting"]
                    ELSE [old EXCEPT !.step = "ended", !.open = FALSE]
  <2>1. /\ terminal' = [terminal EXCEPT ![s] = row] /\ old.step = "ticket"
        /\ ticket' = [ticket EXCEPT ![old.ticket] = "gone"]
        /\ UNCHANGED <<request, conns, audited, typed, pending, delivered, trimmed, abandoned>>
    BY <1>0, <1>3 DEF TakeTicket, TicketTaken
  <2>2. /\ row \in TerminalRow /\ row.ticket = old.ticket /\ row.step \in {"connecting", "ended"}
        /\ row.step = "connecting" => ticket[old.ticket] = "live" /\ row.open = old.open
    BY <1>0 DEF TerminalRow
  <2>3. /\ ticket'[old.ticket] = "gone" /\ ticket' \in [Ticket -> {"none", "live", "gone"}]
        /\ \A t \in Ticket : ticket[t] = "gone" => ticket'[t] = "gone"
    BY <1>0, <2>1 DEF TerminalRow
  <2> HIDE DEF row
  <2> QED BY <1>0, <1>1, <2>1, <2>2, <2>3, SocketKeeps
<1>4. CASE ConnectTerminal(s)
  <2> DEFINE row == [old EXCEPT !.step = "shell"]
  <2>1. /\ terminal' = [terminal EXCEPT ![s] = row] /\ old.step = "connecting" /\ conns' = conns \cup {s}
        /\ UNCHANGED <<request, ticket, audited, typed, pending, delivered, trimmed, abandoned>>
    BY <1>0, <1>4 DEF ConnectTerminal, Advance
  <2>2. row \in TerminalRow /\ row.ticket = old.ticket /\ row.step = "shell" /\ row.open = old.open
    BY <1>0 DEF TerminalRow
  <2> HIDE DEF row
  <2> QED BY <1>0, <1>1, <2>1, <2>2, SocketKeeps
<1>5. CASE TerminalFails(s)
  <2> DEFINE row == [old EXCEPT !.step = "ended", !.open = FALSE]
  <2>1. /\ terminal' = [terminal EXCEPT ![s] = row] /\ conns' = conns \ {s}
        /\ UNCHANGED <<request, ticket, audited, typed, pending, delivered, trimmed, abandoned>>
    BY <1>0, <1>5 DEF TerminalFails
  <2>2. row \in TerminalRow /\ row.step = "ended"
    BY <1>0 DEF TerminalRow
  <2> HIDE DEF row
  <2> QED BY <1>0, <1>1, <2>1, <2>2, SocketKeeps
<1>6. CASE ShellOpens(s)
  <2> DEFINE row == [old EXCEPT !.step = "open"]
  <2>1. /\ terminal' = [terminal EXCEPT ![s] = row] /\ old.step = "shell"
        /\ delivered' = [delivered EXCEPT ![s] = pending[s]] /\ pending' = [pending EXCEPT ![s] = <<>>]
        /\ UNCHANGED <<request, ticket, conns, audited, typed, trimmed, abandoned>>
    BY <1>0, <1>6 DEF ShellOpens, Advance
  <2>2. row \in TerminalRow /\ row.ticket = old.ticket /\ row.step = "open" /\ row.open = old.open
    BY <1>0 DEF TerminalRow
  <2>3. /\ delivered' \in [Socket -> Seq(1..MaxInput)] /\ pending' \in [Socket -> Seq(1..MaxInput)]
        /\ Arrived(s, delivered'[s])
        /\ \A u \in Socket \ {s} : pending'[u] = pending[u] /\ delivered'[u] = delivered[u]
    BY <1>0, <1>1, <2>1
  <2> HIDE DEF row
  <2> QED BY <1>0, <1>1, <2>1, <2>2, <2>3, SocketKeeps
<1>7. CASE SocketCloses(s)
  <2> DEFINE row == [old EXCEPT !.open = FALSE, !.step = IF old.step \in {"shell", "open"} THEN "ended" ELSE old.step]
  <2>1. /\ terminal' = [terminal EXCEPT ![s] = row] /\ conns' = conns \ {s}
        /\ abandoned' = IF old.step \in {"ticket", "connecting"} THEN abandoned \cup {s} ELSE abandoned
        /\ UNCHANGED <<request, ticket, audited, typed, pending, delivered, trimmed>>
    BY <1>0, <1>7 DEF SocketCloses, ClosedConnections
  <2>2. /\ row \in TerminalRow /\ row.ticket = old.ticket /\ row.step \notin {"shell", "open"}
        /\ row.step = old.step \/ row.step = "ended"
    BY <1>0 DEF TerminalRow
  <2> HIDE DEF row
  <2> QED BY <1>0, <1>1, <2>1, <2>2, SocketKeeps
<1> QED BY <1>2, <1>3, <1>4, <1>5, <1>6, <1>7 DEF InvalidMessage

\* The n pieces behind the first m.
Behind(m, n) == [i \in 1..n |-> m + i]

\* What is cut of a message, and put behind the pieces that are there.
LEMMA InputAppends ==
  ASSUME NEW q \in Seq(1..MaxInput), NEW m \in Nat, NEW n \in Nat, m + n <= MaxInput,
         NEW input, input = Slice(Behind(m, n))
  PROVE  /\ q \o input \in Seq(1..MaxInput) /\ Slice(q \o input) \in Seq(1..MaxInput)
         /\ Ordered(q, m) => Ordered(q \o input, m + n) /\ Ordered(Slice(q \o input), m + n)
         /\ q = Pieces(m) /\ n <= Limit => q \o input = Pieces(m + n)
         /\ q = Pieces(m) /\ n <= Limit /\ Len(q) + n <= Limit => Slice(q \o input) = Pieces(m + n)
<1> DEFINE all == Behind(m, n)
           kept == IF n < Limit THEN n ELSE Limit
<1>0. MaxInput \in Nat /\ Limit \in Nat \ {0} /\ q \in Seq(Int) /\ (\A i \in 1..Len(q) : q[i] \in 1..MaxInput)
  BY AccessAssumption, TypedPieces
<1>1. kept \in 0..n /\ (n <= Limit => kept = n)
  BY <1>0
<1>2. all \in Seq(Int) /\ Len(all) = n
  BY DEF Behind
<1>3. input = [i \in 1..kept |-> m + i]
  BY <1>0, <1>1, <1>2 DEF Slice, Behind
<1>a. \A i \in 1..kept : input[i] = m + i
  BY <1>3
<1>4. input \in Seq(Int) /\ Len(input) = kept
  BY <1>1, <1>3
<1> HIDE DEF kept, all
<1>5. q \o input \in Seq(1..MaxInput)
  <2>1. \A i \in 1..Len(input) : input[i] \in 1..MaxInput
    BY <1>0, <1>1, <1>3, <1>4
  <2>2. input \in Seq(1..MaxInput)
    BY <1>4, <2>1, PiecesTyped
  <2> QED BY <2>2
<1>6. Slice(q \o input) \in Seq(1..MaxInput)
  <2> DEFINE long == q \o input
             cut == IF Len(long) < Limit THEN Len(long) ELSE Limit
  <2>1. cut \in 0..Len(long) /\ Len(long) \in Nat
    BY <1>0, <1>5
  <2>2. Slice(long) = SubSeq(long, 1, cut) /\ long \in Seq(1..MaxInput)
    BY <1>5 DEF Slice
  <2> HIDE DEF cut, long
  <2>3. SubSeq(long, 1, cut) \in Seq(Int) /\ Len(SubSeq(long, 1, cut)) = cut
        /\ \A i \in 1..cut : SubSeq(long, 1, cut)[i] = long[i]
    BY <2>1, <2>2, TypedPieces
  <2>4. \A i \in 1..cut : SubSeq(long, 1, cut)[i] \in 1..MaxInput
    BY <2>1, <2>2, <2>3, TypedPieces
  <2> QED BY <2>2, <2>3, <2>4, PiecesTyped DEF long
<1>7. ASSUME Ordered(q, m)
      PROVE  /\ Ordered(q \o input, m + n) /\ q \o input \in Seq(Int) /\ Len(q \o input) = Len(q) + kept
             /\ q = Pieces(m) /\ kept = n => q \o input = Pieces(m + n)
  <2>1. Len(input) <= n /\ \A i \in 1..Len(input) : input[i] = m + i
    BY <1>1, <1>4, <1>a
  <2>2. /\ q \o input \in Seq(Int) /\ Ordered(q \o input, m + n) /\ Len(q \o input) = Len(q) + Len(input)
        /\ q = Pieces(m) /\ Len(input) = n => q \o input = Pieces(m + n)
    <3>1. q \in Seq(Int) /\ input \in Seq(Int) /\ m \in Nat /\ n \in Nat
      BY <1>0, <1>4
    <3> QED BY ONLY <1>7, <2>1, <3>1, ExtendKeeps
  <2> QED BY <1>4, <2>2
<1>8. ASSUME Ordered(q, m)
      PROVE  /\ Ordered(Slice(q \o input), m + n)
             /\ Len(q \o input) <= Limit => Slice(q \o input) = q \o input
  <2>1. m + n \in Nat
    OBVIOUS
  <2> QED BY <1>7, <1>8, <2>1, SliceKeeps
<1>9. q = Pieces(m) => Ordered(q, m)
  BY DEF Ordered, Pieces
<1> QED BY <1>1, <1>5, <1>6, <1>7, <1>8, <1>9

\* What a message brings comes behind what is there, and what is cut is on record.
LEMMA InputKeeps ==
  ASSUME AccessInv, NEW s \in Socket, NEW n \in Length, Input(s, n)
  PROVE  AccessInv'
<1> DEFINE input == Slice([i \in 1..n |-> typed[s] + i])
<1>0. /\ AccessShaped /\ AccessTypeOK /\ typed[s] \in Nat /\ n \in Nat /\ Limit \in Nat
      /\ pending[s] \in Seq(1..MaxInput) /\ delivered[s] \in Seq(1..MaxInput)
  BY AccessAssumption DEF AccessInv, AccessShaped, AccessTypeOK
<1>1. /\ terminal[s].open /\ typed[s] + n <= MaxInput /\ typed' = [typed EXCEPT ![s] = typed[s] + n]
      /\ UNCHANGED <<request, ticket, conns, audited, terminal, abandoned>>
  BY <1>0 DEF Input, AccessTypeOK
<1>2. typed'[s] = typed[s] + n /\ typed' \in [Socket -> 0..MaxInput]
      /\ \A v \in Socket \ {s} : typed'[v] = typed[v]
  <2>1. typed[s] + n \in 0..MaxInput
    BY <1>0, <1>1, AccessAssumption
  <2> QED BY <1>0, <1>1, <2>1 DEF AccessTypeOK
<1>4. trimmed \subseteq trimmed' /\ trimmed' \subseteq trimmed \cup {s}
      /\ (s \notin trimmed' => n <= Limit /\ (terminal[s].step # "open" => Len(pending[s]) + n <= Limit))
  BY <1>0 DEF Input
<1>5. trimmed' \subseteq Socket
  BY <1>0, <1>4 DEF AccessTypeOK
<1>6. /\ delivered' = IF terminal[s].step = "open" THEN [delivered EXCEPT ![s] = delivered[s] \o input] ELSE delivered
      /\ pending' = IF terminal[s].step = "open" THEN pending ELSE [pending EXCEPT ![s] = Slice(pending[s] \o input)]
  BY <1>0 DEF Input, AccessShaped
<1> DEFINE given == delivered[s] \o input
           held == Slice(pending[s] \o input)
<1>7. /\ given \in Seq(1..MaxInput)
      /\ Ordered(delivered[s], typed[s]) => Ordered(given, typed[s] + n)
      /\ delivered[s] = Pieces(typed[s]) /\ n <= Limit => given = Pieces(typed[s] + n)
  <2> HIDE DEF input
  <2>1. input = Slice(Behind(typed[s], n))
    BY DEF input, Behind
  <2>2. typed[s] \in Nat /\ n \in Nat /\ typed[s] + n <= MaxInput
        /\ pending[s] \in Seq(1..MaxInput) /\ delivered[s] \in Seq(1..MaxInput)
    BY <1>0, <1>1
  <2> QED BY ONLY <2>1, <2>2, InputAppends
<1>8. /\ held \in Seq(1..MaxInput)
      /\ Ordered(pending[s], typed[s]) => Ordered(held, typed[s] + n)
      /\ pending[s] = Pieces(typed[s]) /\ n <= Limit /\ Len(pending[s]) + n <= Limit => held = Pieces(typed[s] + n)
  <2> HIDE DEF input
  <2>1. input = Slice(Behind(typed[s], n))
    BY DEF input, Behind
  <2>2. typed[s] \in Nat /\ n \in Nat /\ typed[s] + n <= MaxInput
        /\ pending[s] \in Seq(1..MaxInput) /\ delivered[s] \in Seq(1..MaxInput)
    BY <1>0, <1>1
  <2> QED BY ONLY <2>1, <2>2, InputAppends
<1> HIDE DEF input, given, held
<1>9. /\ delivered' \in [Socket -> Seq(1..MaxInput)] /\ pending' \in [Socket -> Seq(1..MaxInput)]
      /\ \A v \in Socket \ {s} : delivered'[v] = delivered[v] /\ pending'[v] = pending[v]
      /\ terminal[s].step = "open" => delivered'[s] = given
      /\ terminal[s].step # "open" => pending'[s] = held
  BY <1>0, <1>6, <1>7, <1>8 DEF AccessShaped, given, held
<1>10. AccessShaped'
  BY <1>0, <1>1, <1>2, <1>5, <1>9 DEF AccessShaped, AccessTypeOK
<1>11. terminal[s].step = "open" => Arrived(s, delivered[s])'
  <2>1. terminal[s].step = "open" => Arrived(s, delivered[s])
    BY DEF AccessInv, ShellInOrder
  <2> QED BY <1>2, <1>4, <1>7, <1>9, <2>1 DEF Arrived
<1>12. terminal[s].step \notin {"open", "ended"} => Arrived(s, pending[s])'
  <2>1. terminal[s].step \notin {"open", "ended"} => Arrived(s, pending[s])
    BY DEF AccessInv, BufferInOrder
  <2> QED BY <1>2, <1>4, <1>8, <1>9, <2>1 DEF Arrived
<1>13. ASSUME NEW v \in Socket \ {s}
       PROVE  /\ Arrived(v, delivered[v]) => Arrived(v, delivered[v])'
              /\ Arrived(v, pending[v]) => Arrived(v, pending[v])'
  BY <1>2, <1>4, <1>9, <1>13 DEF Arrived
<1>14. BufferInOrder' /\ ShellInOrder'
  BY <1>1, <1>11, <1>12, <1>13 DEF AccessInv, BufferInOrder, ShellInOrder
<1> QED BY <1>1, <1>10, <1>14
        DEF AccessInv, TicketOpensOneTerminal, TicketsUsed, NoStrayConnection, ClosedIsAbandoned, ShellsAreConnected

LEMMA NextAccess == AccessInv /\ [AccessNext]_accessVars => AccessInv'
<1> SUFFICES ASSUME AccessInv, [AccessNext]_accessVars PROVE AccessInv'
  OBVIOUS
<1>1. CASE UNCHANGED accessVars
  BY <1>1 DEF AccessInv, AccessShaped, AccessTypeOK, TicketOpensOneTerminal, TicketsUsed, NoStrayConnection,
              ClosedIsAbandoned, ShellsAreConnected, BufferInOrder, ShellInOrder, Arrived, accessVars, terminalVars
<1>2. CASE AccessNext
  BY <1>2, RequestSteps, TicketSteps, SocketSteps, InputKeeps DEF AccessNext
<1> QED BY <1>1, <1>2

\* However requests, sockets, tickets and failures interleave: one ticket opens one
\* terminal, no SSH connection outlives what it was opened for, but that of a socket that
\* closed while it was made, and a shell gets its input once and in order, all of it
\* unless it went beyond the limits that cut it (routes/access.ts).
THEOREM TerminalsStaySound == AccessSpec => []TerminalsAreSound
<1>1. AccessInv => TerminalsAreSound
  BY DEF AccessInv, TerminalsAreSound, ShellInOrder, InputInOrder, Arrived, Ordered, Pieces
<1> QED BY <1>1, InitAccess, NextAccess, PTL DEF AccessSpec

-----------------------------------------------------------------------------
(* Startup. The migrations before the one a process is at are recorded;    *)
(* the lock is held by the one process that migrates; and a process that   *)
(* is past its migrations has recorded them all.                           *)

StarterRow == [step : Migrating \cup {"lock", "seed", "bootstrap", "up", "exit"},
               at : 1..6, attempt : 1..MaxAttempts, failed : BOOLEAN]

\* The migrations before the one a process is at are recorded, and one that is past
\* its migrations has recorded them all.
Progress(row, done, seeded) ==
    /\ row.step \in {"check", "apply"} => 1..(row.at - 1) \subseteq done
    /\ row.step = "apply" => row.at \in Migrations
    /\ row.step = "unlock" /\ ~row.failed => done = Migrations
    /\ row.step \in {"seed", "bootstrap", "up"} => done = Migrations
    /\ row.step \in {"bootstrap", "up"} => seeded

StartupInv == StartupTypeOK /\ MigratorsTakeTurns /\ SchemaMatchesRecord
                /\ \A s \in Starter : Progress(starter[s], recorded, plans)

LEMMA FreshRow == Fresh \in StarterRow /\ Fresh.step = "lock"
BY StartupAssumption DEF Fresh, StarterRow

LEMMA InitStartup == StartupInit => StartupInv
<1> SUFFICES ASSUME StartupInit PROVE StartupInv
  OBVIOUS
<1>1. \A s \in Starter : starter[s] = Fresh /\ starter[s].step = "lock"
  BY FreshRow DEF StartupInit
<1>2. StartupTypeOK
  <2>1. /\ startupFaults \in 0..MaxStartupFaults
        /\ effects \in [Migrations -> Nat] /\ recorded \subseteq Migrations
    BY StartupAssumption DEF StartupInit
  <2> QED BY <2>1, FreshRow DEF StartupInit, StartupTypeOK, StarterRow
<1>3. MigratorsTakeTurns /\ \A s \in Starter : Progress(starter[s], recorded, plans)
  BY <1>1 DEF MigratorsTakeTurns, Progress
<1>4. SchemaMatchesRecord
  BY <1>1 DEF StartupInit, SchemaMatchesRecord, At
<1> QED BY <1>2, <1>3, <1>4 DEF StartupInv

\* A process goes on without committing a migration: the lock is its own if it is
\* migrating, and the others keep their progress.
LEMMA StarterKeeps ==
  ASSUME StartupInv, NEW s \in Starter, NEW row \in StarterRow,
         starter' = [starter EXCEPT ![s] = row],
         UNCHANGED <<recorded, effects>>, plans' \in BOOLEAN, plans => plans',
         administrator' \in {"none", "user", "super_admin"}, startupFaults' \in 0..MaxStartupFaults,
         holder' \in Starter \cup {"none"},
         \A u \in Starter \ {s} : holder = u => holder' = u,
         row.step \in {"check", "apply"} => holder' = s,
         Progress(row, recorded', plans')
  PROVE  StartupInv'
<1>0. StartupTypeOK /\ starter \in [Starter -> StarterRow]
  BY DEF StartupInv, StartupTypeOK, StarterRow
<1>1. starter'[s] = row /\ \A u \in Starter \ {s} : starter'[u] = starter[u]
  BY <1>0
<1>2. StartupTypeOK'
  BY <1>0 DEF StartupTypeOK, StarterRow
<1>3. MigratorsTakeTurns'
  BY <1>1 DEF StartupInv, MigratorsTakeTurns
<1>4. \A u \in Starter : Progress(starter[u], recorded, plans)'
  BY <1>1 DEF StartupInv, Progress
<1>5. SchemaMatchesRecord'
  BY <1>4 DEF StartupInv, SchemaMatchesRecord, At, Progress
<1> QED BY <1>2, <1>3, <1>4, <1>5 DEF StartupInv

LEMMA CommitKeeps ==
  ASSUME StartupInv, NEW s \in Starter, CommitMigration(s)
  PROVE  StartupInv'
<1> DEFINE m == starter[s].at
           row == [starter[s] EXCEPT !.step = "check", !.at = m + 1]
<1>0. StartupTypeOK /\ starter \in [Starter -> StarterRow] /\ starter[s] \in StarterRow /\ Progress(starter[s], recorded, plans)
  BY DEF StartupInv, StartupTypeOK, StarterRow
<1>1. /\ starter[s].step = "apply" /\ m \in 1..5 /\ m \notin recorded /\ 1..(m - 1) \subseteq recorded
      /\ recorded' = recorded \cup {m} /\ effects' = [effects EXCEPT ![m] = effects[m] + 1]
      /\ UNCHANGED <<holder, plans, administrator, startupFaults>>
  BY <1>0 DEF CommitMigration, At, Progress, StartupTypeOK, Migrations
<1>2. starter' = [starter EXCEPT ![s] = row] /\ row \in StarterRow /\ row.step = "check" /\ row.at = m + 1
  BY <1>0, <1>1 DEF CommitMigration, StarterRow, Migrating
<1> HIDE DEF row
<1>3. starter'[s] = row /\ \A u \in Starter \ {s} : starter'[u] = starter[u]
  BY <1>0, <1>2
\* Only the holder of the lock is between the check and the commit.
<1>4. holder = s /\ \A u \in Starter \ {s} : starter[u].step \notin {"check", "apply"}
  BY <1>1 DEF StartupInv, MigratorsTakeTurns
<1>5. recorded # Migrations /\ m \in Migrations
  BY <1>1 DEF Migrations
<1>6. \A u \in Starter : Progress(starter[u], recorded, plans)'
  <2>1. Progress(row, recorded', plans')
    <3>1. 1..(row.at - 1) \subseteq recorded'
      BY <1>1, <1>2
    <3> QED BY <1>2, <3>1 DEF Progress
  <2>2. \A u \in Starter \ {s} : Progress(starter[u], recorded, plans)'
    BY <1>1, <1>3, <1>4, <1>5 DEF StartupInv, Progress
  <2> QED BY <1>3, <2>1, <2>2
<1>7. StartupTypeOK'
  BY <1>0, <1>1, <1>2, <1>5 DEF StartupTypeOK, StarterRow
<1>8. SchemaMatchesRecord'
  <2>1. \A k \in Migrations : effects'[k] = IF k \in recorded' THEN 1 ELSE 0
    BY <1>0, <1>1, <1>5 DEF StartupInv, SchemaMatchesRecord, StartupTypeOK
  <2>2. \A k \in recorded' : 1..k \subseteq recorded'
    BY <1>1 DEF StartupInv, SchemaMatchesRecord
  <2>3. \A u \in Starter : ~At(u, "up")'
    BY <1>2, <1>3, <1>5 DEF StartupInv, SchemaMatchesRecord, At
  <2> QED BY <2>1, <2>2, <2>3 DEF SchemaMatchesRecord
<1>9. MigratorsTakeTurns'
  BY <1>1, <1>3, <1>4 DEF MigratorsTakeTurns
<1> QED BY <1>6, <1>7, <1>8, <1>9 DEF StartupInv

LEMMA StarterSteps ==
  ASSUME StartupInv, NEW s \in Starter,
         \/ AcquireAdvisoryLock(s) \/ CheckMigration(s) \/ Unlock(s) \/ SeedPlans(s)
         \/ EnsureBootstrapAdmin(s) \/ StatementFails(s) \/ RestartProcess(s)
  PROVE  StartupInv'
<1> DEFINE old == starter[s]
<1>0. /\ starter \in [Starter -> StarterRow] /\ old \in StarterRow /\ Progress(old, recorded, plans)
      /\ recorded \subseteq Migrations /\ plans \in BOOLEAN /\ holder \in Starter \cup {"none"}
      /\ administrator \in {"none", "user", "super_admin"} /\ startupFaults \in 0..MaxStartupFaults
      /\ old.step \in {"check", "apply"} => holder = s
      /\ MaxStartupFaults \in Nat /\ MaxAttempts \in Nat \ {0}
  BY StartupAssumption DEF StartupInv, StartupTypeOK, StarterRow, MigratorsTakeTurns
<1>1. CASE AcquireAdvisoryLock(s)
  <2> DEFINE row == [old EXCEPT !.step = "check", !.at = 1, !.failed = FALSE]
  <2>1. /\ starter' = [starter EXCEPT ![s] = row] /\ holder = "none" /\ holder' = s
        /\ UNCHANGED <<recorded, effects, plans, administrator, startupFaults>>
    BY <1>0, <1>1 DEF AcquireAdvisoryLock, Free
  <2>2. row \in StarterRow /\ row.step = "check" /\ row.at = 1
    <3>1. "check" \in Migrating \cup {"lock", "seed", "bootstrap", "up", "exit"} /\ 1 \in 1..6
      BY DEF Migrating
    <3> QED BY <1>0, <3>1 DEF StarterRow
  <2> HIDE DEF row
  <2>3. Progress(row, recorded', plans')
    BY <2>2 DEF Progress
  <2> QED BY <1>0, <2>1, <2>2, <2>3, StartupAssumption, StarterKeeps
<1>2. CASE CheckMigration(s)
  <2>0. /\ old.step = "check" /\ holder = s
        /\ UNCHANGED <<holder, recorded, effects, plans, administrator, startupFaults>>
    BY <1>0, <1>2 DEF CheckMigration, At
  <2>1. CASE old.at \notin Migrations
    <3> DEFINE row == [old EXCEPT !.step = "unlock"]
    <3>1. starter' = [starter EXCEPT ![s] = row] /\ old.at = 6
      <4>1. old.at = 6
        BY <1>0, <2>1 DEF StarterRow, Migrations
      <4> QED BY <1>0, <1>2, <2>1, <4>1 DEF CheckMigration
    <3>2. row \in StarterRow /\ row.step = "unlock"
      BY <1>0 DEF StarterRow, Migrating
    <3> HIDE DEF row
    <3>3. recorded = Migrations
      <4>1. 1..5 \subseteq recorded
        BY <1>0, <2>0, <3>1 DEF Progress
      <4> QED BY <1>0, <4>1 DEF Migrations
    <3>4. Progress(row, recorded', plans')
      BY <2>0, <3>2, <3>3 DEF Progress
    <3> QED BY <1>0, <2>0, <3>1, <3>2, <3>4, StarterKeeps
  <2>2. CASE old.at \in Migrations /\ old.at \in recorded
    <3> DEFINE row == [old EXCEPT !.at = old.at + 1]
    <3>1. starter' = [starter EXCEPT ![s] = row]
      BY <1>0, <1>2, <2>2 DEF CheckMigration
    <3>2. row \in StarterRow /\ row.step = "check" /\ row.at = old.at + 1 /\ old.at \in 1..5
      BY <1>0, <2>0, <2>2 DEF StarterRow, Migrations
    <3> HIDE DEF row
    <3>3. 1..(row.at - 1) \subseteq recorded
      BY <1>0, <2>0, <2>2, <3>2 DEF Progress
    <3>4. Progress(row, recorded', plans')
      BY <2>0, <3>2, <3>3 DEF Progress
    <3> QED BY <1>0, <2>0, <3>1, <3>2, <3>4, StarterKeeps
  <2>3. CASE old.at \in Migrations /\ old.at \notin recorded
    <3> DEFINE row == [old EXCEPT !.step = "apply"]
    <3>1. starter' = [starter EXCEPT ![s] = row]
      BY <1>0, <1>2, <2>3 DEF CheckMigration
    <3>2. row \in StarterRow /\ row.step = "apply" /\ row.at = old.at
      BY <1>0 DEF StarterRow, Migrating
    <3> HIDE DEF row
    <3>3. Progress(row, recorded', plans')
      BY <1>0, <2>0, <2>3, <3>2 DEF Progress
    <3> QED BY <1>0, <2>0, <3>1, <3>2, <3>3, StarterKeeps
  <2> QED BY <2>1, <2>2, <2>3
<1>3. CASE Unlock(s)
  <2>0. /\ old.step = "unlock" /\ holder' = IF holder = s THEN "none" ELSE holder
        /\ UNCHANGED <<recorded, effects, plans, administrator, startupFaults>>
    BY <1>3 DEF Unlock, At
  <2> DEFINE row == CASE ~old.failed              -> [old EXCEPT !.step = "seed"]
                      [] old.attempt = MaxAttempts -> [old EXCEPT !.step = "exit"]
                      [] OTHER                     -> [Fresh EXCEPT !.attempt = old.attempt + 1]
  <2>1. starter' = [starter EXCEPT ![s] = row]
    BY <1>0, <1>3 DEF Unlock
  <2>2. row \in StarterRow /\ row.step \in {"seed", "exit", "lock"} /\ (row.step = "seed" => ~old.failed)
    <3>1. CASE ~old.failed
      BY <1>0, <3>1 DEF StarterRow
    <3>2. CASE old.failed /\ old.attempt = MaxAttempts
      BY <1>0, <3>2 DEF StarterRow
    <3>3. CASE old.failed /\ old.attempt # MaxAttempts
      <4>1. old.attempt + 1 \in 1..MaxAttempts
        BY <1>0, <3>3 DEF StarterRow
      <4>2. row = [Fresh EXCEPT !.attempt = old.attempt + 1]
        BY <1>0, <3>3 DEF StarterRow
      <4> HIDE DEF row
      <4>3. /\ [Fresh EXCEPT !.attempt = old.attempt + 1].step = "lock"
            /\ [Fresh EXCEPT !.attempt = old.attempt + 1] \in StarterRow
        BY <4>1, FreshRow DEF StarterRow, Fresh
      <4> QED BY <4>2, <4>3
    <3> QED BY <1>0, <3>1, <3>2, <3>3
  <2> HIDE DEF row
  <2>3. Progress(row, recorded', plans')
    BY <1>0, <2>0, <2>2 DEF Progress
  <2> QED BY <1>0, <2>0, <2>1, <2>2, <2>3, StarterKeeps
<1>4. CASE SeedPlans(s) \/ EnsureBootstrapAdmin(s)
  <2>0. /\ old.step \in {"seed", "bootstrap"} /\ UNCHANGED <<holder, recorded, effects, startupFaults>>
        /\ plans' = TRUE /\ recorded = Migrations /\ administrator' \in {administrator, "super_admin"}
    BY <1>0, <1>4 DEF SeedPlans, EnsureBootstrapAdmin, At, Progress
  <2>1. PICK step \in {"up", "bootstrap"} : starter' = [starter EXCEPT ![s].step = step]
    BY <1>4 DEF SeedPlans, EnsureBootstrapAdmin, Go
  <2> DEFINE row == [old EXCEPT !.step = step]
  <2>2. starter' = [starter EXCEPT ![s] = row] /\ row \in StarterRow /\ row.step = step
    BY <1>0, <2>1 DEF StarterRow
  <2> HIDE DEF row
  <2>3. Progress(row, recorded', plans')
    BY <1>0, <2>0, <2>2 DEF Progress
  <2> QED BY <1>0, <2>0, <2>2, <2>3, StarterKeeps
<1>5. CASE StatementFails(s)
  <2> DEFINE row == [old EXCEPT !.step = "unlock", !.failed = TRUE]
  <2>1. /\ starter' = [starter EXCEPT ![s] = row]
        /\ startupFaults < MaxStartupFaults /\ startupFaults' = startupFaults + 1
        /\ UNCHANGED <<holder, recorded, effects, plans, administrator>>
    BY <1>0, <1>5 DEF StatementFails, RolledBack
  <2>4. startupFaults' \in 0..MaxStartupFaults
    BY <1>0, <2>1
  <2>2. row \in StarterRow /\ row.step = "unlock" /\ row.failed
    BY <1>0 DEF StarterRow, Migrating
  <2> HIDE DEF row
  <2>3. Progress(row, recorded', plans')
    BY <2>2 DEF Progress
  <2> QED BY <1>0, <2>1, <2>2, <2>3, <2>4, StarterKeeps
<1>6. CASE RestartProcess(s)
  <2>1. /\ starter' = [starter EXCEPT ![s] = Fresh] /\ startupFaults' \in 0..MaxStartupFaults
        /\ holder' = IF holder = s THEN "none" ELSE holder
        /\ UNCHANGED <<recorded, effects, plans, administrator>>
    BY <1>0, <1>6 DEF RestartProcess, RolledBack
  <2>2. Progress(Fresh, recorded', plans')
    BY FreshRow DEF Progress
  <2> QED BY <1>0, <2>1, <2>2, FreshRow, StarterKeeps
<1> QED BY <1>1, <1>2, <1>3, <1>4, <1>5, <1>6

LEMMA NextStartup == StartupInv /\ [StartupNext]_startupVars => StartupInv'
<1> SUFFICES ASSUME StartupInv, [StartupNext]_startupVars PROVE StartupInv'
  OBVIOUS
<1>1. CASE UNCHANGED startupVars
  BY <1>1 DEF StartupInv, StartupTypeOK, MigratorsTakeTurns, SchemaMatchesRecord, At, Progress, startupVars
<1>2. CASE RegisterAdministrator
  BY <1>2 DEF RegisterAdministrator, StartupInv, StartupTypeOK, MigratorsTakeTurns, SchemaMatchesRecord, At, Progress
<1> QED BY <1>1, <1>2, StarterSteps, CommitKeeps DEF StartupNext

\* However many processes start at once, whatever fails and whichever of them die:
\* migrations are applied one at a time, each recorded one took effect exactly once and
\* no other did, and a process that is up runs on all of them (db/migrate.ts).
THEOREM StartupStaysExclusive == StartupSpec => []StartupIsExclusive
<1>1. StartupInv => StartupIsExclusive
  BY DEF StartupInv, StartupIsExclusive
<1> QED BY <1>1, InitStartup, NextStartup, PTL DEF StartupSpec

-----------------------------------------------------------------------------
(* Billing. A subscription and a licence speak for purchases of their own  *)
(* kind, with the status of the transaction committed last; a handler past *)
(* the search for the owner has a transaction, and one that marks its      *)
(* notification has written it.                                            *)

\* Rows, as far as the proofs need their types.
RowTypes ==
    /\ txns \in [Txn -> BillingState \cup {"none"}]
    /\ latestTxn \in [Purchase -> Txn \cup {NoTxn}]
    /\ eventStatus \in [Event -> {"none", "received", "processed", "ignored", "failed"}]
    /\ sent \in [Event -> {Unsent} \cup [txn : Txn, state : BillingState]
                            \cup [txn : {NoTxn}, state : {"active"}]]
    /\ processing \subseteq [event : Event, step : HandlerStep]
    /\ submitting \subseteq [txn : Txn, state : SubmittedState]
    /\ early \subseteq answered /\ answered \subseteq Event

\* A subscription is of a hosted purchase and a licence of one that is not, so that a
\* transaction of the one never speaks for the other.
RowsFollow ==
    /\ subscription.source = "apple_store" =>
         LET p == subscription.purchase
         IN /\ p \in DOMAIN HostedPlan /\ latestTxn[p] \in Txn /\ Bought[latestTxn[p]] = p
            /\ subscription.status = Entitled(txns[latestTxn[p]])
    /\ license.txn # NoTxn =>
         /\ license.txn \in Txn /\ Bought[license.txn] \notin DOMAIN HostedPlan
         /\ license.status = Entitled(txns[license.txn])

\* The one handler of a received notification: past the search for the owner it has a
\* transaction, and when it marks the notification it has written it.
HandlersFollow ==
    /\ \A j \in processing : /\ sent[j.event] # Unsent /\ eventStatus[j.event] = "received"
                             /\ j.step # "resolve" => sent[j.event].txn \in Txn
                                                       /\ sent[j.event].state \in BillingState
                             /\ j.step = "mark" => j.event \in persisted
    /\ \A j, k \in processing : j.event = k.event => j = k
    /\ AnsweredIsPersisted

BillingInv == RowTypes /\ RowsFollow /\ HandlersFollow

LEMMA InitBilling == BillingInit => BillingInv
<1> SUFFICES ASSUME BillingInit PROVE BillingInv
  OBVIOUS
<1>1. RowTypes
  BY DEF BillingInit, RowTypes
<1>2. RowsFollow /\ HandlersFollow
  BY DEF BillingInit, RowsFollow, HandlersFollow, AnsweredIsPersisted
<1> QED BY <1>1, <1>2 DEF BillingInv

\* Both rows of a purchase are written at once: the entitlement follows.
LEMMA PersistFollows ==
  ASSUME RowTypes, RowsFollow, NEW t \in Txn, NEW state \in BillingState, PersistApplePurchase(t, state)
  PROVE  /\ RowsFollow'
         /\ txns' \in [Txn -> BillingState \cup {"none"}] /\ latestTxn' \in [Purchase -> Txn \cup {NoTxn}]
         /\ subscription = Manual("scale") => subscription' = subscription
<1>1. txns' = [txns EXCEPT ![t] = state] /\ latestTxn' = [latestTxn EXCEPT ![Bought[t]] = t]
  BY DEF PersistApplePurchase, StoreTransaction
<1>2. Bought[t] \in Purchase /\ DOMAIN HostedPlan \subseteq Purchase /\ Bought \in [Txn -> Purchase]
  BY BillingAssumption
<1>3. /\ txns' \in [Txn -> BillingState \cup {"none"}] /\ latestTxn' \in [Purchase -> Txn \cup {NoTxn}]
      /\ txns'[t] = state /\ latestTxn'[Bought[t]] = t
      /\ \A u \in Txn \ {t} : txns'[u] = txns[u]
      /\ \A p \in Purchase \ {Bought[t]} : latestTxn'[p] = latestTxn[p]
  BY <1>1, <1>2 DEF RowTypes
<1>4. CASE Bought[t] \in DOMAIN HostedPlan
  <2>1. license' = license
    BY <1>4 DEF PersistApplePurchase, Entitle
  <2>2. license'.txn # NoTxn => /\ license'.txn \in Txn /\ Bought[license'.txn] \notin DOMAIN HostedPlan
                                /\ license'.status = Entitled(txns'[license'.txn])
    BY <1>3, <1>4, <2>1 DEF RowsFollow, Entitled
  <2>3. CASE Writable
    <3>1. subscription' = [source |-> "apple_store", plan |-> HostedPlan[Bought[t]],
                           status |-> Entitled(state), purchase |-> Bought[t]]
      BY <1>4, <2>3 DEF PersistApplePurchase, Entitle
    <3>2. subscription # Manual("scale")
      BY <2>3 DEF Writable, Manual
    <3> QED BY <1>3, <1>4, <2>2, <3>1, <3>2 DEF RowsFollow, Entitled
  <2>4. CASE ~Writable
    <3>1. subscription' = subscription /\ subscription.source = "manual"
      BY <1>4, <2>4 DEF PersistApplePurchase, Entitle, Writable
    <3> QED BY <1>3, <2>2, <3>1 DEF RowsFollow
  <2> QED BY <2>3, <2>4
<1>5. CASE Bought[t] \notin DOMAIN HostedPlan
  <2>1. subscription' = subscription /\ license' = [txn |-> t, status |-> Entitled(state)]
    BY <1>5 DEF PersistApplePurchase, Entitle
  <2>2. subscription.source = "apple_store" =>
           LET p == subscription.purchase
           IN /\ p \in DOMAIN HostedPlan /\ latestTxn'[p] \in Txn /\ Bought[latestTxn'[p]] = p
              /\ subscription.status = Entitled(txns'[latestTxn'[p]])
    <3> SUFFICES ASSUME subscription.source = "apple_store"
                 PROVE  LET p == subscription.purchase
                        IN /\ p \in DOMAIN HostedPlan /\ latestTxn'[p] \in Txn /\ Bought[latestTxn'[p]] = p
                           /\ subscription.status = Entitled(txns'[latestTxn'[p]])
      OBVIOUS
    <3> DEFINE p == subscription.purchase
    <3>1. p \in DOMAIN HostedPlan /\ latestTxn[p] \in Txn /\ Bought[latestTxn[p]] = p
          /\ subscription.status = Entitled(txns[latestTxn[p]])
      BY DEF RowsFollow
    <3>2. p # Bought[t] /\ latestTxn'[p] = latestTxn[p] /\ latestTxn[p] # t
      BY <1>2, <1>3, <1>5, <3>1
    <3>3. txns'[latestTxn'[p]] = txns[latestTxn[p]]
      BY <1>3, <3>1, <3>2
    <3> QED BY <3>1, <3>2, <3>3 DEF Entitled
  <2> QED BY <1>3, <1>5, <2>1, <2>2 DEF RowsFollow, Entitled
<1> QED BY <1>4, <1>5, <1>3

LEMMA NotifyKeeps ==
  ASSUME BillingInv, NEW e \in Event, Notify(e)
  PROVE  BillingInv'
<1> USE DEF BillingInv
<1>1. sent[e] = Unsent /\ UNCHANGED <<eventStatus, processing, submitting, persisted, answered, early>>
      /\ UNCHANGED <<txns, latestTxn, subscription, license>>
  BY DEF Notify, rowVars, answerVars
<1>2. PICK n \in [txn : Txn, state : BillingState] \cup [txn : {NoTxn}, state : {"active"}] :
        sent' = [sent EXCEPT ![e] = n]
  BY BillingAssumption DEF Notify, BillingState
<1>3. \A j \in processing : j.event \in Event \ {e}
  BY <1>1 DEF RowTypes, HandlersFollow
<1>4. /\ \A f \in Event \ {e} : sent'[f] = sent[f]
      /\ sent' \in [Event -> {Unsent} \cup [txn : Txn, state : BillingState] \cup [txn : {NoTxn}, state : {"active"}]]
  BY <1>2 DEF RowTypes
<1>5. RowTypes'
  BY <1>1, <1>4 DEF RowTypes
<1>6. RowsFollow'
  BY <1>1 DEF RowsFollow
<1>7. HandlersFollow'
  BY <1>1, <1>3, <1>4 DEF HandlersFollow, AnsweredIsPersisted
<1> QED BY <1>5, <1>6, <1>7

\* The handler of a notification begins, goes on or ends.
LEMMA HandlersKeep ==
  ASSUME BillingInv, NEW e \in Event, sent[e] # Unsent, eventStatus[e] # "ignored",
         NEW next \in SUBSET [event : {e}, step : HandlerStep], \A j, k \in next : j = k,
         processing' = {k \in processing : k.event # e} \cup next,
         NEW st \in {"received", "processed", "ignored", "failed"},
         eventStatus' = [eventStatus EXCEPT ![e] = st], next # {} => st = "received",
         \A j \in next : /\ j.step # "resolve" => sent[e].txn \in Txn /\ sent[e].state \in BillingState
                         /\ j.step = "mark" => e \in persisted',
         st = "processed" => e \in persisted',
         answered' = answered \/ (answered' = answered \cup {e} /\ (st = "ignored" \/ e \in persisted')),
         persisted \subseteq persisted', UNCHANGED <<sent, submitting, early>>
  PROVE  /\ HandlersFollow'
         /\ processing' \subseteq [event : Event, step : HandlerStep]
         /\ eventStatus' \in [Event -> {"none", "received", "processed", "ignored", "failed"}]
         /\ early' \subseteq answered' /\ answered' \subseteq Event
<1> USE DEF BillingInv
<1>1. /\ eventStatus' \in [Event -> {"none", "received", "processed", "ignored", "failed"}]
      /\ eventStatus'[e] = st /\ \A f \in Event \ {e} : eventStatus'[f] = eventStatus[f]
  BY DEF RowTypes
<1>2. \A j \in next : j.event = e /\ j.step \in HandlerStep /\ j \in [event : Event, step : HandlerStep]
  OBVIOUS
<1>3. processing' \subseteq [event : Event, step : HandlerStep]
  BY <1>2 DEF RowTypes
<1>4. \A j \in processing' : /\ sent'[j.event] # Unsent /\ eventStatus'[j.event] = "received"
                             /\ j.step # "resolve" => sent'[j.event].txn \in Txn
                                                       /\ sent'[j.event].state \in BillingState
                             /\ j.step = "mark" => j.event \in persisted'
  <2> SUFFICES ASSUME NEW j \in processing'
               PROVE  /\ sent'[j.event] # Unsent /\ eventStatus'[j.event] = "received"
                      /\ j.step # "resolve" => sent'[j.event].txn \in Txn
                                                /\ sent'[j.event].state \in BillingState
                      /\ j.step = "mark" => j.event \in persisted'
    OBVIOUS
  <2>1. CASE j \in next
    BY <1>1, <1>2, <2>1
  <2>2. CASE j \in processing /\ j.event # e
    BY <1>1, <2>2 DEF HandlersFollow, RowTypes
  <2> QED BY <2>1, <2>2
<1>5. \A j, k \in processing' : j.event = k.event => j = k
  <2> SUFFICES ASSUME NEW j \in processing', NEW k \in processing', j.event = k.event PROVE j = k
    OBVIOUS
  <2>1. CASE j.event = e
    BY <2>1
  <2>2. CASE j.event # e
    <3>1. j \in processing /\ k \in processing
      BY <1>2, <2>2
    <3> QED BY <3>1 DEF HandlersFollow
  <2> QED BY <2>1, <2>2
<1>6. AnsweredIsPersisted'
  <2>1. ASSUME NEW f \in answered' \ early' PROVE f \in persisted' \/ eventStatus'[f] = "ignored"
    <3>1. CASE f = e
      <4>1. CASE e \in answered
        <5>1. e \in persisted \/ eventStatus[e] = "ignored"
          BY <2>1, <3>1, <4>1 DEF HandlersFollow, AnsweredIsPersisted
        <5> QED BY <3>1, <5>1
      <4>2. CASE e \notin answered
        BY <1>1, <2>1, <3>1, <4>2
      <4> QED BY <4>1, <4>2
    <3>2. CASE f # e
      <4>1. f \in answered \ early /\ f \in Event
        BY <2>1, <3>2 DEF RowTypes
      <4> QED BY <1>1, <3>2, <4>1 DEF HandlersFollow, AnsweredIsPersisted
    <3> QED BY <3>1, <3>2
  <2>2. ASSUME NEW f \in Event, eventStatus'[f] = "processed" PROVE f \in persisted'
    BY <1>1, <2>2 DEF HandlersFollow, AnsweredIsPersisted
  <2> QED BY <2>1, <2>2 DEF AnsweredIsPersisted
<1>7. early' \subseteq answered' /\ answered' \subseteq Event
  BY DEF RowTypes
<1> QED BY <1>1, <1>3, <1>4, <1>5, <1>6, <1>7 DEF HandlersFollow

LEMMA ReceiveKeeps ==
  ASSUME BillingInv, NEW e \in Event, Receive(e)
  PROVE  BillingInv'
<1> DEFINE job == [event |-> e, step |-> "resolve"]
           next == {job}
<1>1. job \in [event : {e}, step : HandlerStep] /\ job.event = e /\ job.step = "resolve"
  BY DEF HandlerStep
<1>2. /\ processing' = processing \cup {job} /\ sent[e] # Unsent /\ eventStatus[e] \in {"none", "failed"}
      /\ eventStatus' = [eventStatus EXCEPT ![e] = "received"]
      /\ UNCHANGED <<sent, submitting, txns, latestTxn, subscription, license, persisted, answered, early>>
  BY DEF Receive, rowVars, answerVars
<1> HIDE DEF job
<1>3. next \in SUBSET [event : {e}, step : HandlerStep] /\ (\A j, k \in next : j = k)
      /\ \A j \in next : j.step = "resolve"
  BY <1>1
<1>4. processing' = {k \in processing : k.event # e} \cup next
  <2>1. \A k \in processing : k.event # e
    BY <1>2 DEF BillingInv, HandlersFollow
  <2> QED BY <1>2, <2>1
<1> HIDE DEF next
<1>5. /\ HandlersFollow' /\ processing' \subseteq [event : Event, step : HandlerStep]
      /\ eventStatus' \in [Event -> {"none", "received", "processed", "ignored", "failed"}]
      /\ early' \subseteq answered' /\ answered' \subseteq Event
  <2>1. \A j \in next : /\ j.step # "resolve" => sent[e].txn \in Txn /\ sent[e].state \in BillingState
                        /\ j.step = "mark" => e \in persisted'
    BY <1>3
  <2>2. /\ eventStatus[e] # "ignored" /\ sent[e] # Unsent /\ answered' = answered /\ persisted \subseteq persisted'
        /\ UNCHANGED <<sent, submitting, early>>
    BY <1>2
  <2>3. "received" \in {"received", "processed", "ignored", "failed"} /\ "received" # "processed"
    OBVIOUS
  <2> QED BY <1>2, <1>3, <1>4, <2>1, <2>2, <2>3, HandlersKeep
<1> QED BY <1>2, <1>5 DEF BillingInv, RowTypes, RowsFollow

LEMMA RedeliverKeeps ==
  ASSUME BillingInv, NEW e \in Event, Redeliver(e)
  PROVE  BillingInv'
<1> USE DEF BillingInv
<1>1. /\ UNCHANGED <<sent, eventStatus, processing, submitting, txns, latestTxn, subscription, license, persisted>>
      /\ answered' = answered \cup {e} /\ eventStatus[e] \in {"received", "processed", "ignored"}
      /\ early' = IF eventStatus[e] = "received" THEN early \cup {e} ELSE early
  BY DEF Redeliver, rowVars
<1>2. AnsweredIsPersisted'
  BY <1>1 DEF HandlersFollow, AnsweredIsPersisted
<1>3. early' \subseteq answered' /\ answered' \subseteq Event
  BY <1>1 DEF RowTypes
<1> QED BY <1>1, <1>2, <1>3 DEF RowTypes, RowsFollow, HandlersFollow

LEMMA BillingJobSteps ==
  ASSUME BillingInv, NEW j \in processing,
         Resolve(j) \/ Store(j) \/ Persist(j) \/ MarkProcessed(j) \/ Interrupt(j)
  PROVE  BillingInv' /\ (subscription = Manual("scale") => subscription' = subscription)
<1> DEFINE e == j.event
           others == {k \in processing : k.event # e}
<1>0. /\ e \in Event /\ sent[e] # Unsent /\ eventStatus[e] = "received"
      /\ j.step # "resolve" => sent[e].txn \in Txn /\ sent[e].state \in BillingState
      /\ j.step = "mark" => e \in persisted
      /\ processing \ {j} = others
      /\ \A st \in HandlerStep : [j EXCEPT !.step = st] \in [event : {e}, step : HandlerStep]
                                /\ [j EXCEPT !.step = st].step = st
  BY DEF BillingInv, RowTypes, HandlersFollow
<1>00. eventStatus = [eventStatus EXCEPT ![e] = "received"]
  BY <1>0 DEF BillingInv, RowTypes
<1> HIDE DEF e, others
\* No rows are written.
<1>1. ASSUME UNCHANGED <<sent, submitting, txns, latestTxn, subscription, license, early>>, persisted' = persisted,
             HandlersFollow', processing' \subseteq [event : Event, step : HandlerStep],
             eventStatus' \in [Event -> {"none", "received", "processed", "ignored", "failed"}],
             early' \subseteq answered', answered' \subseteq Event
      PROVE  BillingInv' /\ subscription' = subscription
  BY <1>1 DEF BillingInv, RowTypes, RowsFollow
<1>2. ASSUME NEW st \in {"received", "processed", "ignored", "failed"}, processing' = others,
             eventStatus' = [eventStatus EXCEPT ![e] = st], st = "processed" => e \in persisted,
             answered' = answered \/ (answered' = answered \cup {e} /\ (st = "ignored" \/ e \in persisted)),
             UNCHANGED <<sent, submitting, txns, latestTxn, subscription, license, early, persisted>>
      PROVE  BillingInv' /\ subscription' = subscription
  <2> DEFINE next == {}
  <2>1. next \in SUBSET [event : {e}, step : HandlerStep] /\ (\A k \in next : FALSE)
        /\ processing' = {k \in processing : k.event # e} \cup next
    BY <1>2 DEF others
  <2> HIDE DEF next
  <2>2. /\ HandlersFollow' /\ processing' \subseteq [event : Event, step : HandlerStep]
        /\ eventStatus' \in [Event -> {"none", "received", "processed", "ignored", "failed"}]
        /\ early' \subseteq answered' /\ answered' \subseteq Event
    <3>1. /\ eventStatus[e] # "ignored" /\ persisted \subseteq persisted' /\ next = {}
          /\ UNCHANGED <<sent, submitting, early>>
          /\ st = "processed" => e \in persisted'
          /\ answered' = answered \/ (answered' = answered \cup {e} /\ (st = "ignored" \/ e \in persisted'))
      BY <1>0, <1>2, <2>1
    <3>2. \A k \in next : /\ k.step # "resolve" => sent[e].txn \in Txn /\ sent[e].state \in BillingState
                          /\ k.step = "mark" => e \in persisted'
      BY <3>1
    <3>3. \A k, l \in next : k = l
      BY <3>1
    <3> QED BY <1>0, <1>2, <2>1, <3>1, <3>2, <3>3, HandlersKeep
  <2> QED BY <1>1, <1>2, <2>2
<1>3. ASSUME NEW step \in HandlerStep, processing' = others \cup {[j EXCEPT !.step = step]},
             eventStatus' = eventStatus, answered' = answered, persisted \subseteq persisted',
             step # "resolve" => sent[e].txn \in Txn /\ sent[e].state \in BillingState,
             step = "mark" => e \in persisted', UNCHANGED <<sent, submitting, early>>
      PROVE  /\ HandlersFollow' /\ processing' \subseteq [event : Event, step : HandlerStep]
             /\ eventStatus' \in [Event -> {"none", "received", "processed", "ignored", "failed"}]
             /\ early' \subseteq answered' /\ answered' \subseteq Event
  <2> DEFINE one == [j EXCEPT !.step = step]
             next == {one}
  <2>0. one \in [event : {e}, step : HandlerStep] /\ one.step = step
    BY <1>0, <1>3
  <2> HIDE DEF one
  <2>1. next \in SUBSET [event : {e}, step : HandlerStep] /\ (\A k, l \in next : k = l)
        /\ \A k \in next : k.step = step
    BY <2>0
  <2>2. processing' = {k \in processing : k.event # e} \cup next
    BY <1>3 DEF others, one
  <2> HIDE DEF next
  <2> DEFINE st == "received"
  <2>3. eventStatus' = [eventStatus EXCEPT ![e] = st]
    BY <1>00, <1>3
  <2>4. \A k \in next : /\ k.step # "resolve" => sent[e].txn \in Txn /\ sent[e].state \in BillingState
                        /\ k.step = "mark" => e \in persisted'
    BY <1>3, <2>1
  <2>5. st \in {"received", "processed", "ignored", "failed"} /\ (st = "processed" => e \in persisted')
    OBVIOUS
  <2>6. next # {} => st = "received"
    OBVIOUS
  <2>7. answered' = answered \/ (answered' = answered \cup {e} /\ (st = "ignored" \/ e \in persisted'))
    BY <1>3
  <2> HIDE DEF st
  <2>8. sent[e] # Unsent /\ eventStatus[e] # "ignored"
    BY <1>0
  <2>9. persisted \subseteq persisted' /\ UNCHANGED <<sent, submitting, early>>
    BY <1>3
  <2>10. BillingInv /\ e \in Event
    BY <1>0
  <2> QED BY <2>6, <2>7, <2>8, <2>9, <2>10, <2>1, <2>2, <2>3, <2>4, <2>5, HandlersKeep
<1>4. CASE MarkProcessed(j)
  BY <1>0, <1>2, <1>4 DEF MarkProcessed, rowVars, e
<1>5. CASE Interrupt(j)
  BY <1>0, <1>00, <1>2, <1>5 DEF Interrupt, rowVars, answerVars, e
<1>6. CASE Store(j)
  <2>1. /\ j.step = "persist" /\ processing' = others \cup {[j EXCEPT !.step = "write"]}
        /\ UNCHANGED <<sent, eventStatus, submitting, txns, latestTxn, subscription, license, persisted, answered, early>>
    BY <1>0, <1>6 DEF Store, rowVars, answerVars
  <2>2. "write" \in HandlerStep
    BY DEF HandlerStep
  <2>3. /\ HandlersFollow' /\ processing' \subseteq [event : Event, step : HandlerStep]
        /\ eventStatus' \in [Event -> {"none", "received", "processed", "ignored", "failed"}]
        /\ early' \subseteq answered' /\ answered' \subseteq Event
    BY <1>0, <1>3, <2>1, <2>2
  <2> QED BY <1>1, <2>1, <2>3
<1>7. CASE Resolve(j)
  <2>1. CASE processing' = others /\ eventStatus' = [eventStatus EXCEPT ![e] = "ignored"]
             /\ answered' = answered \cup {e}
    BY <1>2, <1>7, <2>1 DEF Resolve, rowVars
  <2>2. CASE /\ sent[e].txn # NoTxn /\ eventStatus' = eventStatus /\ answered' = answered
             /\ processing' = others \cup {[j EXCEPT !.step = "persist"]}
    <3>1. UNCHANGED <<sent, submitting, txns, latestTxn, subscription, license, persisted, early>>
      BY <1>7 DEF Resolve, rowVars
    <3>2. sent[e].txn \in Txn /\ sent[e].state \in BillingState /\ "persist" \in HandlerStep
      BY <1>0, <2>2 DEF BillingInv, RowTypes, Unsent, HandlerStep
    <3>3. /\ HandlersFollow' /\ processing' \subseteq [event : Event, step : HandlerStep]
          /\ eventStatus' \in [Event -> {"none", "received", "processed", "ignored", "failed"}]
          /\ early' \subseteq answered' /\ answered' \subseteq Event
      BY <1>3, <2>2, <3>1, <3>2
    <3> QED BY <1>1, <3>1, <3>3
  <2> QED BY <1>0, <1>7, <2>1, <2>2 DEF Resolve, e
<1>8. CASE Persist(j)
  <2>1. /\ j.step = "write" /\ processing' = others \cup {[j EXCEPT !.step = "mark"]}
        /\ PersistApplePurchase(sent[e].txn, sent[e].state) /\ persisted' = persisted \cup {e}
        /\ UNCHANGED <<sent, eventStatus, submitting, answered, early>>
    BY <1>0, <1>8 DEF Persist, answerVars, e
  <2>2. "mark" \in HandlerStep
    BY DEF HandlerStep
  <2>3. /\ HandlersFollow' /\ processing' \subseteq [event : Event, step : HandlerStep]
        /\ eventStatus' \in [Event -> {"none", "received", "processed", "ignored", "failed"}]
        /\ early' \subseteq answered' /\ answered' \subseteq Event
    BY <1>0, <1>3, <2>1, <2>2
  <2>4. /\ RowsFollow'
        /\ txns' \in [Txn -> BillingState \cup {"none"}] /\ latestTxn' \in [Purchase -> Txn \cup {NoTxn}]
        /\ subscription = Manual("scale") => subscription' = subscription
    BY <1>0, <2>1, PersistFollows DEF BillingInv
  <2> QED BY <2>1, <2>3, <2>4 DEF BillingInv, RowTypes
<1> QED BY <1>4, <1>5, <1>6, <1>7, <1>8

LEMMA BillingSubmitKeeps ==
  ASSUME BillingInv, NEW t \in Txn, SubmitTransaction(t)
  PROVE  BillingInv' /\ subscription' = subscription
<1>1. PICK state \in SubmittedState : submitting' = submitting \cup {[txn |-> t, state |-> state]}
  BY DEF SubmitTransaction
<1>2. UNCHANGED <<sent, eventStatus, processing, persisted, txns, latestTxn, subscription, license, answered, early>>
  BY DEF SubmitTransaction, rowVars, answerVars
<1> QED BY <1>1, <1>2 DEF BillingInv, RowTypes, RowsFollow, HandlersFollow, AnsweredIsPersisted

LEMMA EndSubmissionKeeps ==
  ASSUME BillingInv, NEW s \in submitting, EndSubmission(s)
  PROVE  BillingInv' /\ (subscription = Manual("scale") => subscription' = subscription)
<1>1. /\ s.txn \in Txn /\ s.state \in BillingState
      /\ submitting' \subseteq [txn : Txn, state : SubmittedState]
      /\ UNCHANGED <<sent, eventStatus, processing, persisted, answered, early>>
      /\ PersistApplePurchase(s.txn, s.state) \/ UNCHANGED <<txns, latestTxn, subscription, license>>
  BY DEF EndSubmission, BillingInv, RowTypes, SubmittedState, BillingState, rowVars, answerVars
<1>2. /\ RowsFollow'
      /\ txns' \in [Txn -> BillingState \cup {"none"}] /\ latestTxn' \in [Purchase -> Txn \cup {NoTxn}]
      /\ subscription = Manual("scale") => subscription' = subscription
  <2>1. CASE PersistApplePurchase(s.txn, s.state)
    BY <1>1, <2>1, PersistFollows DEF BillingInv
  <2>2. CASE UNCHANGED <<txns, latestTxn, subscription, license>>
    BY <2>2 DEF BillingInv, RowTypes, RowsFollow
  <2> QED BY <1>1, <2>1, <2>2
<1> QED BY <1>1, <1>2 DEF BillingInv, RowTypes, HandlersFollow, AnsweredIsPersisted

LEMMA PlanAssignKeeps ==
  ASSUME BillingInv, NEW p \in AdminPlan, AssignManualPlan(p)
  PROVE  BillingInv' /\ subscription'.source = "manual"
BY DEF AssignManualPlan, answerVars, Manual, BillingInv, RowTypes, RowsFollow, HandlersFollow, AnsweredIsPersisted

LEMMA NextBilling ==
  ASSUME BillingInv, [BillingNext]_billingVars
  PROVE  /\ BillingInv'
         /\ subscription = Manual("scale") /\ subscription' # subscription => subscription'.source = "manual"
<1>1. CASE UNCHANGED billingVars
  BY <1>1 DEF billingVars, rowVars, answerVars, BillingInv, RowTypes, RowsFollow, HandlersFollow, AnsweredIsPersisted
<1>2. ASSUME NEW e \in Event, Notify(e) \/ Receive(e) \/ Redeliver(e) PROVE BillingInv' /\ subscription' = subscription
  BY <1>2, NotifyKeeps, ReceiveKeeps, RedeliverKeeps DEF Notify, Receive, Redeliver, rowVars
<1> QED BY <1>1, <1>2, BillingJobSteps, BillingSubmitKeeps, EndSubmissionKeeps, PlanAssignKeeps DEF BillingNext

\* However notifications, submissions, failures and stops of the process interleave, an
\* account is entitled to what the transaction of its purchase that was committed last
\* says, and a notification answered as a success has been written or was nothing to
\* write, unless a second delivery answered while the first was not done
\* (billing-state.ts, mobile-billing.ts).
THEOREM PurchasesStayEntitled == BillingSpec => []PurchasesAreEntitled
<1>1. BillingInv => PurchasesAreEntitled
  BY DEF BillingInv, RowsFollow, HandlersFollow, PurchasesAreEntitled, EntitlementFollowsTransaction
<1>2. BillingInv /\ [BillingNext]_billingVars => BillingInv'
  BY NextBilling
<1> QED BY <1>1, <1>2, InitBilling, PTL DEF BillingSpec

\* Whatever the store reports of older purchases, a scale plan that an administrator
\* assigned ends only when an administrator assigns another (routes/admin.ts).
THEOREM ScalePlansStand == BillingSpec => ManualScaleStands
<1>1. BillingInv /\ [BillingNext]_billingVars
        => BillingInv' /\ [subscription = Manual("scale") /\ subscription' # subscription
                             => subscription'.source = "manual"]_billingVars
  BY NextBilling
<1> QED BY <1>1, InitBilling, PTL DEF BillingSpec, ManualScaleStands

\* What the invariant leaves to say of the rows: their columns, and that a notification
\* without a state has not been received.
ColumnTypes ==
    /\ \A e \in Event : sent[e] = Unsent => eventStatus[e] = "none"
    /\ subscription.source \in {"signup", "manual", "apple_store"}
    /\ subscription.status \in {"active", "expired", "revoked"}
    /\ license.status \in {"none", "active", "expired", "revoked"}
    /\ persisted \subseteq Event

LEMMA PersistTypes ==
  ASSUME ColumnTypes, NEW t \in Txn, NEW state \in BillingState, PersistApplePurchase(t, state)
  PROVE  /\ subscription'.source \in {"signup", "manual", "apple_store"}
         /\ subscription'.status \in {"active", "expired", "revoked"}
         /\ license'.status \in {"none", "active", "expired", "revoked"}
<1>1. Entitled(state) \in {"active", "expired", "revoked"}
  BY DEF Entitled, BillingState
<1>2. CASE Bought[t] \in DOMAIN HostedPlan
  BY <1>1, <1>2 DEF PersistApplePurchase, Entitle, ColumnTypes
<1>3. CASE Bought[t] \notin DOMAIN HostedPlan
  BY <1>1, <1>3 DEF PersistApplePurchase, Entitle, ColumnTypes
<1> QED BY <1>2, <1>3

LEMMA NextColumns ==
  ASSUME BillingInv, ColumnTypes, [BillingNext]_billingVars
  PROVE  ColumnTypes'
<1>0. \A j \in processing : /\ j.event \in Event /\ sent[j.event] # Unsent
                            /\ j.step = "write" => sent[j.event].txn \in Txn /\ sent[j.event].state \in BillingState
  BY DEF BillingInv, RowTypes, HandlersFollow
<1>00. sent \in [Event -> {Unsent} \cup [txn : Txn, state : BillingState] \cup [txn : {NoTxn}, state : {"active"}]]
       /\ eventStatus \in [Event -> {"none", "received", "processed", "ignored", "failed"}]
  BY DEF BillingInv, RowTypes
<1>1. CASE UNCHANGED billingVars
  BY <1>1 DEF billingVars, rowVars, ColumnTypes
<1>2. ASSUME NEW e \in Event, Notify(e) PROVE ColumnTypes'
  <2>1. PICK n \in [txn : Txn, state : BillingState] \cup [txn : {NoTxn}, state : {"active"}] :
          sent' = [sent EXCEPT ![e] = n]
    BY <1>2, BillingAssumption DEF Notify, BillingState
  <2>2. n # Unsent
    BY DEF Unsent, BillingState
  <2>3. \A f \in Event : sent'[f] = Unsent => sent[f] = Unsent
    BY <1>00, <2>1, <2>2
  <2> QED BY <1>2, <2>3 DEF Notify, rowVars, ColumnTypes
<1>3. ASSUME NEW e \in Event, Receive(e) PROVE ColumnTypes'
  <2>1. sent[e] # Unsent /\ \A f \in Event \ {e} : eventStatus'[f] = eventStatus[f]
    BY <1>00, <1>3 DEF Receive
  <2> QED BY <1>3, <2>1 DEF Receive, rowVars, ColumnTypes
<1>9. ASSUME NEW e \in Event, Redeliver(e) PROVE ColumnTypes'
  BY <1>9 DEF Redeliver, rowVars, ColumnTypes
<1>4. ASSUME NEW j \in processing, Resolve(j) \/ Store(j) \/ MarkProcessed(j) \/ Interrupt(j) PROVE ColumnTypes'
  <2>1. \A f \in Event \ {j.event} : eventStatus'[f] = eventStatus[f]
    BY <1>00, <1>4 DEF Resolve, Store, MarkProcessed, Interrupt
  <2>2. UNCHANGED <<sent, subscription, license, persisted>>
    BY <1>4 DEF Resolve, Store, MarkProcessed, Interrupt, rowVars
  <2> QED BY <1>0, <2>1, <2>2 DEF ColumnTypes
<1>5. ASSUME NEW j \in processing, Persist(j) PROVE ColumnTypes'
  BY <1>0, <1>5, PersistTypes DEF Persist, ColumnTypes
<1>6. ASSUME NEW t \in Txn, SubmitTransaction(t) PROVE ColumnTypes'
  BY <1>6 DEF SubmitTransaction, rowVars, ColumnTypes
<1>8. ASSUME NEW s \in submitting, EndSubmission(s) PROVE ColumnTypes'
  <2>1. s.txn \in Txn /\ s.state \in BillingState /\ UNCHANGED <<sent, eventStatus, persisted>>
    BY <1>8 DEF EndSubmission, BillingInv, RowTypes, SubmittedState, BillingState
  <2>2. CASE PersistApplePurchase(s.txn, s.state)
    BY <2>1, <2>2, PersistTypes DEF ColumnTypes
  <2>3. CASE UNCHANGED rowVars
    BY <2>1, <2>3 DEF rowVars, ColumnTypes
  <2> QED BY <1>8, <2>2, <2>3 DEF EndSubmission
<1>7. ASSUME NEW p \in AdminPlan, AssignManualPlan(p) PROVE ColumnTypes'
  BY <1>7 DEF AssignManualPlan, Manual, ColumnTypes
<1> QED BY <1>1, <1>2, <1>3, <1>4, <1>5, <1>6, <1>7, <1>8, <1>9 DEF BillingNext

\* Notifications, handlers, rows and entitlements stay within their types, for any
\* transactions, purchases and notifications.
THEOREM BillingTypeCorrect == BillingSpec => []BillingTypeOK
<1>1. BillingInit => BillingInv /\ ColumnTypes
  <2>1. BillingInit => ColumnTypes
    BY DEF BillingInit, ColumnTypes
  <2> QED BY <2>1, InitBilling
<1>2. BillingInv /\ ColumnTypes /\ [BillingNext]_billingVars => (BillingInv /\ ColumnTypes)'
  BY NextBilling, NextColumns
<1>3. BillingInv /\ ColumnTypes => BillingTypeOK
  <2> SUFFICES ASSUME BillingInv, ColumnTypes PROVE BillingTypeOK
    OBVIOUS
  <2>1. license.txn \in Txn \cup {NoTxn}
    BY DEF BillingInv, RowsFollow
  <2> QED BY <2>1 DEF BillingInv, RowTypes, ColumnTypes, BillingTypeOK
<1> QED BY <1>1, <1>2, <1>3, PTL DEF BillingSpec

-----------------------------------------------------------------------------
(* Releases. The packages that a staged manifest names are uploaded or     *)
(* served with the bytes it says, and a publication under way holds the    *)
(* lock, unless a lock expired.                                            *)

\* A publication that is under way has the lock, unless a lock expired under one.
LockHeld == ~outlived => \A p \in Publication : Underway(p) => publishLock = p

\* The packages that the manifests of a publication name are uploaded or served, with
\* the bytes the manifests say unless a lock expired.
StagedComplete(p, files, lists, bytes, expired) ==
    \A m \in Manifest : \A f \in DOMAIN lists[m] :
        LET b == IF files[f] # "none" THEN files[f] ELSE bytes[f]
        IN b # "none" /\ (expired \/ b = lists[m][f])

ReleasesInv ==
    /\ ReleasesTypeOK /\ LockHeld
    /\ \A p \in Publication : publishing[p] = "moving"
          => StagedComplete(p, stagedFiles[p], stagedLists[p], served, outlived)

LEMMA ListsAreOfPackages ==
  /\ Nothing \in Lists /\ DOMAIN Nothing = {}
  /\ \A list \in Lists : DOMAIN list \subseteq Package /\ \A f \in DOMAIN list : list[f] \in Bytes
BY DEF Nothing, Lists

LEMMA InitReleases == ReleasesInit => ReleasesInv
<1> SUFFICES ASSUME ReleasesInit PROVE ReleasesInv
  OBVIOUS
<1>1. NoLists \in [Manifest -> Lists] /\ NoFiles \in [Package -> Bytes \cup {"none"}]
  BY ListsAreOfPackages DEF NoLists, NoFiles
<1>2. ReleasesTypeOK
  BY <1>1 DEF ReleasesInit, ReleasesTypeOK
<1> QED BY <1>2 DEF ReleasesInit, ReleasesInv, LockHeld, Underway

\* A publication begins, ends or goes on, and the feed stays as it is.
LEMMA StagesKeep ==
  ASSUME ReleasesInv, NEW p \in Publication,
         NEW st \in {"uploading", "published", "ended"}, Stage(p, st),
         UNCHANGED <<served, manifests, outlived>>, release' \in {release, p},
         stagedFiles' \in [Publication -> [Package -> Bytes \cup {"none"}]],
         stagedLists' \in [Publication -> [Manifest -> Lists]],
         \A q \in Publication \ {p} : stagedFiles'[q] = stagedFiles[q] /\ stagedLists'[q] = stagedLists[q],
         \/ st = "uploading" /\ publishLock = "none" /\ publishLock' = p
         \/ st # "uploading" /\ publishLock' = Unlocked(p)
         \/ st # "uploading" /\ publishLock' = publishLock
  PROVE  ReleasesInv'
<1>0. ReleasesTypeOK /\ LockHeld
  BY DEF ReleasesInv
<1>1. /\ publishing'[p] = st /\ \A q \in Publication \ {p} : publishing'[q] = publishing[q]
      /\ publishing' \in [Publication -> {"new", "uploading", "moving", "published", "ended"}]
  BY <1>0 DEF Stage, ReleasesTypeOK
<1>2. ReleasesTypeOK'
  BY <1>0, <1>1 DEF ReleasesTypeOK, Unlocked
<1>3. LockHeld'
  BY <1>0, <1>1, ReleasesAssumption DEF LockHeld, Underway, Unlocked
<1> QED BY <1>1, <1>2, <1>3 DEF ReleasesInv

LEMMA UploadKeeps ==
  ASSUME ReleasesInv, NEW p \in Publication, UploadFiles(p)
  PROVE  ReleasesInv'
<1>0. ReleasesTypeOK /\ LockHeld
  BY DEF ReleasesInv
<1>1. PICK files \in [Package -> Bytes \cup {"none"}], lists \in [Manifest -> Lists] :
        /\ \A m \in Manifest : Matches(files, lists[m])
        /\ stagedFiles' = [stagedFiles EXCEPT ![p] = files]
        /\ stagedLists' = [stagedLists EXCEPT ![p] = lists]
  BY DEF UploadFiles
<1>2. /\ publishing[p] = "uploading" /\ publishing' = [publishing EXCEPT ![p] = "moving"]
      /\ UNCHANGED <<served, manifests, release, publishLock, outlived>>
  BY DEF UploadFiles, Stage
<1>3. /\ stagedFiles'[p] = files /\ stagedLists'[p] = lists /\ publishing'[p] = "moving"
      /\ \A q \in Publication \ {p} : /\ stagedFiles'[q] = stagedFiles[q] /\ stagedLists'[q] = stagedLists[q]
                                      /\ publishing'[q] = publishing[q]
  BY <1>0, <1>1, <1>2 DEF ReleasesTypeOK
<1>4. StagedComplete(p, files, lists, served, outlived)
  <2> SUFFICES ASSUME NEW m \in Manifest, NEW f \in DOMAIN lists[m]
               PROVE  LET b == IF files[f] # "none" THEN files[f] ELSE served[f]
                      IN b # "none" /\ (outlived \/ b = lists[m][f])
    BY DEF StagedComplete
  <2>1. lists[m] # Nothing /\ lists[m][f] \in Bytes
    BY ListsAreOfPackages
  <2> QED BY <1>1, <2>1, ReleasesAssumption DEF Matches, BytesOf
<1>5. ReleasesTypeOK'
  BY <1>0, <1>1, <1>2 DEF ReleasesTypeOK
<1>6. LockHeld'
  BY <1>0, <1>2, <1>3 DEF LockHeld, Underway
<1> QED BY <1>2, <1>3, <1>4, <1>5, <1>6 DEF ReleasesInv

\* Another publication under way means that a lock expired: a package replaced then
\* need not have the bytes that were checked, but it is there.
LEMMA MovePackageKeeps ==
  ASSUME ReleasesInv, NEW p \in Publication, NEW f \in Package, MovePackage(p, f)
  PROVE  ReleasesInv'
<1>0. ReleasesTypeOK /\ LockHeld
  BY DEF ReleasesInv
<1> DEFINE b == stagedFiles[p][f]
<1>1. /\ publishing[p] = "moving" /\ b # "none" /\ served' = [served EXCEPT ![f] = b]
      /\ stagedFiles' = [stagedFiles EXCEPT ![p][f] = "none"]
      /\ UNCHANGED <<manifests, release, publishLock, publishing, stagedLists, outlived>>
  BY DEF MovePackage
<1>2. /\ b \in Bytes /\ served'[f] = b /\ stagedFiles'[p][f] = "none"
      /\ \A g \in Package \ {f} : served'[g] = served[g] /\ stagedFiles'[p][g] = stagedFiles[p][g]
      /\ \A q \in Publication \ {p} : stagedFiles'[q] = stagedFiles[q]
  BY <1>0, <1>1 DEF ReleasesTypeOK
<1>3. ReleasesTypeOK'
  BY <1>0, <1>1, <1>2 DEF ReleasesTypeOK
<1>4. LockHeld'
  BY <1>0, <1>1 DEF LockHeld, Underway
<1>5. ASSUME NEW q \in Publication, publishing[q] = "moving"
      PROVE  StagedComplete(q, stagedFiles'[q], stagedLists[q], served', outlived)
  <2>0. StagedComplete(q, stagedFiles[q], stagedLists[q], served, outlived)
    BY <1>5 DEF ReleasesInv
  <2>1. q # p => outlived
    BY <1>0, <1>1, <1>5 DEF LockHeld, Underway
  <2> SUFFICES ASSUME NEW m \in Manifest, NEW g \in DOMAIN stagedLists[q][m]
               PROVE  LET c == IF stagedFiles'[q][g] # "none" THEN stagedFiles'[q][g] ELSE served'[g]
                      IN c # "none" /\ (outlived \/ c = stagedLists[q][m][g])
    BY DEF StagedComplete
  <2>2. LET c == IF stagedFiles[q][g] # "none" THEN stagedFiles[q][g] ELSE served[g]
        IN c # "none" /\ (outlived \/ c = stagedLists[q][m][g])
    BY <2>0 DEF StagedComplete
  <2>3. g \in Package
    BY <1>0, ListsAreOfPackages DEF ReleasesTypeOK
  <2>4. CASE q = p
    BY <1>1, <1>2, <2>2, <2>3, <2>4
  <2>5. CASE q # p
    BY <1>1, <1>2, <2>1, <2>2, <2>3, <2>5
  <2> QED BY <2>4, <2>5
<1> QED BY <1>1, <1>3, <1>4, <1>5 DEF ReleasesInv

LEMMA MoveManifestKeeps ==
  ASSUME ReleasesInv, NEW p \in Publication, NEW m \in Manifest, MoveManifest(p, m)
  PROVE  /\ ReleasesInv'
         /\ \A n \in Manifest : manifests'[n] # manifests[n] =>
              \A f \in DOMAIN manifests'[n] :
                  served'[f] # "none" /\ (outlived \/ served'[f] = manifests'[n][f])
<1>0. ReleasesTypeOK /\ LockHeld
  BY DEF ReleasesInv
<1>1. /\ publishing[p] = "moving" /\ stagedFiles[p] = NoFiles
      /\ manifests' = [manifests EXCEPT ![m] = stagedLists[p][m]]
      /\ stagedLists' = [stagedLists EXCEPT ![p][m] = Nothing]
      /\ UNCHANGED <<served, release, publishLock, publishing, stagedFiles, outlived>>
  BY DEF MoveManifest, PackagesMoved
<1>2. StagedComplete(p, stagedFiles[p], stagedLists[p], served, outlived)
  BY <1>1 DEF ReleasesInv
<1>3. /\ manifests'[m] = stagedLists[p][m] /\ stagedLists'[p][m] = Nothing
      /\ \A n \in Manifest \ {m} : manifests'[n] = manifests[n] /\ stagedLists'[p][n] = stagedLists[p][n]
      /\ \A q \in Publication \ {p} : stagedLists'[q] = stagedLists[q]
  BY <1>0, <1>1 DEF ReleasesTypeOK
<1>4. ReleasesTypeOK'
  BY <1>0, <1>1, ListsAreOfPackages DEF ReleasesTypeOK
<1>5. LockHeld'
  BY <1>0, <1>1 DEF LockHeld, Underway
<1>6. StagedComplete(p, stagedFiles'[p], stagedLists'[p], served', outlived')
  BY <1>1, <1>2, <1>3, ListsAreOfPackages DEF StagedComplete
<1>7. ReleasesInv'
  BY <1>1, <1>3, <1>4, <1>5, <1>6 DEF ReleasesInv
<1>8. ASSUME NEW f \in DOMAIN stagedLists[p][m]
      PROVE  served[f] # "none" /\ (outlived \/ served[f] = stagedLists[p][m][f])
  <2>1. f \in Package /\ stagedFiles[p][f] = "none"
    BY <1>0, <1>1, ListsAreOfPackages DEF ReleasesTypeOK, NoFiles
  <2> QED BY <1>2, <2>1 DEF StagedComplete
<1> QED BY <1>1, <1>3, <1>7, <1>8

LEMMA NextReleases ==
  ASSUME ReleasesInv, [ReleasesNext]_releaseVars
  PROVE  /\ ReleasesInv'
         /\ \A n \in Manifest : manifests'[n] # manifests[n] =>
              \A f \in DOMAIN manifests'[n] :
                  served'[f] # "none" /\ (outlived \/ served'[f] = manifests'[n][f])
<1>0. ReleasesTypeOK /\ LockHeld
  BY DEF ReleasesInv
<1>1. CASE UNCHANGED releaseVars
  BY <1>1 DEF ReleasesInv, ReleasesTypeOK, LockHeld, Underway, releaseVars, stagingVars
<1>2. CASE PublishLockExpires
  <2>1. /\ publishLock' = "none" /\ outlived' = (outlived \/ Underway(publishLock)) /\ publishLock # "none"
        /\ UNCHANGED <<served, manifests, release, publishing, stagedFiles, stagedLists>>
    BY <1>2 DEF PublishLockExpires, stagingVars
  <2>2. outlived' \in BOOLEAN /\ (outlived => outlived')
    BY <1>0, <2>1 DEF ReleasesTypeOK, Underway
  <2>3. ReleasesTypeOK'
    BY <1>0, <2>1, <2>2 DEF ReleasesTypeOK
  <2>4. LockHeld'
    BY <1>0, <2>1 DEF LockHeld, Underway
  <2>5. ASSUME NEW p \in Publication, publishing[p] = "moving"
        PROVE  StagedComplete(p, stagedFiles[p], stagedLists[p], served, outlived')
    BY <2>2, <2>5 DEF ReleasesInv, StagedComplete
  <2> QED BY <2>1, <2>3, <2>4, <2>5 DEF ReleasesInv
<1>3. ASSUME NEW p \in Publication, TakeLock(p) PROVE ReleasesInv' /\ manifests' = manifests
  BY <1>0, <1>3, StagesKeep DEF TakeLock, stagingVars, ReleasesTypeOK
<1>4. ASSUME NEW p \in Publication, Publish(p) PROVE ReleasesInv' /\ manifests' = manifests
  BY <1>0, <1>4, StagesKeep DEF Publish, stagingVars, ReleasesTypeOK
<1>5. ASSUME NEW p \in Publication, Reject(p) PROVE ReleasesInv' /\ manifests' = manifests
  <2>1. /\ NoFiles \in [Package -> Bytes \cup {"none"}] /\ NoLists \in [Manifest -> Lists]
        /\ stagedFiles' = [stagedFiles EXCEPT ![p] = NoFiles]
        /\ stagedLists' = [stagedLists EXCEPT ![p] = NoLists]
    BY <1>5, ListsAreOfPackages DEF Reject, NoFiles, NoLists
  <2>2. /\ stagedFiles' \in [Publication -> [Package -> Bytes \cup {"none"}]]
        /\ stagedLists' \in [Publication -> [Manifest -> Lists]]
        /\ \A q \in Publication \ {p} : stagedFiles'[q] = stagedFiles[q] /\ stagedLists'[q] = stagedLists[q]
    BY <1>0, <2>1 DEF ReleasesTypeOK
  <2> QED BY <1>5, <2>2, StagesKeep DEF Reject
<1>6. ASSUME NEW p \in Publication, ProcessDies(p) PROVE ReleasesInv' /\ manifests' = manifests
  BY <1>0, <1>6, StagesKeep DEF ProcessDies, stagingVars, ReleasesTypeOK
<1>7. ASSUME NEW p \in Publication, UploadFiles(p) PROVE ReleasesInv' /\ manifests' = manifests
  BY <1>7, UploadKeeps DEF UploadFiles
<1>8. ASSUME NEW p \in Publication, NEW f \in Package, MovePackage(p, f) PROVE ReleasesInv' /\ manifests' = manifests
  BY <1>8, MovePackageKeeps DEF MovePackage
<1> QED BY <1>1, <1>2, <1>3, <1>4, <1>5, <1>6, <1>7, <1>8, MoveManifestKeeps DEF ReleasesNext, PublishLockExpires

\* However publications, stops and expired locks interleave: when a manifest goes live
\* every package it names is served, with the bytes it says unless a publication
\* outlived its lock (routes/releases.ts).
THEOREM NewManifestsStayComplete == ReleasesSpec => NewManifestsAreComplete
<1>1. ReleasesInv /\ [ReleasesNext]_releaseVars
        => ReleasesInv' /\ [\A m \in Manifest : manifests'[m] # manifests[m] =>
              \A f \in DOMAIN manifests'[m] :
                  served'[f] # "none" /\ (outlived \/ served'[f] = manifests'[m][f])]_releaseVars
  BY NextReleases
<1> QED BY <1>1, InitReleases, PTL DEF ReleasesSpec, NewManifestsAreComplete

-----------------------------------------------------------------------------
(* The website's feed. What an upload has checked is what it brings, or    *)
(* what the feed has, but for packages that other uploads replaced since.  *)

UploadRow == [stage : {"new", "checking", "ended"}, files : [Asset -> Content \cup {"none"}],
              list : ManifestSet, left : SUBSET Asset]

\* What an upload has checked is what it brings or what the feed has, but for packages
\* of the feed that were replaced since.
CheckedStands(row, bytes, changed) ==
    row.stage = "checking" =>
      \A f \in DOMAIN row.list \ row.left :
          \/ row.files[f] # "none" /\ row.files[f] = row.list[f]
          \/ row.files[f] = "none" /\ (bytes[f] = row.list[f] \/ f \in changed)

FeedInv ==
    /\ FeedTypeOK /\ upload \in [Incoming -> UploadRow]
    /\ \A u \in Incoming : CheckedStands(upload[u], feed, replaced[u])

LEMMA EmptyUpload == New \in UploadRow /\ [New EXCEPT !.stage = "ended"] \in UploadRow /\ NoList \in ManifestSet
<1>1. NoAssets \in [Asset -> Content \cup {"none"}] /\ NoList \in ManifestSet
  BY DEF NoAssets, ManifestSet
<1> QED BY <1>1 DEF New, UploadRow

LEMMA ListsAreOfAssets == \A list \in ManifestSet : DOMAIN list \subseteq Asset
BY DEF ManifestSet, NoList

LEMMA InitFeed == FeedInit => FeedInv
<1> SUFFICES ASSUME FeedInit PROVE FeedInv
  OBVIOUS
<1>1. \A u \in Incoming : upload[u] = New /\ New.stage = "new" /\ New.left = {}
  BY DEF FeedInit, New
<1>2. FeedTypeOK
  BY <1>1, EmptyUpload DEF FeedInit, FeedTypeOK, NoAssets
<1> QED BY <1>1, <1>2, EmptyUpload DEF FeedInit, FeedInv, CheckedStands

LEMMA RowsHaveTypes ==
  ASSUME feed \in [Asset -> Content \cup {"none"}], channel \in [Channel -> ManifestSet],
         announced \in Incoming \cup {"none", "torn"}, halfway \in BOOLEAN,
         upload \in [Incoming -> UploadRow], replaced \in [Incoming -> SUBSET Asset]
  PROVE  FeedTypeOK
<1>1. \A u \in Incoming : upload[u] \in UploadRow
  OBVIOUS
<1> QED BY <1>1 DEF FeedTypeOK, UploadRow

LEMMA UploadCheckKeeps ==
  ASSUME FeedInv, NEW u \in Incoming,
         ReceiveUpload(u) \/ RefuseUpload(u) \/ \E f \in Asset : CheckEntry(u, f)
  PROVE  FeedInv'
<1>0. /\ FeedTypeOK /\ upload \in [Incoming -> UploadRow] /\ upload[u] \in UploadRow
      /\ replaced \in [Incoming -> SUBSET Asset]
  BY DEF FeedInv, FeedTypeOK
<1>1. UNCHANGED <<feed, channel, announced, halfway>>
  BY DEF ReceiveUpload, RefuseUpload, CheckEntry
<1>2. \E row \in UploadRow, changed \in SUBSET Asset :
        /\ upload' = [upload EXCEPT ![u] = row] /\ replaced' = [replaced EXCEPT ![u] = changed]
        /\ CheckedStands(row, feed, changed)
  <2>1. CASE ReceiveUpload(u)
    <3>1. PICK files \in [Asset -> Content \cup {"none"}], list \in ManifestSet :
            upload' = [upload EXCEPT ![u] = [stage |-> "checking", files |-> files, list |-> list, left |-> DOMAIN list]]
      BY <2>1 DEF ReceiveUpload
    <3> DEFINE row == [stage |-> "checking", files |-> files, list |-> list, left |-> DOMAIN list]
    <3>2. row \in UploadRow /\ CheckedStands(row, feed, replaced[u])
      BY ListsAreOfAssets DEF UploadRow, CheckedStands
    <3>3. replaced' = [replaced EXCEPT ![u] = replaced[u]]
      BY <1>0, <2>1 DEF ReceiveUpload
    <3> QED BY <1>0, <3>1, <3>2, <3>3
  <2>2. CASE RefuseUpload(u)
    <3>1. CheckedStands([New EXCEPT !.stage = "ended"], feed, replaced[u])
      BY DEF CheckedStands, New
    <3>2. replaced' = [replaced EXCEPT ![u] = replaced[u]]
      BY <1>0, <2>2 DEF RefuseUpload
    <3> QED BY <1>0, <2>2, <3>1, <3>2, EmptyUpload DEF RefuseUpload
  <2>3. ASSUME NEW f \in Asset, CheckEntry(u, f) PROVE <1>2
    <3> DEFINE row == [upload[u] EXCEPT !.left = upload[u].left \ {f}]
    <3>1. /\ upload' = [upload EXCEPT ![u] = row] /\ replaced' = [replaced EXCEPT ![u] = replaced[u] \ {f}]
          /\ CheckedBytes(u, f) = upload[u].list[f]
      BY <1>0, <2>3 DEF CheckEntry
    <3>2. /\ row \in UploadRow /\ row.stage = upload[u].stage /\ row.files = upload[u].files
          /\ row.list = upload[u].list /\ row.left = upload[u].left \ {f}
      BY <1>0 DEF UploadRow
    <3>3. CheckedStands(upload[u], feed, replaced[u])
      BY DEF FeedInv
    <3> HIDE DEF row
    <3>4. CheckedStands(row, feed, replaced[u] \ {f})
      BY <2>3, <3>1, <3>2, <3>3 DEF CheckedStands, CheckedBytes, Brings
    <3> QED BY <1>0, <3>1, <3>2, <3>4
  <2> QED BY <2>1, <2>2, <2>3
<1>3. PICK row \in UploadRow, changed \in SUBSET Asset :
        /\ upload' = [upload EXCEPT ![u] = row] /\ replaced' = [replaced EXCEPT ![u] = changed]
        /\ CheckedStands(row, feed, changed)
  BY <1>2
<1>4. /\ upload' \in [Incoming -> UploadRow] /\ replaced' \in [Incoming -> SUBSET Asset]
      /\ upload'[u] = row /\ replaced'[u] = changed
      /\ \A v \in Incoming \ {u} : upload'[v] = upload[v] /\ replaced'[v] = replaced[v]
  BY <1>0, <1>3
<1>5. FeedTypeOK'
  <2>1. /\ feed' \in [Asset -> Content \cup {"none"}] /\ channel' \in [Channel -> ManifestSet]
        /\ announced' \in Incoming \cup {"none", "torn"} /\ halfway' \in BOOLEAN
    BY <1>0, <1>1 DEF FeedTypeOK
  <2>2. \A v \in Incoming : upload'[v] \in UploadRow
    BY <1>4
  <2> QED BY <1>4, <2>1, <2>2 DEF FeedTypeOK, UploadRow
<1> QED BY <1>1, <1>3, <1>4, <1>5 DEF FeedInv

\* Packages move in, and what the others had checked of those that change is on record.
LEMMA MoveKeeps ==
  ASSUME FeedInv, NEW u \in Incoming, NEW moved \in SUBSET Brings(u), NEW listed \in BOOLEAN,
         Move(u, moved, listed), announced' \in {announced, "torn", u}, halfway' \in BOOLEAN
  PROVE  FeedInv'
<1>0. /\ FeedTypeOK /\ upload \in [Incoming -> UploadRow] /\ upload[u] \in UploadRow
      /\ replaced \in [Incoming -> SUBSET Asset] /\ moved \subseteq Asset
  BY DEF FeedInv, FeedTypeOK, Brings
<1>1. /\ feed' \in [Asset -> Content \cup {"none"}] /\ channel' \in [Channel -> ManifestSet]
      /\ upload' \in [Incoming -> UploadRow] /\ replaced' \in [Incoming -> SUBSET Asset]
  <2>1. /\ feed' \in [Asset -> Content \cup {"none"}] /\ channel' \in [Channel -> ManifestSet]
    BY <1>0 DEF Move, FeedTypeOK, UploadRow
  <2>2. upload' \in [Incoming -> UploadRow] /\ replaced' \in [Incoming -> SUBSET Asset]
    BY <1>0, EmptyUpload DEF Move
  <2> QED BY <2>1, <2>2
<1>2. FeedTypeOK'
  <2>1. announced' \in Incoming \cup {"none", "torn"} /\ halfway' \in BOOLEAN
    BY <1>0 DEF FeedTypeOK
  <2>2. \A v \in Incoming : upload'[v] \in UploadRow
    BY <1>1
  <2> QED BY <1>1, <2>1, <2>2 DEF FeedTypeOK, UploadRow
<1>3. upload'[u].stage = "ended"
  BY <1>0 DEF Move, New
<1>4. ASSUME NEW v \in Incoming, v # u PROVE CheckedStands(upload'[v], feed', replaced'[v])
  <2>1. upload'[v] = upload[v] /\ replaced'[v] = replaced[v] \cup {f \in moved : feed[f] # feed'[f]}
    BY <1>0, <1>4 DEF Move
  <2>2. \A f \in Asset : feed'[f] # feed[f] => f \in moved
    BY <1>0 DEF Move, FeedTypeOK
  <2>3. upload[v] \in UploadRow /\ CheckedStands(upload[v], feed, replaced[v])
    BY <1>0 DEF FeedInv
  <2>4. DOMAIN upload[v].list \subseteq Asset
    BY <2>3, ListsAreOfAssets DEF UploadRow
  <2> QED BY <2>1, <2>2, <2>3, <2>4 DEF CheckedStands
<1> QED BY <1>1, <1>2, <1>3, <1>4 DEF FeedInv, CheckedStands

LiveComplete ==
    \A c \in Channel : channel'[c] # channel[c] /\ ~halfway' =>
        \A f \in DOMAIN channel'[c] :
            \/ feed'[f] = channel'[c][f]
            \/ \E u \in Incoming : upload[u].stage = "checking" /\ upload'[u].stage = "ended"
                                 /\ f \in replaced[u] \ Brings(u)

LEMMA PublishIsComplete ==
  ASSUME FeedInv, NEW u \in Incoming, PublishUpload(u)
  PROVE  LiveComplete
<1>0. upload[u] \in UploadRow /\ CheckedStands(upload[u], feed, replaced[u]) /\ upload \in [Incoming -> UploadRow]
  BY DEF FeedInv
<1>1. upload[u].stage = "checking" /\ upload[u].left = {} /\ Move(u, Brings(u), TRUE)
  BY DEF PublishUpload
<1>2. upload'[u].stage = "ended" /\ \A c \in Channel : channel'[c] = upload[u].list
  BY <1>0, <1>1 DEF Move, New
<1>3. ASSUME NEW f \in DOMAIN upload[u].list
      PROVE  feed'[f] = upload[u].list[f] \/ f \in replaced[u] \ Brings(u)
  <2>1. f \in Asset
    BY <1>0, ListsAreOfAssets DEF UploadRow
  <2>2. feed'[f] = IF f \in Brings(u) THEN upload[u].files[f] ELSE feed[f]
    BY <1>1, <2>1 DEF Move
  <2> QED BY <1>0, <1>1, <2>1, <2>2 DEF CheckedStands, Brings
<1> QED BY <1>1, <1>2, <1>3 DEF LiveComplete

LEMMA NextFeed ==
  ASSUME FeedInv, [FeedNext]_feedVars
  PROVE  FeedInv' /\ LiveComplete
<1>1. CASE UNCHANGED feedVars
  BY <1>1 DEF FeedInv, FeedTypeOK, LiveComplete, feedVars
<1>2. ASSUME NEW u \in Incoming, ReceiveUpload(u) \/ RefuseUpload(u) \/ \E f \in Asset : CheckEntry(u, f)
      PROVE  FeedInv' /\ channel' = channel
  BY <1>2, UploadCheckKeeps DEF ReceiveUpload, RefuseUpload, CheckEntry
<1>3. ASSUME NEW u \in Incoming, PublishUpload(u) PROVE FeedInv' /\ LiveComplete
  <2>1. /\ Brings(u) \in SUBSET Brings(u) /\ Move(u, Brings(u), TRUE) /\ announced' = u
        /\ halfway' = halfway /\ halfway \in BOOLEAN
    BY <1>3 DEF PublishUpload, FeedInv, FeedTypeOK
  <2> QED BY <1>3, <2>1, MoveKeeps, PublishIsComplete
<1>4. ASSUME NEW u \in Incoming, PublishPartly(u) PROVE FeedInv' /\ halfway'
  <2>1. PICK moved \in SUBSET Brings(u), listed \in BOOLEAN :
          /\ Move(u, moved, listed)
          /\ announced' \in IF moved = Brings(u) /\ listed THEN {announced, "torn"} ELSE {announced}
    BY <1>4 DEF PublishPartly
  <2>2. announced' \in {announced, "torn", u} /\ halfway' = TRUE
    BY <1>4, <2>1 DEF PublishPartly
  <2> QED BY <2>1, <2>2, MoveKeeps
<1> QED BY <1>1, <1>2, <1>3, <1>4 DEF FeedNext, LiveComplete

\* However uploads run into each other, when a manifest goes live its packages are in
\* the feed with the bytes it says, but for packages another upload replaced after this
\* one had hashed them and for uploads that ended on the way (server/index.mjs).
THEOREM LiveManifestsStayComplete == FeedSpec => LiveManifestsAreComplete
<1>1. FeedInv /\ [FeedNext]_feedVars => FeedInv' /\ [LiveComplete]_feedVars
  BY NextFeed
<1>2. [LiveComplete]_feedVars =>
        [\A c \in Channel : channel'[c] # channel[c] /\ ~halfway' =>
          \A f \in DOMAIN channel'[c] :
              \/ feed'[f] = channel'[c][f]
              \/ \E u \in Incoming : upload[u].stage = "checking" /\ upload'[u].stage = "ended"
                                   /\ f \in replaced[u] \ Brings(u)]_feedVars
  BY DEF LiveComplete
<1> QED BY <1>1, <1>2, InitFeed, PTL DEF FeedSpec, LiveManifestsAreComplete

-----------------------------------------------------------------------------
(* The runs' properties. A step of the whole platform is a step of one     *)
(* module or leaves it alone, so what holds of each module's               *)
(* specification holds of the platform's.                                  *)

\* Every module starts as it does by itself.
LEMMA PlatformStarts ==
  PlatformInit => /\ AccountsInit /\ BillingInit /\ CollectionInit /\ AccessInit /\ MetricsInit
                  /\ StartupInit /\ WebInit /\ FilesInit /\ ReleasesInit /\ EnrollmentInit
                  /\ DrawerInit /\ DetailInit /\ AddInit /\ FeedInit
BY DEF PlatformInit

\* A step of the platform is one of a module, or leaves it alone.
LEMMA PlatformSteps ==
  [PlatformNext]_<<part, accountVars, billingVars, collectionVars, accessVars, metricsVars, startupVars,
                   webVars, fileVars, releaseVars, enrollmentVars, drawerVars, detailVars, addVars, feedVars>>
    => /\ [AccountsNext]_accountVars /\ [BillingNext]_billingVars /\ [CollectionNext]_collectionVars
       /\ [AccessNext]_accessVars /\ [MetricsNext]_metricsVars /\ [StartupNext]_startupVars
       /\ [WebNext]_webVars /\ [FilesNext]_fileVars /\ [ReleasesNext]_releaseVars
       /\ [EnrollmentNext]_enrollmentVars /\ [DrawerNext]_drawerVars /\ [DetailNext]_detailVars
       /\ [AddNext]_addVars /\ [FeedNext]_feedVars
<1> SUFFICES ASSUME [PlatformNext]_<<part, accountVars, billingVars, collectionVars, accessVars, metricsVars,
                                     startupVars, webVars, fileVars, releaseVars, enrollmentVars, drawerVars,
                                     detailVars, addVars, feedVars>>
             PROVE  /\ [AccountsNext]_accountVars /\ [BillingNext]_billingVars /\ [CollectionNext]_collectionVars
                    /\ [AccessNext]_accessVars /\ [MetricsNext]_metricsVars /\ [StartupNext]_startupVars
                    /\ [WebNext]_webVars /\ [FilesNext]_fileVars /\ [ReleasesNext]_releaseVars
                    /\ [EnrollmentNext]_enrollmentVars /\ [DrawerNext]_drawerVars /\ [DetailNext]_detailVars
                    /\ [AddNext]_addVars /\ [FeedNext]_feedVars
  OBVIOUS
<1>1. [AccountsNext]_accountVars
  BY DEF PlatformNext
<1>2. [BillingNext]_billingVars
  BY DEF PlatformNext
<1>3. [CollectionNext]_collectionVars
  BY DEF PlatformNext
<1>4. [AccessNext]_accessVars
  BY DEF PlatformNext
<1>5. [MetricsNext]_metricsVars
  BY DEF PlatformNext
<1>6. [StartupNext]_startupVars
  BY DEF PlatformNext
<1>7. [WebNext]_webVars
  BY DEF PlatformNext
<1>8. [FilesNext]_fileVars
  BY DEF PlatformNext
<1>9. [ReleasesNext]_releaseVars
  BY DEF PlatformNext
<1>10. [EnrollmentNext]_enrollmentVars
  BY DEF PlatformNext
<1>11. [DrawerNext]_drawerVars
  BY DEF PlatformNext
<1>12. [DetailNext]_detailVars
  BY DEF PlatformNext
<1>13. [AddNext]_addVars
  BY DEF PlatformNext
<1>14. [FeedNext]_feedVars
  BY DEF PlatformNext
<1> QED BY <1>1, <1>2, <1>3, <1>4, <1>5, <1>6, <1>7, <1>8, <1>9, <1>10, <1>11, <1>12, <1>13, <1>14

\* The state of the module that takes the steps stays within its types, whichever of
\* the platform's modules that is.
THEOREM PlatformTypeCorrect == PlatformSpec => []PlatformTypeOK
<1>1. /\ PlatformSpec => AccountsSpec /\ BillingSpec /\ CollectionSpec /\ AccessSpec /\ MetricsSpec
      /\ PlatformSpec => StartupSpec /\ WebSpec /\ FilesSpec /\ ReleasesSpec /\ EnrollmentSpec
      /\ PlatformSpec => DrawerSpec /\ DetailSpec /\ AddSpec /\ FeedSpec
  BY PlatformStarts, PlatformSteps, PTL
     DEF PlatformSpec, AccountsSpec, BillingSpec, CollectionSpec, AccessSpec, MetricsSpec, StartupSpec,
         WebSpec, FilesSpec, ReleasesSpec, EnrollmentSpec, DrawerSpec, DetailSpec, AddSpec, FeedSpec
<1>2. CollectionSpec => []CollectionTypeOK
  <2>1. CollectionInv => CollectionTypeOK
    BY DEF CollectionInv
  <2> QED BY <2>1, InitCollection, NextCollection, PTL DEF CollectionSpec
<1>3. AccessSpec => []AccessTypeOK
  <2>1. AccessInv => AccessTypeOK
    BY DEF AccessInv, AccessShaped
  <2> QED BY <2>1, InitAccess, NextAccess, PTL DEF AccessSpec
<1>4. StartupSpec => []StartupTypeOK
  <2>1. StartupInv => StartupTypeOK
    BY DEF StartupInv
  <2> QED BY <2>1, InitStartup, NextStartup, PTL DEF StartupSpec
<1>5. ReleasesSpec => []ReleasesTypeOK
  <2>1. ReleasesInv => ReleasesTypeOK
    BY DEF ReleasesInv
  <2>2. ReleasesInv /\ [ReleasesNext]_releaseVars => ReleasesInv'
    BY NextReleases
  <2> QED BY <2>1, <2>2, InitReleases, PTL DEF ReleasesSpec
<1>6. FeedSpec => []FeedTypeOK
  <2>1. FeedInv => FeedTypeOK
    BY DEF FeedInv
  <2>2. FeedInv /\ [FeedNext]_feedVars => FeedInv'
    BY NextFeed
  <2> QED BY <2>1, <2>2, InitFeed, PTL DEF FeedSpec
<1>7. AccountsTypeOK /\ BillingTypeOK /\ CollectionTypeOK /\ AccessTypeOK /\ MetricsTypeOK /\ StartupTypeOK
      /\ WebTypeOK /\ FilesTypeOK /\ ReleasesTypeOK /\ EnrollmentTypeOK /\ DrawerTypeOK /\ DetailTypeOK
      /\ AddTypeOK /\ FeedTypeOK => PlatformTypeOK
  BY DEF PlatformTypeOK
<1> QED BY <1>1, <1>2, <1>3, <1>4, <1>5, <1>6, <1>7, AccountsTypeCorrect, BillingTypeCorrect,
           MetricsStayComplete, OneTabStaysSignedIn, NoFileIsLost, EnrollmentTypeCorrect,
           DrawerStaysOnItsWorkload, ServerPageStaysSound, AddingStaysSound, PTL

\* A history whose window fits a page holds what is retained of it, the workloads shown
\* are those of the newest inventory, and a drawer's output is of the open workload
\* unless the drawer moved on while it waited.
THEOREM MetricsStayCurrent == PlatformSpec => []MetricsAreCurrent
<1>1. PlatformSpec => MetricsSpec /\ DrawerSpec
  BY PlatformStarts, PlatformSteps, PTL DEF PlatformSpec, MetricsSpec, DrawerSpec
<1> QED BY <1>1, MetricsStayComplete, DrawerStaysOnItsWorkload, PTL DEF MetricsAreCurrent

\* The console as a whole: its session, its page of servers and the page of one
\* server keep what their theorems state, with the exceptions these name: lost answers
\* and several tabs, a page that moved on while it waited, a list asked for too early.
THEOREM ConsoleStaysSound == PlatformSpec => []ConsoleIsSound
<1>1. PlatformSpec => WebSpec /\ DetailSpec /\ AddSpec
  BY PlatformStarts, PlatformSteps, PTL DEF PlatformSpec, WebSpec, DetailSpec, AddSpec
<1> QED BY <1>1, OneTabStaysSignedIn, ServerPageStaysSound, AddingStaysSound, PTL DEF ConsoleIsSound

\* A manifest goes live after the packages it names, through the administration of
\* the platform and through the website's feed.
THEOREM ManifestsStayComplete == PlatformSpec => ManifestsAreComplete
<1>1. PlatformSpec => ReleasesSpec /\ FeedSpec
  BY PlatformStarts, PlatformSteps, PTL DEF PlatformSpec, ReleasesSpec, FeedSpec
<1> QED BY <1>1, NewManifestsStayComplete, LiveManifestsStayComplete, PTL DEF ManifestsAreComplete

\* What was recorded stays: a scale plan of an administrator; and a host fingerprint and
\* a secret, but for collections and tests under way that had loaded another.
THEOREM RecordsStayRecorded == PlatformSpec => RecordsStand
<1>1. PlatformSpec => BillingSpec /\ CollectionSpec
  BY PlatformStarts, PlatformSteps, PTL DEF PlatformSpec, BillingSpec, CollectionSpec
<1> QED BY <1>1, ScalePlansStand, FingerprintsStand, SecretsStand, PTL DEF RecordsStand

===============================================================================
