------------------------- MODULE TelemetryDelivery -------------------------
(***************************************************************************)
(* The native agent's path from a host sample to a PostgreSQL row: the     *)
(* collector goroutine (collector.go) fills batches and puts them into the *)
(* durable spool (spool.go); the stream goroutine (runtime.go, connect)    *)
(* sends one batch at a time to the gateway; the gateway (server.go,       *)
(* store.go) commits it and acknowledges; the agent removes the file and   *)
(* records the acknowledgement (identity.go).  Streams break, processes    *)
(* are killed, hosts reboot, wall clocks step back, and a message of a     *)
(* broken stream may still reach the gateway.                              *)
(*                                                                         *)
(* Abstractions: a boot ID is a number, its order standing for the order   *)
(* of file names; a file's modification time is a tick of a logical clock  *)
(* that advances at every write; the size of a batch is its number of      *)
(* samples; the verdict of validateMetricBatch is free, because it depends *)
(* on clocks and capabilities that are not part of this module.            *)
(***************************************************************************)
EXTENDS Naturals, FiniteSets

CONSTANTS
  Boots,                \* boot IDs the host may have
  MaximumBytes,         \* capacity of the spool, in samples
  MaximumQuarantined,   \* files kept under rejected/ (16 in the code)
  MaxSequence,          \* bound: samples numbered per boot
  MaxStarts,            \* bound: starts of the agent process
  MaxFaults,            \* bound: stream breaks and failed writes
  MaxClockSteps,        \* bound: backward steps of the wall clock
  MaxExpirations,       \* bound: rows deleted by retention
  NoItem                \* no batch in flight

Sample == [boot : Boots, sequence : 1..MaxSequence, process : 1..MaxStarts]

(* An indexed spool file: SpoolItem, with the batch the file holds.        *)
Item == [boot : Boots, first : 1..MaxSequence, last : 1..MaxSequence,
         samples : SUBSET Sample, mtime : Nat]

ASSUME DeliveryAssumption ==
  /\ Boots \subseteq Nat \ {0}
  /\ MaximumBytes \in Nat \ {0} /\ MaximumQuarantined \in Nat \ {0}
  /\ MaxSequence \in Nat \ {0} /\ MaxStarts \in Nat \ {0}
  /\ MaxFaults \in Nat /\ MaxClockSteps \in Nat /\ MaxExpirations \in Nat
  /\ NoItem \notin Item

VARIABLES
  running, starts,      \* is the process up; how often it was started
  boot,                 \* metadata.BootID of the running kernel
  lastSequence,         \* identity.LastSequence in memory
  batch, collector,     \* the collector's open batch, and where it stands
  acked,                \* identity.Acknowledged{BootID,Sequence} in memory
  identityFile,         \* identity.json
  spool, quarantine,    \* files of spool/ (s.items) and of spool/rejected/
  clock,                \* wall clock: modification time of the next file
  phase, stream,        \* where connect() stands; number of its stream
  awaiting,             \* the batch taken from the spool, or NoItem
  wire, replies,        \* messages to the gateway, messages to the agent
  rows,                 \* system_metric_samples
  rolledUp, recounted,  \* samples a rollup has counted, and counted again
  agentRow,             \* agent_identities.{boot_id,last_acknowledged_sequence}
  faults, clockSteps, expirations,           \* bounds used up
  accepted, committed, evicted, rejected     \* history: samples spooled, inserted as a row, ...

agentVars == <<running, starts, boot, lastSequence, batch, collector>>
diskVars == <<identityFile, spool, quarantine, clock>>
streamVars == <<phase, stream, awaiting, acked>>
netVars == <<wire, replies>>
gatewayVars == <<rows, rolledUp, recounted, agentRow>>
boundVars == <<faults, clockSteps, expirations>>
historyVars == <<accepted, committed, evicted, rejected>>
vars == <<agentVars, diskVars, streamVars, netVars, gatewayVars, boundVars, historyVars>>

Acknowledged == [boot : Boots \cup {0}, sequence : 0..MaxSequence]

(* Hello and metric batch to the gateway; welcome, acknowledgement and     *)
(* status error to the agent.                                              *)
Message == [stream : Nat, kind : {"hello"}, boot : Boots, item : {NoItem}]
           \cup [stream : Nat, kind : {"batch"}, boot : Boots, item : Item]
Reply == [stream : Nat, kind : {"welcome"}, item : {NoItem}]
         \cup [stream : Nat, kind : {"ack", "reject"}, item : Item]

Phase == {"offline", "greeting", "streaming", "sending", "waiting", "recording"}

TypeOK ==
  /\ running \in BOOLEAN /\ starts \in 0..MaxStarts
  /\ boot \in Boots \cup {0} /\ lastSequence \in 0..MaxSequence
  /\ batch \subseteq Sample /\ collector \in {"sampling", "persisting"}
  /\ acked \in Acknowledged
  /\ identityFile \in [boot : Boots \cup {0}, last : 0..MaxSequence, acked : Acknowledged]
  /\ spool \subseteq Item /\ quarantine \subseteq Item /\ clock \in Nat
  /\ phase \in Phase /\ stream \in Nat /\ awaiting \in Item \cup {NoItem}
  /\ wire \subseteq Message /\ replies \subseteq Reply
  /\ rows \subseteq Sample /\ rolledUp \subseteq Sample /\ recounted \subseteq Sample
  /\ agentRow \in Acknowledged
  /\ faults \in 0..MaxFaults /\ clockSteps \in 0..MaxClockSteps
  /\ expirations \in 0..MaxExpirations
  /\ accepted \subseteq Sample /\ committed \subseteq Sample
  /\ evicted \subseteq Sample /\ rejected \subseteq Sample

-----------------------------------------------------------------------------
(* The spool.                                                              *)

SameFile(i, j) == i.boot = j.boot /\ i.first = j.first /\ i.last = j.last

(* Mutant: the index is sorted newest first.                               *)
ItemLessNewestFirst(i, j) == i.mtime > j.mtime

(* spoolItemLess: by modification time, then by path.                      *)
ItemLess(i, j) ==
  \/ i.mtime < j.mtime
  \/ /\ i.mtime = j.mtime
     /\ \/ i.boot < j.boot
        \/ i.boot = j.boot /\ i.first < j.first
        \/ i.boot = j.boot /\ i.first = j.first /\ i.last < j.last

(* Mutant: the last file of the index is not offered.                      *)
IsOldestOfTwo(i) == i \in spool /\ \E j \in spool : ItemLess(i, j)

(* Oldest() offers the head of the index.                                  *)
IsOldest(i) == i \in spool /\ \A j \in spool : ~ItemLess(j, i)

SamplesOf(items) == UNION {i.samples : i \in items}

UsedBytes(items) == Cardinality(SamplesOf(items))

(* Mutant: makeRoom forgets the size of the incoming batch.                *)
SurvivorsIgnoringRequired(required) ==
  {i \in spool : UsedBytes({j \in spool : ~ItemLess(j, i)}) <= MaximumBytes}

(* makeRoom evicts the head of the index until the new file fits, so an    *)
(* item survives when it and all that follow it leave enough room.         *)
Survivors(required) ==
  {i \in spool : UsedBytes({j \in spool : ~ItemLess(j, i)}) + required <= MaximumBytes}

(* Mutant: an acknowledgement is applied to every boot.                    *)
PrunedInEveryBoot(bootID, through) == {i \in spool : ~(i.last <= through)}

(* Acknowledge(bootID, through): every batch of the boot up to through.    *)
Pruned(bootID, through) == {i \in spool : ~(i.boot = bootID /\ i.last <= through)}

(* AcknowledgeItem and removeIndexedItem drop one file, found by its path. *)
Without(item) == {i \in spool : ~SameFile(i, item)}

(* Mutant: the durable spool is not consulted at startup.                  *)
SpoolNotConsulted(bootID, n) == n = 0

(* HighestSequence(bootID).                                                *)
IsHighestSequence(bootID, n) ==
  /\ n \in {0} \cup {i.last : i \in {j \in spool : j.boot = bootID}}
  /\ \A i \in spool : i.boot = bootID => i.last <= n

-----------------------------------------------------------------------------
Init ==
  /\ running = FALSE /\ starts = 0 /\ boot = 0 /\ lastSequence = 0
  /\ batch = {} /\ collector = "sampling"
  /\ acked = [boot |-> 0, sequence |-> 0]
  /\ identityFile = [boot |-> 0, last |-> 0, acked |-> [boot |-> 0, sequence |-> 0]]
  /\ spool = {} /\ quarantine = {} /\ clock = 1
  /\ phase = "offline" /\ stream = 0 /\ awaiting = NoItem
  /\ wire = {} /\ replies = {}
  /\ rows = {} /\ rolledUp = {} /\ recounted = {}
  /\ agentRow = [boot |-> 0, sequence |-> 0]
  /\ faults = 0 /\ clockSteps = 0 /\ expirations = 0
  /\ accepted = {} /\ committed = {} /\ evicted = {} /\ rejected = {}

(* NewRuntime: load the identity and the spool index, and never number a   *)
(* sample at or below what the spool already holds for this boot.  The     *)
(* process restarts under the same kernel, or after a reboot.              *)
Start(bootID) ==
  /\ ~running /\ starts < MaxStarts
  /\ bootID = boot \/ bootID \notin {s.boot : s \in accepted}
  /\ \E highest \in 0..MaxSequence :
       /\ IsHighestSequence(bootID, highest)
       /\ lastSequence' = IF identityFile.boot = bootID /\ identityFile.last >= highest
                          THEN identityFile.last ELSE highest
  /\ identityFile' = [identityFile EXCEPT !.boot = bootID, !.last = lastSequence']
  /\ running' = TRUE /\ starts' = starts + 1 /\ boot' = bootID
  /\ acked' = identityFile.acked
  /\ UNCHANGED <<batch, collector, spool, quarantine, clock, phase, stream, awaiting,
                 netVars, gatewayVars, boundVars, historyVars>>

(* The process is killed, or stops before its last flush: memory is gone.  *)
Crash ==
  /\ running /\ starts < MaxStarts
  /\ running' = FALSE /\ lastSequence' = 0 /\ batch' = {} /\ collector' = "sampling"
  /\ acked' = [boot |-> 0, sequence |-> 0]
  /\ phase' = "offline" /\ awaiting' = NoItem /\ replies' = {}
  /\ UNCHANGED <<starts, boot, diskVars, stream, wire, gatewayVars, boundVars, historyVars>>

(* Files written from now on look older than files written before.         *)
ClockStepsBack ==
  /\ clockSteps < MaxClockSteps
  /\ clock' \in 0..(clock - 1)
  /\ clockSteps' = clockSteps + 1
  /\ UNCHANGED <<agentVars, identityFile, spool, quarantine, streamVars, netVars,
                 gatewayVars, faults, expirations, historyVars>>

-----------------------------------------------------------------------------
(* The collector goroutine.                                                *)

(* A sample timer tick: the sequence is used up even if Collect fails.     *)
Collect ==
  /\ running /\ collector = "sampling" /\ lastSequence < MaxSequence
  /\ lastSequence' = lastSequence + 1
  /\ \/ batch' = batch \cup {[boot |-> boot, sequence |-> lastSequence', process |-> starts]}
     \/ UNCHANGED batch
  /\ UNCHANGED <<running, starts, boot, collector, diskVars, streamVars, netVars,
                 gatewayVars, boundVars, historyVars>>

(* flushBatch as far as Put: make room, then write and index the file.     *)
(* A batch larger than the whole spool is dropped before anything is       *)
(* evicted; a failed write drops it after the eviction.                    *)
Flush ==
  /\ running /\ collector = "sampling" /\ batch # {}
  /\ batch' = {}
  /\ LET required == Cardinality(batch)
         kept == Survivors(required)
     IN  \/ /\ required > MaximumBytes
            /\ UNCHANGED <<collector, spool, clock, evicted, accepted, faults>>
         \/ /\ required <= MaximumBytes
            /\ \E first, last \in {s.sequence : s \in batch} :
                 /\ \A s \in batch : first <= s.sequence /\ s.sequence <= last
                 /\ spool' = kept \cup {[boot |-> boot, first |-> first, last |-> last,
                                         samples |-> batch, mtime |-> clock]}
            /\ clock' = clock + 1
            /\ evicted' = evicted \cup SamplesOf(spool \ kept)
            /\ accepted' = accepted \cup batch
            /\ collector' = "persisting"
            /\ UNCHANGED faults
         \/ /\ required <= MaximumBytes /\ faults < MaxFaults
            /\ spool' = kept
            /\ evicted' = evicted \cup SamplesOf(spool \ kept)
            /\ faults' = faults + 1
            /\ UNCHANGED <<collector, clock, accepted>>
  /\ UNCHANGED <<running, starts, boot, lastSequence, identityFile, quarantine, streamVars,
                 netVars, gatewayVars, clockSteps, expirations, committed, rejected>>

SaveIdentity(acknowledged) ==
  identityFile' = [boot |-> boot, last |-> lastSequence, acked |-> acknowledged]

(* The rest of flushBatch: PersistSequence, whose failure is only logged.  *)
PersistSequence ==
  /\ running /\ collector = "persisting"
  /\ collector' = "sampling"
  /\ SaveIdentity(acked)
  /\ UNCHANGED <<running, starts, boot, lastSequence, batch, spool, quarantine, clock,
                 streamVars, netVars, gatewayVars, boundVars, historyVars>>

PersistSequenceFails ==
  /\ running /\ collector = "persisting" /\ faults < MaxFaults
  /\ collector' = "sampling"
  /\ faults' = faults + 1
  /\ UNCHANGED <<running, starts, boot, lastSequence, batch, diskVars, streamVars, netVars,
                 gatewayVars, clockSteps, expirations, historyVars>>

-----------------------------------------------------------------------------
(* The stream goroutine.                                                   *)

Disconnected ==
  /\ phase' = "offline" /\ awaiting' = NoItem /\ replies' = {}
  /\ UNCHANGED <<stream, acked>>

OpenStream ==
  /\ running /\ phase = "offline"
  /\ phase' = "greeting" /\ stream' = stream + 1
  /\ wire' = wire \cup {[stream |-> stream', kind |-> "hello", boot |-> boot, item |-> NoItem]}
  /\ UNCHANGED <<agentVars, diskVars, awaiting, acked, replies, gatewayVars, boundVars, historyVars>>

(* The stream breaks, or the certificate is due for rotation.              *)
BreakStream ==
  /\ phase \in {"greeting", "streaming", "sending", "waiting"} /\ faults < MaxFaults
  /\ faults' = faults + 1
  /\ Disconnected
  /\ UNCHANGED <<agentVars, diskVars, wire, gatewayVars, clockSteps, expirations, historyVars>>

(* On the welcome the agent prunes what an earlier stream acknowledged.    *)
ReceiveWelcome ==
  /\ phase = "greeting"
  /\ \E r \in replies : r.kind = "welcome" /\ replies' = replies \ {r}
  /\ spool' = IF acked.boot = 0 THEN spool ELSE Pruned(acked.boot, acked.sequence)
  /\ phase' = "streaming"
  /\ UNCHANGED <<agentVars, identityFile, quarantine, clock, stream, awaiting, acked, wire,
                 gatewayVars, boundVars, historyVars>>

(* Oldest() returns a copy of the head of the index and unlocks the spool. *)
TakeOldest ==
  /\ phase = "streaming"
  /\ \E i \in spool : IsOldest(i) /\ awaiting' = i
  /\ phase' = "sending"
  /\ UNCHANGED <<agentVars, diskVars, stream, acked, netVars, gatewayVars, boundVars, historyVars>>

(* Read() finds the file again by its path, then the stream sends it.      *)
SendBatch ==
  /\ phase = "sending"
  /\ \E i \in spool :
       /\ SameFile(i, awaiting)
       /\ wire' = wire \cup {[stream |-> stream, kind |-> "batch", boot |-> i.boot, item |-> i]}
  /\ phase' = "waiting"
  /\ UNCHANGED <<agentVars, diskVars, stream, awaiting, acked, replies, gatewayVars,
                 boundVars, historyVars>>

(* The collector evicted the file in between: connect() returns the error. *)
ReadFails ==
  /\ phase = "sending" /\ \A i \in spool : ~SameFile(i, awaiting)
  /\ Disconnected
  /\ UNCHANGED <<agentVars, diskVars, wire, gatewayVars, boundVars, historyVars>>

(* acknowledgedCurrent                                                     *)
AcknowledgesCurrent(r) ==
  awaiting # NoItem /\ awaiting.boot = r.item.boot /\ awaiting.last <= r.item.last

(* An acknowledgement first removes the batch in flight, by its path...    *)
ReceiveAck ==
  /\ phase \in {"streaming", "waiting"}
  /\ \E r \in replies :
       /\ r.kind = "ack"
       /\ spool' = IF AcknowledgesCurrent(r) THEN Without(awaiting)
                   ELSE Pruned(r.item.boot, r.item.last)
  /\ phase' = "recording"
  /\ UNCHANGED <<agentVars, identityFile, quarantine, clock, stream, awaiting, acked, netVars,
                 gatewayVars, boundVars, historyVars>>

(* Mutant: the next expected sequence is recorded, not the last received.  *)
AckedThroughNext(item) == [boot |-> item.boot, sequence |-> item.last + 1]

(* Acknowledge of the identity: never backwards within a boot.             *)
AckedThrough(item) ==
  IF acked.boot = item.boot /\ acked.sequence >= item.last
  THEN acked ELSE [boot |-> item.boot, sequence |-> item.last]

(* ...and then records it in identity.json.                                *)
RecordAck ==
  /\ phase = "recording"
  /\ \E r \in replies :
       /\ r.kind = "ack" /\ replies' = replies \ {r}
       /\ acked' = AckedThrough(r.item)
       /\ SaveIdentity(acked')
       /\ awaiting' = IF AcknowledgesCurrent(r) THEN NoItem ELSE awaiting
  /\ phase' = IF awaiting' = NoItem THEN "streaming" ELSE "waiting"
  /\ UNCHANGED <<agentVars, spool, quarantine, clock, stream, wire, gatewayVars, boundVars,
                 historyVars>>

RecordAckFails ==
  /\ phase = "recording" /\ faults < MaxFaults
  /\ \E r \in replies : r.kind = "ack" /\ acked' = AckedThrough(r.item)
  /\ phase' = "offline" /\ awaiting' = NoItem /\ replies' = {}
  /\ faults' = faults + 1
  /\ UNCHANGED <<agentVars, diskVars, stream, wire, gatewayVars, clockSteps, expirations,
                 historyVars>>

Renamed(item) == {i \in spool : SameFile(i, item)}

(* Quarantine renames the file into rejected/ and drops the oldest files   *)
(* beyond the bound.  Renaming a file that was evicted meanwhile fails.    *)
ReceiveReject ==
  /\ phase = "waiting"
  /\ \E r \in replies : r.kind = "reject"
  /\ LET renamed == Renamed(awaiting)
         moved == {i \in quarantine : ~SameFile(i, awaiting)} \cup renamed
     IN  /\ spool' = spool \ renamed
         /\ \E removed \in SUBSET moved :
              /\ Cardinality(moved \ removed) <= MaximumQuarantined
              /\ removed # {} => Cardinality(moved \ removed) = MaximumQuarantined
              /\ \A i \in removed, j \in moved \ removed : i.mtime <= j.mtime
              /\ quarantine' = IF renamed = {} THEN quarantine ELSE moved \ removed
         /\ rejected' = rejected \cup SamplesOf(renamed)
  /\ Disconnected
  /\ UNCHANGED <<agentVars, identityFile, clock, wire, gatewayVars, boundVars,
                 accepted, committed, evicted>>

(* The poll ticker of an idle stream with nothing to send.                 *)
Poll ==
  /\ phase = "streaming" /\ \A i \in spool : ~IsOldest(i)
  /\ UNCHANGED vars

-----------------------------------------------------------------------------
(* The gateway.  A message of an abandoned stream may still be handled;    *)
(* only the agent's current stream carries the answer back.                *)

(* Mutant: the answer reaches whatever stream the agent has now.           *)
AnswerOnAnyStream(m, kind) ==
  /\ wire' = wire \ {m}
  /\ replies' = replies \cup {[stream |-> stream, kind |-> kind, item |-> m.item]}

Answer(m, kind) ==
  /\ wire' = wire \ {m}
  /\ replies' = IF m.stream = stream /\ phase # "offline"
                THEN replies \cup {[stream |-> stream, kind |-> kind, item |-> m.item]}
                ELSE replies

(* MarkConnected takes over the boot ID of the hello.                      *)
HandleHello ==
  /\ \E m \in wire :
       /\ m.kind = "hello"
       /\ agentRow' = [agentRow EXCEPT !.boot = m.boot]
       /\ Answer(m, "welcome")
  /\ UNCHANGED <<agentVars, diskVars, streamVars, rows, rolledUp, recounted, boundVars, historyVars>>

(* Mutant: the insert has no conflict clause.                              *)
InsertedUnconditionally(samples) == samples

(* ON CONFLICT (server_id, boot_id, agent_sequence) DO NOTHING.            *)
Inserted(samples) ==
  {s \in samples : \A r \in rows : r.boot # s.boot \/ r.sequence # s.sequence}

NextAgentRow(item) ==
  [boot |-> item.boot,
   sequence |-> IF agentRow.boot = item.boot /\ agentRow.sequence >= item.last
                THEN agentRow.sequence ELSE item.last]

(* SaveMetricBatch: one transaction.  A sample enters its one-minute       *)
(* rollup exactly when its row was inserted; the batch is acknowledged as  *)
(* a whole, also when the conflict clause has dropped samples of it.  A    *)
(* transaction that fails is a broken stream whose message is lost.        *)
SaveMetricBatch ==
  /\ \E m \in wire :
       /\ m.kind = "batch"
       /\ LET inserted == Inserted(m.item.samples) IN
          /\ rows' = rows \cup inserted
          /\ rolledUp' = rolledUp \cup inserted
          /\ recounted' = recounted \cup (inserted \cap rolledUp)
          /\ committed' = committed \cup inserted
       /\ agentRow' = NextAgentRow(m.item)
       /\ Answer(m, "ack")
  /\ UNCHANGED <<agentVars, diskVars, streamVars, boundVars, accepted, evicted, rejected>>

RejectBatch ==
  /\ \E m \in wire : m.kind = "batch" /\ Answer(m, "reject")
  /\ UNCHANGED <<agentVars, diskVars, streamVars, gatewayVars, boundVars, historyVars>>

(* What a broken stream still carried is lost.                             *)
LoseMessage ==
  /\ \E m \in wire : (m.stream # stream \/ phase = "offline") /\ wire' = wire \ {m}
  /\ UNCHANGED <<agentVars, diskVars, streamVars, replies, gatewayVars, boundVars, historyVars>>

(* cleanRetention deletes an agent sample older than 24 hours; the rollup  *)
(* stays.                                                                  *)
ExpireRow ==
  /\ expirations < MaxExpirations
  /\ \E s \in rows : rows' = rows \ {s}
  /\ expirations' = expirations + 1
  /\ UNCHANGED <<agentVars, diskVars, streamVars, netVars, rolledUp, recounted, agentRow,
                 faults, clockSteps, historyVars>>

-----------------------------------------------------------------------------
Next ==
  \/ \E b \in Boots : Start(b)
  \/ Crash \/ ClockStepsBack
  \/ Collect \/ Flush \/ PersistSequence \/ PersistSequenceFails
  \/ OpenStream \/ BreakStream \/ ReceiveWelcome \/ TakeOldest \/ SendBatch \/ ReadFails
  \/ ReceiveAck \/ RecordAck \/ RecordAckFails \/ ReceiveReject \/ Poll
  \/ HandleHello \/ SaveMetricBatch \/ RejectBatch \/ LoseMessage \/ ExpireRow

Spec == Init /\ [][Next]_vars

(* Both goroutines keep running, the supervisor restarts the process, and  *)
(* the gateway handles what reaches it.  Nothing is assumed of the verdict *)
(* on a batch, of new samples, or of faults ever happening or not.         *)
Fairness ==
  /\ WF_vars(\E b \in Boots : Start(b))
  /\ WF_vars(Flush) /\ WF_vars(PersistSequence)
  /\ WF_vars(OpenStream) /\ WF_vars(ReceiveWelcome) /\ WF_vars(TakeOldest)
  /\ WF_vars(SendBatch \/ ReadFails) /\ WF_vars(ReceiveAck) /\ WF_vars(RecordAck)
  /\ WF_vars(ReceiveReject)
  /\ WF_vars(HandleHello) /\ WF_vars(SaveMetricBatch \/ RejectBatch)

FairSpec == Spec /\ Fairness

-----------------------------------------------------------------------------
(* Properties.                                                             *)

(* The agent trusts that whatever arrives while a batch is in flight is    *)
(* the answer to that very batch: it deletes or quarantines `awaiting`     *)
(* without comparing anything but boot and sequence (runtime.go:333-360).  *)
AnswersMatchTheBatchInFlight ==
  \A r \in replies :
    \/ r.kind = "welcome" /\ phase = "greeting"
    \/ r.kind = "ack" /\ phase \in {"waiting", "recording"} /\ r.item = awaiting
    \/ r.kind = "reject" /\ phase = "waiting" /\ r.item = awaiting

(* Across crashes, reboots, evictions and unsaved sequences, two files of  *)
(* the spool never cover the same sequence of a boot, so none overwrites   *)
(* another (spool.go:81, runtime.go:69-77).                                *)
SpooledSequencesDisjoint ==
  \A i, j \in spool :
    i.boot = j.boot /\ i # j => i.last < j.first \/ j.last < i.first

(* The offline queue never outgrows its cap (spool.go:78, 245-258).        *)
SpoolWithinCapacity == UsedBytes(spool) <= MaximumBytes

(* Retries, reconnects and late messages of dead streams never add the     *)
(* same sample to a rollup twice (store.go:382-394).                       *)
RollupCountsEachSampleOnce == recounted = {}

(* Even after retention, PostgreSQL holds at most one row per boot and     *)
(* sequence (store.go:507-509), and every row reached its rollup.          *)
RowsAreUnique ==
  /\ \A r, t \in rows : r.boot = t.boot /\ r.sequence = t.sequence => r = t
  /\ rows \subseteq rolledUp

(* Spooled samples that PostgreSQL has never had, because an earlier       *)
(* process of the boot delivered another sample under their number: what   *)
(* the reuse of sequences that SequenceNamesOneSample is about leads to.   *)
Shadowed ==
  {s \in accepted \ committed :
     \E t \in committed : t.boot = s.boot /\ t.sequence = s.sequence /\ t.process < s.process}

(* A batch leaves the spool only once each of its samples has a row in     *)
(* PostgreSQL, or was evicted for room, or quarantined                     *)
(* (docs/NATIVE_AGENT.md:73-74).  One thing excepted: a sample whose       *)
(* number an earlier process had used and delivered goes without a row.    *)
DeletedOnlyAfterCommit ==
  [][\A i \in spool \ spool' :
       i.samples \subseteq committed \cup evicted' \cup rejected' \cup Shadowed]_vars

(* The cap evicts the oldest batches: what goes was collected before what  *)
(* stays, the batch just written included (docs/NATIVE_AGENT.md:73).       *)
EvictsOldestFirst ==
  [][evicted' # evicted =>
       \A i \in spool \ spool', j \in spool' : i.boot = j.boot => i.last < j.first]_vars

(* Sequences are monotonic per boot: no two batches ever spooled number    *)
(* two samples alike (SECURITY.md:54-55).                                  *)
SequenceNamesOneSample ==
  \A s, t \in accepted : s.boot = t.boot /\ s.sequence = t.sequence => s = t

-----------------------------------------------------------------------------
(* The pipeline implements the contract.                                   *)

FateOf(s) ==
  IF s \in committed THEN "committed"
  ELSE IF s \in SamplesOf(spool) THEN "pending"
  ELSE IF s \in rejected THEN "quarantined"
  ELSE IF s \in evicted THEN "evicted"
  ELSE IF s \in Shadowed THEN "shadowed"
  ELSE IF s \in accepted THEN "lost"
  ELSE "unborn"

Contract == INSTANCE TelemetryContract WITH fate <- [s \in Sample |-> FateOf(s)]

(* Every step is a step of the contract: a spooled sample gets its row, is *)
(* evicted or quarantined, or has the number of a sample that an earlier   *)
(* process delivered; it is never lost otherwise.                          *)
ImplementsContract == Contract!ContractSpec

(* No spooled sample stays pending for ever: no batch that the gateway     *)
(* rejects blocks the ones behind it (docs/NATIVE_AGENT.md:130-133).  It   *)
(* takes files that can be read and removed: a head of the queue that does *)
(* not decode (spool.go:127-130), or that the file system does not let go  *)
(* (spool.go:141-143), ends every stream and blocks the queue.             *)
PendingIsResolved == Contract!PendingIsResolved
=============================================================================
