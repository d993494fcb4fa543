---------------------- MODULE TelemetryContractProofs ----------------------
(***************************************************************************)
(* On a host whose wall clock never steps back, the delivery pipeline      *)
(* implements TelemetryContract: a spooled sample that leaves the spool    *)
(* has its row, was evicted or quarantined, or has the number of one that  *)
(* an earlier process delivered.  The invariant says why: files are in the *)
(* order of their sequences, so what an acknowledgement covers has been    *)
(* sent before.                                                            *)
(***************************************************************************)
EXTENDS TelemetryDeliveryProofs

(* Modification times order the files of a boot by sequence.               *)
FilesInOrder ==
  /\ \A i \in spool : i.mtime < clock
  /\ \A i, j \in spool :
       i.boot = j.boot /\ i # j /\ i.mtime <= j.mtime => i.last < j.first

(* What is behind the batch in flight has higher sequences.                *)
OldestInFlight ==
  awaiting # NoItem =>
    \A j \in spool : j.boot = awaiting.boot /\ j # awaiting => awaiting.last < j.first

(* PostgreSQL has had a row of the sample's number, its own or another's.  *)
Recorded ==
  {s \in Sample : \E t \in committed : t.boot = s.boot /\ t.sequence = s.sequence}

(* What a recorded acknowledgement covers is recorded, now and later.      *)
SoundAcknowledgement(a) ==
  /\ \A i \in spool : i.boot = a.boot /\ i.last <= a.sequence => i.samples \subseteq Recorded
  /\ running /\ a.boot = boot => /\ a.sequence <= lastSequence
                                 /\ \A s \in batch : a.sequence < s.sequence
  /\ a.boot = 0 \/ \E s \in accepted : s.boot = a.boot

IdentityInv ==
  /\ identityFile.boot = boot
  /\ identityFile.acked.boot = boot => identityFile.acked.sequence <= identityFile.last

(* Every sample of a file, a message or an answer has been spooled before. *)
AcceptedInv ==
  /\ \A i \in Known : /\ i.samples # {} /\ i.samples \subseteq accepted
                      /\ \A s \in i.samples : s.boot = i.boot /\ s.sequence <= i.last
  /\ \A m \in wire : m.kind = "batch" => m.item.samples \subseteq accepted
  /\ \A r \in replies : r.kind = "ack" => r.item.samples \subseteq Recorded
  /\ rows \subseteq committed

(* A process never collects a sample it has spooled.                       *)
FreshBatch ==
  \A s \in accepted :
    /\ s.process <= starts
    /\ running /\ s.process = starts => /\ s.sequence <= lastSequence
                                        /\ \A t \in batch : s.sequence < t.sequence

(* A spooled sample is in one file, and has never been put aside.          *)
OneFilePerSample ==
  /\ \A i, j \in spool : i # j => i.samples \cap j.samples = {}
  /\ (rejected \cup evicted) \cap SamplesOf(spool) = {}

NothingLost ==
  /\ accepted = committed \cup SamplesOf(spool) \cup rejected \cup evicted \cup Shadowed
  /\ committed \subseteq Sample

(* A restarted process numbers its samples above all that is in the spool. *)
NumbersGrow ==
  \A i \in spool, t \in accepted :
    \A s \in i.samples : t.boot = i.boot /\ s.process < t.process => i.last < t.sequence

DeliveryInv ==
  /\ FilesInOrder /\ OldestInFlight
  /\ SoundAcknowledgement(acked) /\ SoundAcknowledgement(identityFile.acked)
  /\ IdentityInv /\ AcceptedInv /\ FreshBatch /\ OneFilePerSample
  /\ NothingLost /\ NumbersGrow

LEMMA InitDeliveryInv == Init => DeliveryInv
  BY DeliveryAssumption DEF Init, DeliveryInv, FilesInOrder, OldestInFlight, SoundAcknowledgement,
     IdentityInv, AcceptedInv, Known, FreshBatch, OneFilePerSample, NothingLost, NumbersGrow,
     Shadowed, SamplesOf

-----------------------------------------------------------------------------
(* What a step may do to the disk and to the history.                      *)

LEMMA OnlyFlushWrites ==
  ASSUME MaxClockSteps = 0, TypeInv, [Next]_vars, ~Flush
  PROVE  /\ spool' \subseteq spool
         /\ UNCHANGED <<accepted, evicted, clock>>
<1>1. ~ClockStepsBack
  BY MaxClockSteps = 0 DEF TypeInv, TypeOK, ClockStepsBack
<1>2. UNCHANGED <<accepted, evicted, clock>>
  BY <1>1 DEF Next, vars, diskVars, historyVars, Start, Crash, Collect,
     PersistSequence, PersistSequenceFails, OpenStream, BreakStream, ReceiveWelcome, TakeOldest,
     SendBatch, ReadFails, ReceiveAck, RecordAck, RecordAckFails, ReceiveReject, Poll,
     HandleHello, SaveMetricBatch, RejectBatch, LoseMessage, ExpireRow
<1>3. spool' \subseteq spool
  BY <1>1 DEF Next, vars, diskVars, Start, Crash, Collect,
     PersistSequence, PersistSequenceFails, OpenStream, BreakStream, ReceiveWelcome, TakeOldest,
     SendBatch, ReadFails, ReceiveAck, RecordAck, RecordAckFails, ReceiveReject, Poll,
     HandleHello, SaveMetricBatch, RejectBatch, LoseMessage, ExpireRow, Pruned, Without
<1> QED
  BY <1>2, <1>3

LEMMA CommittedGrows ==
  ASSUME [Next]_vars
  PROVE  /\ committed \subseteq committed' /\ rejected \subseteq rejected' /\ Recorded \subseteq Recorded'
         /\ \A s \in committed' \ committed : \E m \in wire : m.kind = "batch" /\ s \in m.item.samples
         /\ \A s \in rejected' \ rejected : s \in SamplesOf(spool)
<1>1. CASE SaveMetricBatch
  <2>1. PICK m \in wire : m.kind = "batch" /\ committed' = committed \cup Inserted(m.item.samples)
    BY <1>1 DEF SaveMetricBatch
  <2>2. Inserted(m.item.samples) \subseteq m.item.samples
    BY DEF Inserted
  <2> QED
    BY <1>1, <2>1, <2>2 DEF SaveMetricBatch, Recorded
<1>2. CASE ReceiveReject
  BY <1>2 DEF ReceiveReject, Renamed, SamplesOf, Recorded
<1>3. ASSUME ~SaveMetricBatch, ~ReceiveReject PROVE UNCHANGED <<committed, rejected>>
  BY <1>3 DEF Next, vars, historyVars, Start, Crash, ClockStepsBack, Collect, Flush,
     PersistSequence, PersistSequenceFails, OpenStream, BreakStream, ReceiveWelcome, TakeOldest,
     SendBatch, ReadFails, ReceiveAck, RecordAck, RecordAckFails, Poll,
     HandleHello, RejectBatch, LoseMessage, ExpireRow
<1> QED
  BY <1>1, <1>2, <1>3 DEF Recorded

(* A spooled sample whose number is taken has its row, or an earlier       *)
(* process delivered another under the number.                             *)
LEMMA SpooledIsOrShadowed ==
  ASSUME StreamOrder, DeliveryInv, NEW i \in spool, NEW s \in i.samples, s \in Recorded
  PROVE  s \in committed \cup Shadowed
<1>0. /\ TypeInv /\ SequenceInv /\ AcceptedInv /\ NothingLost /\ NumbersGrow
      /\ committed \subseteq accepted /\ accepted \subseteq Sample /\ s \in accepted /\ s.boot = i.boot
  BY DEF StreamOrder, SequenceInv, DeliveryInv, NothingLost, AcceptedInv, Known, TypeInv, TypeOK
<1>1. PICK t \in committed : t.boot = s.boot /\ t.sequence = s.sequence
  BY DEF Recorded
<1>2. s \in Sample /\ t \in Sample /\ t \in accepted
  BY <1>0, <1>1
<1>3. /\ s.process \in Nat /\ t.process \in Nat /\ s.sequence \in Nat /\ t.sequence \in Nat
  BY <1>2, DeliveryAssumption DEF Sample
<1>4. s.sequence <= i.last /\ i.last \in Nat
  BY <1>0 DEF AcceptedInv, Known, TypeInv, TypeOK, Item
<1>5. ~(s.process < t.process)
  BY <1>0, <1>1, <1>2, <1>3, <1>4 DEF NumbersGrow
<1>6. CASE s.process = t.process
  <2>1. s = t
    BY <1>1, <1>2, <1>6 DEF Sample
  <2> QED BY <2>1
<1>7. CASE t.process < s.process
  BY <1>0, <1>1, <1>7 DEF Shadowed
<1> QED BY <1>3, <1>5, <1>6, <1>7

(* What an acknowledgement removes from the spool has its row or is        *)
(* shadowed.                                                               *)
LEMMA AcknowledgedFilesAreRecorded ==
  ASSUME StreamOrder, DeliveryInv, [Next]_vars, ~Flush, ~ReceiveReject
  PROVE  \A i \in spool \ spool' : i.samples \subseteq Recorded
<1>3. CASE ReceiveWelcome
  <2>1. \A i \in spool \ spool' : i.boot = acked.boot /\ i.last <= acked.sequence
    BY <1>3 DEF ReceiveWelcome, Pruned
  <2> QED
    BY <2>1 DEF DeliveryInv, SoundAcknowledgement
<1>4. CASE ReceiveAck
  <2>1. PICK r \in replies : /\ r.kind = "ack"
                            /\ spool' = IF AcknowledgesCurrent(r) THEN Without(awaiting)
                                        ELSE Pruned(r.item.boot, r.item.last)
    BY <1>4 DEF ReceiveAck
  <2>2. r.item = awaiting /\ awaiting \in Item /\ awaiting # NoItem
    BY <2>1, DeliveryAssumption
       DEF StreamOrder, AnswersMatchTheBatchInFlight, SequenceInv, TypeInv, TypeOK, Reply
  <2>3. spool' = Without(awaiting)
    BY <2>1, <2>2 DEF AcknowledgesCurrent, Item
  <2>4. \A i \in spool \ spool' : i = awaiting
    BY <2>2, <2>3 DEF Without, StreamOrder, SequenceInv, AwaitingNamesOneFile
  <2> QED
    BY <2>1, <2>2, <2>4 DEF DeliveryInv, AcceptedInv
<1>5. ASSUME ~ReceiveWelcome, ~ReceiveAck PROVE UNCHANGED spool
  BY <1>5 DEF Next, vars, diskVars, Start, Crash, ClockStepsBack, Collect,
     PersistSequence, PersistSequenceFails, OpenStream, BreakStream, TakeOldest,
     SendBatch, ReadFails, RecordAck, RecordAckFails, Poll,
     HandleHello, SaveMetricBatch, RejectBatch, LoseMessage, ExpireRow
<1> QED
  BY <1>3, <1>4, <1>5

LEMMA AcknowledgedFilesAreCommitted ==
  ASSUME StreamOrder, DeliveryInv, [Next]_vars, ~Flush, ~ReceiveReject
  PROVE  \A i \in spool \ spool' : i.samples \subseteq committed \cup Shadowed
BY AcknowledgedFilesAreRecorded, SpooledIsOrShadowed

(* What leaves the spool is committed, evicted, quarantined or shadowed.   *)
LEMMA DeletionsAreAccountedFor ==
  ASSUME StreamOrder, DeliveryInv, [Next]_vars
  PROVE  \A i \in spool \ spool' :
           i.samples \subseteq committed \cup evicted' \cup rejected' \cup Shadowed
<1>1. CASE Flush
  BY <1>1, FlushEffect
<1>2. CASE ReceiveReject
  BY <1>2 DEF ReceiveReject, Renamed, SamplesOf
<1> QED
  BY <1>1, <1>2, AcknowledgedFilesAreCommitted

-----------------------------------------------------------------------------
(* The parts of the invariant, one lemma each.                             *)

LEMMA FilesStayInOrder ==
  ASSUME MaxClockSteps = 0, StreamOrder, DeliveryInv, [Next]_vars
  PROVE  FilesInOrder'
<1>0. TypeInv /\ SequenceInv /\ FilesInOrder
  BY DEF StreamOrder, SequenceInv, DeliveryInv
<1>1. CASE spool' \subseteq spool /\ UNCHANGED clock
  BY <1>0, <1>1 DEF FilesInOrder
<1>2. ASSUME Flush, clock' = clock + 1, NEW f \in spool', spool' \subseteq spool \cup {f},
             HoldsTheBatch(f)
      PROVE  FilesInOrder'
  <2>1. clock \in Nat /\ f.mtime = clock /\ \A i \in spool : i.mtime \in Nat /\ i.mtime < clock
    BY <1>0, <1>2 DEF TypeInv, TypeOK, Item, HoldsTheBatch, FilesInOrder
  <2>2. \A i \in spool : i.boot = f.boot => i.last < f.first
    BY <1>0, <1>2 DEF HoldsTheBatch, Flush, SequenceInv, BelowTheBatch, Known
  <2>3. \A i \in spool' : i = f \/ i \in spool
    BY <1>2
  <2> QED
    BY <1>0, <1>2, <2>1, <2>2, <2>3 DEF FilesInOrder
<1> QED
  BY <1>0, <1>1, <1>2, OnlyFlushWrites, FlushEffect

LEMMA OldestStaysInFlight ==
  ASSUME MaxClockSteps = 0, StreamOrder, DeliveryInv, [Next]_vars
  PROVE  OldestInFlight'
<1>0. TypeInv /\ SequenceInv /\ FilesInOrder /\ OldestInFlight
  BY DEF StreamOrder, SequenceInv, DeliveryInv
<1>1. CASE TakeOldest
  <2>1. awaiting' \in spool /\ spool' = spool /\ \A j \in spool : ~ItemLess(j, awaiting')
    BY <1>1 DEF TakeOldest, IsOldest, diskVars
  <2>2. \A j \in spool : j.mtime \in Nat
    BY <1>0 DEF TypeInv, TypeOK, Item
  <2>3. \A j \in spool : awaiting'.mtime <= j.mtime
    BY <2>1, <2>2 DEF ItemLess
  <2> QED
    BY <1>0, <2>1, <2>3 DEF OldestInFlight, FilesInOrder
<1>2. CASE Flush
  <2>1. UNCHANGED awaiting /\ running
    BY <1>2 DEF Flush, streamVars
  <2>2. CASE spool' \subseteq spool
    BY <1>0, <2>1, <2>2 DEF OldestInFlight
  <2>3. ASSUME NEW f \in spool', spool' \subseteq spool \cup {f}, HoldsTheBatch(f)
        PROVE  OldestInFlight'
    <3>1. awaiting # NoItem /\ awaiting.boot = f.boot => awaiting.last < f.first
      BY <1>0, <2>1, <2>3 DEF HoldsTheBatch, SequenceInv, BelowTheBatch, Known
    <3> QED
      BY <1>0, <2>1, <2>3, <3>1 DEF OldestInFlight
  <2> QED
    BY <1>2, <2>2, <2>3, FlushEffect
<1>3. ASSUME ~TakeOldest, ~Flush PROVE OldestInFlight'
  <2>1. awaiting' \in {awaiting, NoItem}
    BY <1>3 DEF Next, vars, streamVars, Start, Crash, ClockStepsBack, Collect,
       PersistSequence, PersistSequenceFails, OpenStream, BreakStream, ReceiveWelcome,
       SendBatch, ReadFails, ReceiveAck, RecordAck, RecordAckFails, ReceiveReject, Poll,
       HandleHello, SaveMetricBatch, RejectBatch, LoseMessage, ExpireRow, Disconnected
  <2> QED
    BY <1>0, <1>3, <2>1, OnlyFlushWrites DEF OldestInFlight
<1> QED
  BY <1>1, <1>2, <1>3

LEMMA FilesStayAccepted ==
  ASSUME MaxClockSteps = 0, StreamOrder, DeliveryInv, [Next]_vars
  PROVE  AcceptedInv'
<1>0. TypeInv /\ SequenceInv /\ StreamInv /\ AcceptedInv /\ AnswersMatchTheBatchInFlight
  BY DEF StreamOrder, SequenceInv, DeliveryInv
<1>1. /\ accepted \subseteq accepted' /\ committed \subseteq committed'
      /\ Recorded \subseteq Recorded'
  BY <1>0, OnlyFlushWrites, FlushEffect, CommittedGrows
<1>2. \A i \in Known' : /\ i.samples # {} /\ i.samples \subseteq accepted'
                        /\ \A s \in i.samples : s.boot = i.boot /\ s.sequence <= i.last
  <2>1. CASE Known' \subseteq Known
    BY <1>0, <1>1, <2>1 DEF AcceptedInv
  <2>2. CASE Flush
    <3>1. ASSUME NEW f \in spool', HoldsTheBatch(f), accepted' = accepted \cup batch
          PROVE  /\ f.samples # {} /\ f.samples \subseteq accepted'
                 /\ \A s \in f.samples : s.boot = f.boot /\ s.sequence <= f.last
      BY <1>0, <2>2, <3>1 DEF HoldsTheBatch, Flush, SequenceInv, BatchInv
    <3>2. UNCHANGED awaiting
      BY <2>2 DEF Flush, streamVars
    <3>3. \A i \in Known' :
            i \in Known \/ (i \in spool' /\ HoldsTheBatch(i) /\ accepted' = accepted \cup batch)
      BY <2>2, <3>2, FlushEffect DEF Known
    <3> QED
      BY <1>0, <1>1, <3>1, <3>3 DEF AcceptedInv
  <2>3. CASE ~Flush
    <3>1. awaiting' \in spool \cup {awaiting, NoItem}
      BY <2>3 DEF Next, vars, streamVars, Start, Crash, ClockStepsBack, Collect,
         PersistSequence, PersistSequenceFails, OpenStream, BreakStream, ReceiveWelcome, TakeOldest,
         IsOldest, SendBatch, ReadFails, ReceiveAck, RecordAck, RecordAckFails, ReceiveReject, Poll,
         HandleHello, SaveMetricBatch, RejectBatch, LoseMessage, ExpireRow, Disconnected
    <3>2. Known' \subseteq Known
      BY <1>0, <2>3, <3>1, OnlyFlushWrites DEF Known
    <3> QED
      BY <2>1, <3>2
  <2> QED
    BY <2>2, <2>3
<1>3. \A m \in wire' : m.kind = "batch" => m.item.samples \subseteq accepted'
  <2>1. \A m \in wire' \ wire : m.kind = "batch" => m.item \in spool
    <3>1. CASE SendBatch
      BY <3>1 DEF SendBatch
    <3>2. CASE OpenStream
      BY <3>2 DEF OpenStream
    <3>3. ASSUME ~SendBatch, ~OpenStream PROVE wire' \subseteq wire
      BY <3>3 DEF Next, vars, netVars, Start, Crash, ClockStepsBack, Collect, Flush,
         PersistSequence, PersistSequenceFails, BreakStream, ReceiveWelcome, TakeOldest,
         ReadFails, ReceiveAck, RecordAck, RecordAckFails, ReceiveReject, Poll,
         HandleHello, SaveMetricBatch, RejectBatch, LoseMessage, ExpireRow, Disconnected, Answer
    <3> QED
      BY <3>1, <3>2, <3>3
  <2> QED
    BY <1>0, <1>1, <2>1 DEF AcceptedInv, Known
<1>4. \A r \in replies' : r.kind = "ack" => r.item.samples \subseteq Recorded'
  <2>1. CASE SaveMetricBatch
    <3>1. PICK m \in wire : /\ m.kind = "batch" /\ Answer(m, "ack")
                            /\ committed' = committed \cup Inserted(m.item.samples)
      BY <2>1 DEF SaveMetricBatch
    <3>2. \A r \in replies' : r \in replies \/ r.item = m.item
      BY <3>1 DEF Answer
    <3>3. m.item.samples \subseteq Sample
      BY <1>0, <3>1 DEF AcceptedInv, TypeInv, TypeOK
    <3>4. \A s \in m.item.samples :
            \E t \in committed' : t.boot = s.boot /\ t.sequence = s.sequence
      BY <1>0, <3>1 DEF Inserted, AcceptedInv
    <3> QED
      BY <1>0, <1>1, <3>2, <3>3, <3>4 DEF AcceptedInv, Recorded
  <2>2. CASE HandleHello \/ RejectBatch
    <3>1. \A r \in replies' : r \in replies \/ r.kind \in {"welcome", "reject"}
      BY <2>2 DEF HandleHello, RejectBatch, Answer
    <3> QED
      BY <1>0, <1>1, <3>1 DEF AcceptedInv
  <2>3. ASSUME ~SaveMetricBatch, ~HandleHello, ~RejectBatch PROVE replies' \subseteq replies
    BY <2>3 DEF Next, vars, netVars, Start, Crash, ClockStepsBack, Collect, Flush,
       PersistSequence, PersistSequenceFails, OpenStream, BreakStream, ReceiveWelcome, TakeOldest,
       SendBatch, ReadFails, ReceiveAck, RecordAck, RecordAckFails, ReceiveReject, Poll,
       LoseMessage, ExpireRow, Disconnected
  <2> QED
    BY <1>0, <1>1, <2>1, <2>2, <2>3 DEF AcceptedInv
<1>5. rows' \subseteq committed'
  <2>1. CASE SaveMetricBatch
    BY <1>0, <2>1 DEF SaveMetricBatch, AcceptedInv
  <2>2. CASE ~SaveMetricBatch
    <3>1. rows' \subseteq rows
      BY <2>2 DEF Next, vars, gatewayVars, Start, Crash, ClockStepsBack, Collect, Flush,
         PersistSequence, PersistSequenceFails, OpenStream, BreakStream, ReceiveWelcome, TakeOldest,
         SendBatch, ReadFails, ReceiveAck, RecordAck, RecordAckFails, ReceiveReject, Poll,
         HandleHello, RejectBatch, LoseMessage, ExpireRow
    <3> QED
      BY <1>0, <1>1, <3>1 DEF AcceptedInv
  <2> QED
    BY <2>1, <2>2
<1> QED
  BY <1>2, <1>3, <1>4, <1>5 DEF AcceptedInv

LEMMA NumbersStayGrowing ==
  ASSUME MaxClockSteps = 0, StreamOrder, DeliveryInv, [Next]_vars
  PROVE  NumbersGrow'
<1>0. /\ TypeInv /\ SequenceInv /\ FreshBatch /\ NumbersGrow /\ AcceptedInv
      /\ \A s \in accepted : s.process \in Nat /\ s.sequence \in Nat
      /\ starts \in Nat
  BY DeliveryAssumption DEF StreamOrder, SequenceInv, DeliveryInv, TypeInv, TypeOK, Sample
<1>1. CASE spool' \subseteq spool /\ UNCHANGED accepted
  BY <1>0, <1>1 DEF NumbersGrow
<1>2. ASSUME Flush, accepted' = accepted \cup batch,
             NEW f \in spool', spool' \subseteq spool \cup {f}, HoldsTheBatch(f)
      PROVE  NumbersGrow'
  <2>1. \A t \in batch : t.boot = boot /\ t.process = starts /\ t.sequence \in Nat
    BY <1>0 DEF SequenceInv, BatchInv, TypeInv, TypeOK, Sample
  <2>2. \A i \in spool, t \in batch : t.boot = i.boot => i.last < t.sequence
    BY <1>0, <1>2, <2>1 DEF Flush, SequenceInv, BelowTheBatch, Known
  <2>3. \A t \in accepted' : ~(starts < t.process)
    BY <1>0, <1>2, <2>1 DEF FreshBatch
  <2>4. \A s \in f.samples : s.process = starts
    BY <1>2, <2>1 DEF HoldsTheBatch
  <2> QED
    BY <1>0, <1>2, <2>2, <2>3, <2>4 DEF NumbersGrow
<1> QED
  BY <1>0, <1>1, <1>2, OnlyFlushWrites, FlushEffect

LEMMA BatchStaysFresh ==
  ASSUME MaxClockSteps = 0, StreamOrder, DeliveryInv, [Next]_vars
  PROVE  FreshBatch'
<1>0. TypeInv /\ SequenceInv /\ FreshBatch
  BY DEF StreamOrder, SequenceInv, DeliveryInv
<1>1. ASSUME NEW b \in Boots, Start(b) PROVE FreshBatch'
  BY <1>0, <1>1 DEF Start, historyVars, FreshBatch, TypeInv, TypeOK, Sample
<1>2. CASE Crash
  BY <1>0, <1>2 DEF Crash, historyVars, FreshBatch
<1>3. CASE Collect
  <2>1. lastSequence' = lastSequence + 1 /\ lastSequence \in Nat /\ \A s \in accepted : s.sequence \in Nat
    BY <1>0, <1>3 DEF Collect, TypeInv, TypeOK, Sample
  <2>2. \A t \in batch' : t \in batch \/ t.sequence = lastSequence'
    BY <1>3 DEF Collect
  <2> QED
    BY <1>0, <1>3, <2>1, <2>2 DEF Collect, historyVars, FreshBatch
<1>4. CASE Flush
  <2>1. UNCHANGED <<running, starts, lastSequence>> /\ batch' = {}
    BY <1>4 DEF Flush
  <2>2. \A s \in accepted' : s \in accepted \/ (s.process = starts /\ s.sequence <= lastSequence)
    BY <1>0, <1>4 DEF Flush, SequenceInv, BatchInv
  <2>3. starts \in Nat
    BY <1>0 DEF TypeInv, TypeOK
  <2> QED
    BY <1>0, <2>1, <2>2, <2>3 DEF FreshBatch
<1>5. ASSUME ~(\E b \in Boots : Start(b)), ~Crash, ~Collect, ~Flush
      PROVE  UNCHANGED <<running, starts, lastSequence, batch>>
  BY <1>5 DEF Next, vars, agentVars, ClockStepsBack, PersistSequence, PersistSequenceFails,
     OpenStream, BreakStream, ReceiveWelcome, TakeOldest, SendBatch, ReadFails, ReceiveAck,
     RecordAck, RecordAckFails, ReceiveReject, Poll,
     HandleHello, SaveMetricBatch, RejectBatch, LoseMessage, ExpireRow
<1>6. ASSUME ~(\E b \in Boots : Start(b)), ~Crash, ~Collect, ~Flush PROVE FreshBatch'
  BY <1>0, <1>5, <1>6, OnlyFlushWrites DEF FreshBatch
<1> QED
  BY <1>1, <1>2, <1>3, <1>4, <1>6

LEMMA NothingGetsLost ==
  ASSUME MaxClockSteps = 0, StreamOrder, DeliveryInv, [Next]_vars
  PROVE  NothingLost'
<1>0. TypeInv /\ NothingLost /\ AcceptedInv
  BY DEF StreamOrder, SequenceInv, DeliveryInv
<1>1. \A i \in spool \ spool' :
        i.samples \subseteq committed' \cup evicted' \cup rejected' \cup Shadowed
  BY DeletionsAreAccountedFor, CommittedGrows
<1>2. SamplesOf(spool) \subseteq SamplesOf(spool') \cup committed' \cup evicted' \cup rejected' \cup Shadowed
  BY <1>1 DEF SamplesOf
<1>3. /\ accepted \subseteq accepted' /\ evicted \subseteq evicted'
      /\ evicted' \subseteq evicted \cup SamplesOf(spool)
      /\ SamplesOf(spool') \subseteq SamplesOf(spool) \cup accepted'
      /\ accepted' \subseteq accepted \cup SamplesOf(spool')
  <2>1. CASE Flush
    <3>1. evicted \subseteq evicted' /\ evicted' \subseteq evicted \cup SamplesOf(spool)
      BY <2>1, FlushEffect
    <3>2. CASE spool' \subseteq spool /\ UNCHANGED accepted
      BY <3>1, <3>2 DEF SamplesOf
    <3>3. CASE /\ accepted' = accepted \cup batch
               /\ \E f \in spool' : spool' \subseteq spool \cup {f} /\ HoldsTheBatch(f)
      <4>1. PICK f \in spool' : spool' \subseteq spool \cup {f} /\ f.samples = batch
        BY <3>3 DEF HoldsTheBatch
      <4>2. SamplesOf(spool') \subseteq SamplesOf(spool) \cup batch /\ batch \subseteq SamplesOf(spool')
        BY <4>1 DEF SamplesOf
      <4> QED
        BY <3>1, <3>3, <4>2
    <3> QED
      BY <2>1, <3>2, <3>3, FlushEffect
  <2>2. CASE ~Flush
    BY <1>0, <2>2, OnlyFlushWrites DEF SamplesOf
  <2> QED
    BY <2>1, <2>2
<1>4. committed' \subseteq committed \cup accepted /\ rejected' \subseteq rejected \cup SamplesOf(spool)
  BY <1>0, CommittedGrows DEF AcceptedInv
<1>5. Shadowed \subseteq Shadowed' \cup committed' /\ Shadowed' \subseteq accepted'
  BY <1>3, CommittedGrows DEF Shadowed
<1>6. committed' \subseteq Sample
  BY <1>0, <1>4 DEF NothingLost, TypeInv, TypeOK
<1> QED
  BY <1>0, <1>2, <1>3, <1>4, <1>5, <1>6, CommittedGrows DEF NothingLost

(* The acknowledgement of the batch in flight covers nothing that is not   *)
(* recorded: all other files of its boot are behind it.                   *)
LEMMA AckedThroughIsSound ==
  ASSUME StreamOrder, DeliveryInv, phase = "recording", NEW r \in replies, r.kind = "ack"
  PROVE  SoundAcknowledgement(AckedThrough(r.item)) /\ AckedThrough(r.item) \in Acknowledged
<1>0. /\ TypeInv /\ SequenceInv /\ AnswersMatchTheBatchInFlight
      /\ SoundAcknowledgement(acked) /\ AcceptedInv /\ OldestInFlight
  BY DEF StreamOrder, SequenceInv, DeliveryInv
<1>1. r.item = awaiting /\ awaiting \in Item /\ awaiting # NoItem /\ awaiting \in Known
  BY <1>0, DeliveryAssumption DEF AnswersMatchTheBatchInFlight, TypeInv, TypeOK, Reply, Known
<1>2. CASE AckedThrough(r.item) = acked
  BY <1>0, <1>2 DEF TypeInv, TypeOK
<1>3. CASE AckedThrough(r.item) = [boot |-> awaiting.boot, sequence |-> awaiting.last]
  <2> DEFINE a == [boot |-> awaiting.boot, sequence |-> awaiting.last]
  <2>1. a \in Acknowledged /\ a.boot = awaiting.boot /\ a.sequence = awaiting.last
    BY <1>1 DEF Item, Acknowledged
  <2>2. ASSUME NEW i \in spool, i.boot = awaiting.boot, i.last <= awaiting.last
        PROVE  i.samples \subseteq Recorded
    <3>1. i.first \in Nat /\ i.last \in Nat /\ awaiting.last \in Nat
      BY <1>0, <1>1 DEF TypeInv, TypeOK, Item
    <3>2. i.first <= i.last
      BY <1>0 DEF SequenceInv, KnownInv, Known
    <3>3. i = awaiting
      BY <1>0, <1>1, <2>2, <3>1, <3>2 DEF OldestInFlight
    <3> QED
      BY <1>0, <1>1, <3>3 DEF AcceptedInv
  <2>3. running /\ awaiting.boot = boot => /\ awaiting.last <= lastSequence
                                          /\ \A s \in batch : awaiting.last < s.sequence
    BY <1>0, <1>1 DEF SequenceInv, BelowTheBatch
  <2>4. \E s \in accepted : s.boot = awaiting.boot
    BY <1>0, <1>1 DEF AcceptedInv
  <2> HIDE DEF a
  <2>5. SoundAcknowledgement(a)
    BY <2>1, <2>2, <2>3, <2>4 DEF SoundAcknowledgement
  <2> QED
    BY <1>3, <2>1, <2>5 DEF a
<1> QED
  BY <1>1, <1>2, <1>3 DEF AckedThrough

(* The acknowledgement an agent has recorded stays sound: samples numbered *)
(* later have higher sequences, and a boot left behind never comes back.   *)
LEMMA AcknowledgementsStaySound ==
  ASSUME MaxClockSteps = 0, StreamOrder, DeliveryInv, [Next]_vars
  PROVE  (SoundAcknowledgement(acked) /\ SoundAcknowledgement(identityFile.acked) /\ IdentityInv)'
<1>0. /\ TypeInv /\ TypeInv' /\ SequenceInv
      /\ SoundAcknowledgement(acked) /\ SoundAcknowledgement(identityFile.acked) /\ IdentityInv
      /\ acked \in Acknowledged /\ identityFile.acked \in Acknowledged
  BY NextTypeInv DEF StreamOrder, SequenceInv, DeliveryInv, TypeInv, TypeOK
<1>1. accepted \subseteq accepted' /\ Recorded \subseteq Recorded'
  BY <1>0, OnlyFlushWrites, FlushEffect, CommittedGrows
<1> DEFINE StillSound(a) ==
      /\ \A i \in spool' : i.boot = a.boot /\ i.last <= a.sequence => i.samples \subseteq Recorded'
      /\ running' /\ a.boot = boot' => /\ a.sequence <= lastSequence'
                                       /\ \A s \in batch' : a.sequence < s.sequence
      /\ a.boot = 0 \/ \E s \in accepted' : s.boot = a.boot
<1>2. ASSUME ~(\E b \in Boots : Start(b)), NEW a \in Acknowledged, SoundAcknowledgement(a)
      PROVE  StillSound(a)
  <2>1. a.sequence \in Nat /\ lastSequence \in Nat
    BY <1>0 DEF Acknowledged, TypeInv, TypeOK
  <2>2. CASE Flush
    <3>1. UNCHANGED <<running, boot, lastSequence>> /\ batch' = {} /\ running
      BY <2>2 DEF Flush
    <3>2. ASSUME NEW f \in spool', HoldsTheBatch(f), f.boot = a.boot PROVE ~(f.last <= a.sequence)
      <4>1. f.last \in {s.sequence : s \in batch} /\ boot = a.boot
        BY <3>2 DEF HoldsTheBatch
      <4>2. f.last \in Nat
        BY <1>0, <4>1 DEF TypeInv, TypeOK, Sample
      <4> QED
        BY <1>2, <2>1, <3>1, <4>1, <4>2 DEF SoundAcknowledgement
    <3>3. \A i \in spool' : i \in spool \/ HoldsTheBatch(i)
      BY <2>2, FlushEffect
    <3> QED
      BY <1>1, <1>2, <3>1, <3>2, <3>3 DEF SoundAcknowledgement
  <2>3. CASE Collect
    <3>1. UNCHANGED <<running, boot, spool>> /\ lastSequence' = lastSequence + 1
      BY <2>3 DEF Collect, diskVars
    <3>2. \A s \in batch' : s \in batch \/ s.sequence = lastSequence'
      BY <2>3 DEF Collect
    <3> QED
      BY <1>1, <1>2, <2>1, <2>3, <3>1, <3>2 DEF SoundAcknowledgement, Collect
  <2>4. CASE Crash
    BY <1>1, <1>2, <2>4 DEF SoundAcknowledgement, Crash, diskVars
  <2>5. ASSUME ~Flush, ~Collect, ~Crash PROVE StillSound(a)
    <3>1. UNCHANGED <<running, boot, lastSequence, batch>>
      BY <1>2, <2>5 DEF Next, vars, agentVars, ClockStepsBack, PersistSequence, PersistSequenceFails,
         OpenStream, BreakStream, ReceiveWelcome, TakeOldest, SendBatch, ReadFails, ReceiveAck,
         RecordAck, RecordAckFails, ReceiveReject, Poll,
         HandleHello, SaveMetricBatch, RejectBatch, LoseMessage, ExpireRow
    <3> QED
      BY <1>0, <1>1, <1>2, <2>5, <3>1, OnlyFlushWrites DEF SoundAcknowledgement
  <2> QED
    BY <2>2, <2>3, <2>4, <2>5
<1>3. ASSUME NEW b \in Boots, Start(b)
      PROVE  (SoundAcknowledgement(acked) /\ SoundAcknowledgement(identityFile.acked) /\ IdentityInv)'
  <2> DEFINE a == identityFile.acked
  <2>1. /\ acked' = a /\ identityFile'.acked = a /\ identityFile'.last = lastSequence'
        /\ identityFile'.boot = b /\ boot' = b /\ batch' = batch
        /\ UNCHANGED <<spool, accepted, Recorded>>
    BY <1>0, <1>3 DEF Start, historyVars, TypeInv, TypeOK, Recorded
  <2>2. batch = {}
    BY <1>0, <1>3 DEF Start, SequenceInv, StoppedInv
  <2>3. a.boot = b => a.sequence <= lastSequence'
    <3>1. a.boot = b => b = boot
      BY <1>0, <1>3, DeliveryAssumption DEF Start, SoundAcknowledgement
    <3>2. identityFile.boot = b => identityFile.last <= lastSequence'
      <4>1. PICK highest \in 0..MaxSequence :
              lastSequence' = IF identityFile.boot = b /\ identityFile.last >= highest
                              THEN identityFile.last ELSE highest
        BY <1>3 DEF Start
      <4>2. identityFile.last \in Nat
        BY <1>0 DEF TypeInv, TypeOK
      <4> QED
        BY <4>1, <4>2
    <3>3. identityFile.last \in Nat /\ lastSequence' \in Nat /\ a.sequence \in Nat
      BY <1>0 DEF TypeInv, TypeOK, Acknowledged
    <3> QED
      BY <1>0, <3>1, <3>2, <3>3 DEF IdentityInv
  <2> HIDE DEF a
  <2> QED
    BY <1>0, <2>1, <2>2, <2>3 DEF SoundAcknowledgement, IdentityInv, a
<1>4. CASE Crash
  <2>1. (SoundAcknowledgement(acked))'
    BY <1>0, <1>4, DeliveryAssumption DEF Crash, SoundAcknowledgement, diskVars, TypeInv, TypeOK, Item
  <2>2. UNCHANGED <<identityFile, boot>> /\ ~\E b \in Boots : Start(b)
    BY <1>4 DEF Crash, Start, diskVars
  <2>3. StillSound(identityFile.acked)
    BY <1>0, <1>2, <2>2
  <2> QED
    BY <1>0, <2>1, <2>2, <2>3 DEF SoundAcknowledgement, IdentityInv
<1>5. CASE RecordAck \/ RecordAckFails
  <2>1. PICK r \in replies : /\ r.kind = "ack" /\ acked' = AckedThrough(r.item)
                            /\ phase = "recording" /\ UNCHANGED boot
                            /\ \/ identityFile' = identityFile
                               \/ identityFile' = [boot |-> boot, last |-> lastSequence, acked |-> acked']
    BY <1>5 DEF RecordAck, RecordAckFails, SaveIdentity, agentVars, diskVars
  <2>2. SoundAcknowledgement(acked') /\ acked' \in Acknowledged
    BY <2>1, AckedThroughIsSound
  <2>3. ~\E b \in Boots : Start(b)
    BY <1>5 DEF RecordAck, RecordAckFails, Start, streamVars
  <2>4. StillSound(acked') /\ StillSound(identityFile.acked)
    BY <1>0, <1>2, <2>2, <2>3
  <2>5. running
    BY <1>0, <2>1 DEF TypeInv, ProcessInv
  <2>6. acked'.boot = boot => acked'.sequence <= lastSequence
    BY <2>2, <2>5 DEF SoundAcknowledgement
  <2> QED
    BY <1>0, <2>1, <2>4, <2>6 DEF SoundAcknowledgement, IdentityInv
<1>6. CASE PersistSequence
  <2>1. /\ UNCHANGED <<acked, boot>> /\ running
        /\ identityFile' = [boot |-> boot, last |-> lastSequence, acked |-> acked]
    BY <1>6 DEF PersistSequence, SaveIdentity, streamVars
  <2>2. StillSound(acked)
    BY <1>0, <1>2, <2>1 DEF Start
  <2>3. acked.boot = boot => acked.sequence <= lastSequence
    BY <1>0, <2>1 DEF SoundAcknowledgement
  <2> QED
    BY <2>1, <2>2, <2>3 DEF SoundAcknowledgement, IdentityInv
<1>7. ASSUME ~(\E b \in Boots : Start(b)), ~Crash, ~RecordAck, ~RecordAckFails, ~PersistSequence
      PROVE  (SoundAcknowledgement(acked) /\ SoundAcknowledgement(identityFile.acked) /\ IdentityInv)'
  <2>1. UNCHANGED <<acked, identityFile, boot>>
    BY <1>7 DEF Next, vars, agentVars, diskVars, streamVars, ClockStepsBack, Collect, Flush,
       PersistSequenceFails, OpenStream, BreakStream, ReceiveWelcome, TakeOldest, SendBatch,
       ReadFails, ReceiveAck, ReceiveReject, Poll, HandleHello, SaveMetricBatch, RejectBatch,
       LoseMessage, ExpireRow, Disconnected
  <2>2. StillSound(acked) /\ StillSound(identityFile.acked)
    BY <1>0, <1>2, <1>7
  <2> QED
    BY <1>0, <2>1, <2>2 DEF SoundAcknowledgement, IdentityInv
<1> QED
  BY <1>3, <1>4, <1>5, <1>6, <1>7

(* No sample of the batch has been spooled, so no file shares it.          *)
LEMMA BatchIsNew ==
  ASSUME StreamOrder, DeliveryInv, Flush
  PROVE  batch \cap accepted = {}
<1>1. \A s \in accepted : s.process = starts => \A t \in batch : s.sequence < t.sequence
  BY DEF DeliveryInv, FreshBatch, Flush
<1>2. \A t \in batch : t.process = starts /\ t.sequence \in Nat
  BY DEF StreamOrder, SequenceInv, BatchInv, TypeInv, TypeOK, Sample
<1> QED
  BY <1>1, <1>2

LEMMA SamplesStayInOneFile ==
  ASSUME MaxClockSteps = 0, StreamOrder, DeliveryInv, [Next]_vars
  PROVE  OneFilePerSample'
<1>0. TypeInv /\ AcceptedInv /\ OneFilePerSample /\ NothingLost
  BY DEF StreamOrder, SequenceInv, DeliveryInv
<1>1. CASE Flush
  <2>1. rejected' = rejected
    BY <1>1 DEF Flush
  <2>4. \E kept \in SUBSET spool :
          /\ evicted' = evicted \cup SamplesOf(spool \ kept)
          /\ \A i \in spool' : i \in kept \/ i.samples = batch
    <3> DEFINE kept == Survivors(Cardinality(batch))
    <3>1. kept \in SUBSET spool /\ SamplesOf(spool \ spool) = {}
      BY DEF Survivors, SamplesOf
    <3>2. CASE UNCHANGED <<spool, evicted>>
      BY <3>1, <3>2
    <3>3. CASE /\ evicted' = evicted \cup SamplesOf(spool \ kept)
               /\ \A i \in spool' : i \in kept \/ i.samples = batch
      BY <3>1, <3>3
    <3>4. ASSUME NEW first, NEW last,
                 spool' = kept \cup {[boot |-> boot, first |-> first, last |-> last,
                                      samples |-> batch, mtime |-> clock]}
          PROVE  \A i \in spool' : i \in kept \/ i.samples = batch
      BY <3>4
    <3>5. \/ UNCHANGED <<spool, evicted>>
          \/ /\ evicted' = evicted \cup SamplesOf(spool \ kept)
             /\ \A i \in spool' : i \in kept \/ i.samples = batch
      <4> HIDE DEF kept
      <4>1. \/ UNCHANGED <<spool, evicted>>
            \/ /\ evicted' = evicted \cup SamplesOf(spool \ kept)
               /\ \/ spool' = kept
                  \/ \E first, last \in {s.sequence : s \in batch} :
                       spool' = kept \cup {[boot |-> boot, first |-> first, last |-> last,
                                            samples |-> batch, mtime |-> clock]}
        BY <1>1 DEF Flush, kept
      <4> QED
        BY <3>4, <4>1
    <3> QED
      BY <3>2, <3>3, <3>5
  <2>5. batch \cap (accepted \cup rejected \cup evicted) = {}
    BY <1>0, <1>1, BatchIsNew DEF NothingLost
  <2>6. \A i \in spool : i.samples \subseteq accepted
    BY <1>0 DEF AcceptedInv, Known
  <2>7. (rejected \cup evicted) \cap SamplesOf(spool) = {} => ((rejected \cup evicted) \cap SamplesOf(spool) = {})'
    <3>1. PICK kept \in SUBSET spool :
            /\ evicted' = evicted \cup SamplesOf(spool \ kept)
            /\ \A i \in spool' : i \in kept \/ i.samples = batch
      BY <2>4
    <3> QED
      BY <1>0, <2>1, <2>5, <2>6, <3>1 DEF OneFilePerSample, SamplesOf
  <2>2. CASE spool' \subseteq spool
    BY <1>0, <2>2, <2>7 DEF OneFilePerSample
  <2>3. ASSUME NEW f \in spool', spool' \subseteq spool \cup {f}, HoldsTheBatch(f)
        PROVE  OneFilePerSample'
    <3>1. f.samples \cap accepted = {}
      BY <2>3, <2>5 DEF HoldsTheBatch
    <3> QED
      BY <1>0, <2>3, <2>6, <2>7, <3>1 DEF OneFilePerSample
  <2> QED
    BY <1>1, <2>2, <2>3, FlushEffect
<1>2. CASE ReceiveReject
  <2>1. spool' = spool \ Renamed(awaiting) /\ rejected' = rejected \cup SamplesOf(Renamed(awaiting))
        /\ Renamed(awaiting) \subseteq spool /\ evicted' = evicted
    BY <1>2 DEF ReceiveReject, Renamed
  <2> QED
    BY <1>0, <2>1 DEF OneFilePerSample, SamplesOf
<1>3. ASSUME ~Flush, ~ReceiveReject PROVE OneFilePerSample'
  <2>1. rejected' = rejected
    BY <1>3 DEF Next, vars, historyVars, Start, Crash, ClockStepsBack, Collect,
       PersistSequence, PersistSequenceFails, OpenStream, BreakStream, ReceiveWelcome, TakeOldest,
       SendBatch, ReadFails, ReceiveAck, RecordAck, RecordAckFails, Poll,
       HandleHello, SaveMetricBatch, RejectBatch, LoseMessage, ExpireRow
  <2> QED
    BY <1>0, <1>3, <2>1, OnlyFlushWrites DEF OneFilePerSample, SamplesOf
<1> QED
  BY <1>1, <1>2, <1>3

LEMMA NextDeliveryInv ==
  ASSUME MaxClockSteps = 0
  PROVE  StreamOrder /\ DeliveryInv /\ [Next]_vars => DeliveryInv'
  BY MaxClockSteps = 0, FilesStayInOrder, OldestStaysInFlight, FilesStayAccepted, BatchStaysFresh,
     SamplesStayInOneFile, NothingGetsLost, NumbersStayGrowing, AcknowledgementsStaySound DEF DeliveryInv

LEMMA DeliveryInvariant ==
  ASSUME MaxClockSteps = 0
  PROVE  Spec => [](StreamOrder /\ DeliveryInv)
<1>1. StreamOrder /\ DeliveryInv /\ [Next]_vars => (StreamOrder /\ DeliveryInv)'
  BY MaxClockSteps = 0, NextStreamOrder, NextDeliveryInv
<1> QED
  BY <1>1, InitStreamOrder, InitDeliveryInv, PTL DEF Spec

(* Without backward clock steps a batch leaves the spool only after        *)
(* PostgreSQL has a row for each of its samples, or evicted for room, or   *)
(* quarantined - except samples whose numbers an earlier process of the    *)
(* boot had delivered, which the conflict clause drops.  The assumption is *)
(* needed: see the run DeliveryPruneAfterClockStep.                        *)
THEOREM DeletionsFollowCommits ==
  ASSUME MaxClockSteps = 0
  PROVE  Spec => DeletedOnlyAfterCommit
<1>1. StreamOrder /\ DeliveryInv /\ [Next]_vars =>
        [\A i \in spool \ spool' :
           i.samples \subseteq committed \cup evicted' \cup rejected' \cup Shadowed]_vars
  BY MaxClockSteps = 0, DeletionsAreAccountedFor
<1> QED
  BY <1>1, DeliveryInvariant, PTL DEF Spec, DeletedOnlyAfterCommit

-----------------------------------------------------------------------------
(* What makeRoom evicts.                                                   *)

LEMMA ItemLessTransitive ==
  ASSUME NEW i \in Item, NEW j \in Item, NEW k \in Item, ItemLess(k, j), ItemLess(j, i)
  PROVE  ItemLess(k, i)
<1> DEFINE Ordered(f) == f.mtime \in Nat /\ f.boot \in Nat /\ f.first \in Nat /\ f.last \in Nat
<1>0. Boots \subseteq Nat /\ MaxSequence \in Nat
  BY DeliveryAssumption
<1>1. ASSUME NEW f \in Item
      PROVE  f.mtime \in Nat /\ f.boot \in Boots /\ f.first \in 1..MaxSequence /\ f.last \in 1..MaxSequence
  BY DEF Item
<1>2. ASSUME NEW f \in Item PROVE Ordered(f)
  <2>1. f.boot \in Nat /\ f.mtime \in Nat
    BY <1>0, <1>1
  <2>2. f.first \in Nat /\ f.last \in Nat
    BY <1>0, <1>1
  <2> QED BY <2>1, <2>2
<1>3. Ordered(i) /\ Ordered(j) /\ Ordered(k)
  BY <1>2
<1>4. k.mtime <= j.mtime /\ j.mtime <= i.mtime
  BY <1>3 DEF ItemLess
<1>5. CASE k.mtime < j.mtime \/ j.mtime < i.mtime
  BY <1>3, <1>4, <1>5 DEF ItemLess
<1>6. CASE k.mtime = j.mtime /\ j.mtime = i.mtime
  <2>1. k.boot <= j.boot /\ j.boot <= i.boot
    BY <1>3, <1>6 DEF ItemLess
  <2>2. CASE k.boot < j.boot \/ j.boot < i.boot
    BY <1>3, <1>6, <2>1, <2>2 DEF ItemLess
  <2>3. CASE k.boot = j.boot /\ j.boot = i.boot
    BY <1>3, <1>6, <2>3 DEF ItemLess
  <2> QED
    BY <1>3, <2>1, <2>2, <2>3
<1> QED
  BY <1>3, <1>4, <1>5, <1>6

(* A file that is evicted is older than every file that is kept.           *)
LEMMA KeptAreNewer ==
  ASSUME spool \subseteq Item, IsFiniteSet(SamplesOf(spool)), NEW required \in Nat,
         NEW i \in spool \ Survivors(required), NEW j \in Survivors(required)
  PROVE  i.mtime <= j.mtime
<1> DEFINE after(f) == {k \in spool : ~ItemLess(k, f)}
<1>1. j \in spool /\ UsedBytes(after(j)) + required <= MaximumBytes
  BY DEF Survivors
<1>2. ~(UsedBytes(after(i)) + required <= MaximumBytes)
  BY DEF Survivors
<1>3. ~ItemLess(j, i)
  <2> SUFFICES ASSUME ItemLess(j, i) PROVE FALSE
    OBVIOUS
  <2>1. after(i) \in SUBSET after(j)
    BY <1>1, ItemLessTransitive
  <2>2. IsFiniteSet(SamplesOf(after(j)))
    BY FewerBytes
  <2>3. UsedBytes(after(i)) \in Nat /\ UsedBytes(after(j)) \in Nat
        /\ UsedBytes(after(i)) <= UsedBytes(after(j))
    <3> HIDE DEF after
    <3> QED BY <2>1, <2>2, FewerBytes
  <2> QED
    BY <1>1, <1>2, <2>3, DeliveryAssumption
<1>4. i.mtime \in Nat /\ j.mtime \in Nat
  BY <1>1 DEF Item
<1> QED
  BY <1>3, <1>4 DEF ItemLess

(* As long as the clock does not step back, the cap evicts the oldest      *)
(* batches: everything of a boot that goes was collected before everything *)
(* that stays, the batch just written included.  The index is ordered by   *)
(* modification time, so a clock that steps back breaks the promise.       *)
THEOREM OldestAreEvicted ==
  ASSUME MaxClockSteps = 0
  PROVE  Spec => EvictsOldestFirst
<1>1. StreamOrder /\ DeliveryInv /\ CapacityInv /\ [Next]_vars =>
        [evicted' # evicted =>
           \A i \in spool \ spool', j \in spool' : i.boot = j.boot => i.last < j.first]_vars
  <2> SUFFICES ASSUME StreamOrder, DeliveryInv, CapacityInv, [Next]_vars, evicted' # evicted,
                      NEW i \in spool \ spool', NEW j \in spool', i.boot = j.boot
               PROVE  i.last < j.first
    OBVIOUS
  <2>0. TypeInv /\ SequenceInv /\ spool \subseteq Item
    BY DEF StreamOrder, SequenceInv, TypeInv, TypeOK
  <2>1. Flush
    BY <2>0, MaxClockSteps = 0, OnlyFlushWrites
  <2> DEFINE required == Cardinality(batch)
             kept == Survivors(required)
             file(first, last) == [boot |-> boot, first |-> first, last |-> last,
                                   samples |-> batch, mtime |-> clock]
  <2>2. \/ spool' = kept
        \/ \E first, last \in {s.sequence : s \in batch} : spool' = kept \cup {file(first, last)}
    BY <2>1 DEF Flush
  <2>3. required \in Nat
    BY FS_CardinalityType DEF CapacityInv
  <2>4. i \in spool \ kept
    BY <2>2
  <2>5. CASE j \in kept
    <3>1. i.mtime <= j.mtime
      BY <2>0, <2>3, <2>4, <2>5, KeptAreNewer DEF CapacityInv
    <3>2. j \in spool /\ i # j
      BY <2>5 DEF Survivors
    <3> QED
      BY <3>1, <3>2 DEF DeliveryInv, FilesInOrder
  <2>6. CASE j \notin kept
    <3>1. j.boot = boot /\ \E s \in batch : j.first = s.sequence
      BY <2>2, <2>6
    <3>2. running
      BY <2>1 DEF Flush
    <3> QED
      BY <2>0, <3>1, <3>2 DEF SequenceInv, BelowTheBatch, Known
  <2> QED
    BY <2>5, <2>6
<1> QED
  BY <1>1, DeliveryInvariant, CapacityInvariant, PTL DEF Spec, EvictsOldestFirst

-----------------------------------------------------------------------------
(* Refinement.                                                             *)

LEMMA StepIsContractStep ==
  ASSUME MaxClockSteps = 0, StreamOrder, DeliveryInv, DeliveryInv', TypeInv', [Next]_vars
  PROVE  [Contract!ContractNext]_([s \in Sample |-> FateOf(s)])
<1> DEFINE fateNow == [s \in Sample |-> FateOf(s)]
           fateThen == [s \in Sample |-> FateOf(s)']
<1>0. TypeInv /\ AcceptedInv /\ NothingLost /\ NothingLost' /\ OneFilePerSample /\ OneFilePerSample'
  BY DEF StreamOrder, SequenceInv, DeliveryInv
<1>1. \A s \in Sample : FateOf(s)' \in Contract!Fate
  BY DEF FateOf, Contract!Fate
<1>2. ASSUME NEW ways,
             \A s \in Sample : FateOf(s)' # FateOf(s) => <<FateOf(s), FateOf(s)'>> \in ways
      PROVE  Contract!Along(ways)
  BY <1>1, <1>2 DEF Contract!Along
<1>3. CASE Flush
  <2>1. UNCHANGED <<committed, rejected>>
    BY <1>3 DEF Flush
  <2>2. batch \cap accepted = {}
    BY <1>3, BatchIsNew
  <2>3. /\ accepted' = accepted \/ accepted' = accepted \cup batch
        /\ SamplesOf(spool') \subseteq SamplesOf(spool) \cup (accepted' \ accepted)
        /\ accepted' \ accepted \subseteq SamplesOf(spool')
    <3>1. CASE spool' \subseteq spool /\ UNCHANGED accepted
      BY <3>1 DEF SamplesOf
    <3>2. CASE /\ accepted' = accepted \cup batch
               /\ \E f \in spool' : spool' \subseteq spool \cup {f} /\ HoldsTheBatch(f)
      <4>1. PICK f \in spool' : spool' \subseteq spool \cup {f} /\ f.samples = batch
        BY <3>2 DEF HoldsTheBatch
      <4>2. SamplesOf(spool') \subseteq SamplesOf(spool) \cup batch /\ batch \subseteq SamplesOf(spool')
        BY <4>1 DEF SamplesOf
      <4> QED
        BY <2>2, <3>2, <4>2
    <3> QED
      BY <1>3, <3>1, <3>2, FlushEffect
  <2>4. SamplesOf(spool) \subseteq SamplesOf(spool') \cup evicted' /\ SamplesOf(spool) \subseteq accepted
    BY <1>0, <1>3, FlushEffect DEF SamplesOf, AcceptedInv, Known
  <2>5. evicted \subseteq evicted' /\ evicted' \subseteq evicted \cup SamplesOf(spool)
    BY <1>3, FlushEffect
  <2>6. \A s \in Sample : FateOf(s)' # FateOf(s) =>
          <<FateOf(s), FateOf(s)'>> \in {<<"unborn", "pending">>, <<"pending", "evicted">>}
    BY <1>0, <2>1, <2>3, <2>4, <2>5 DEF FateOf, NothingLost, OneFilePerSample
  <2> QED
    BY <1>2, <2>6 DEF Contract!ContractNext, Contract!Accept
<1>4. CASE SaveMetricBatch
  <2>1. UNCHANGED <<spool, accepted, evicted, rejected>>
    BY <1>4 DEF SaveMetricBatch, diskVars
  <2>2. committed \subseteq committed' /\ committed' \subseteq committed \cup accepted
    BY <1>0, CommittedGrows DEF AcceptedInv
  <2>3. \A s \in Sample : FateOf(s)' # FateOf(s) =>
          <<FateOf(s), FateOf(s)'>> \in {"pending", "evicted", "quarantined", "shadowed"} \X {"committed"}
    BY <1>0, <2>1, <2>2 DEF FateOf, NothingLost
  <2> QED
    BY <1>2, <2>3 DEF Contract!ContractNext, Contract!Commit
<1>5. CASE ReceiveReject
  <2>1. UNCHANGED <<accepted, evicted, committed>>
    BY <1>5 DEF ReceiveReject
  <2>2. spool' \subseteq spool /\ rejected \subseteq rejected' /\ rejected' \subseteq rejected \cup SamplesOf(spool)
        /\ \A i \in spool \ spool' : i.samples \subseteq rejected'
    BY <1>5 DEF ReceiveReject, Renamed, SamplesOf
  <2>3. SamplesOf(spool') \subseteq SamplesOf(spool) /\ SamplesOf(spool) \subseteq SamplesOf(spool') \cup rejected'
    BY <2>2 DEF SamplesOf
  <2>4. \A s \in Sample : FateOf(s)' # FateOf(s) =>
          <<FateOf(s), FateOf(s)'>> \in {<<"pending", "quarantined">>}
    BY <1>0, <2>1, <2>2, <2>3 DEF FateOf, NothingLost
  <2> QED
    BY <1>2, <2>4 DEF Contract!ContractNext, Contract!PutAside
<1>6. ASSUME ~Flush, ~SaveMetricBatch, ~ReceiveReject
      PROVE  Contract!Shadow
  <2>1. UNCHANGED <<accepted, evicted>>
    BY <1>0, <1>6, OnlyFlushWrites
  <2>2. UNCHANGED <<committed, rejected>>
    BY <1>6 DEF Next, vars, historyVars, Start, Crash, ClockStepsBack, Collect,
       PersistSequence, PersistSequenceFails, OpenStream, BreakStream, ReceiveWelcome, TakeOldest,
       SendBatch, ReadFails, ReceiveAck, RecordAck, RecordAckFails, Poll,
       HandleHello, RejectBatch, LoseMessage, ExpireRow
  <2>3. UNCHANGED Shadowed
    BY <2>1, <2>2 DEF Shadowed
  <2>4. /\ SamplesOf(spool') \subseteq SamplesOf(spool)
        /\ SamplesOf(spool) \subseteq SamplesOf(spool') \cup committed \cup Shadowed
    BY <1>0, <1>6, OnlyFlushWrites, AcknowledgedFilesAreCommitted DEF SamplesOf
  <2>6. ASSUME NEW s \in Sample, FateOf(s)' # FateOf(s)
        PROVE  /\ <<FateOf(s), FateOf(s)'>> \in {<<"pending", "shadowed">>}
               /\ s \in Shadowed
    BY <1>0, <2>1, <2>2, <2>3, <2>4, <2>6 DEF FateOf, OneFilePerSample
  <2>7. ASSUME NEW s \in Shadowed
        PROVE  \E t \in Sample : fateNow[t] = "committed" /\ Contract!Numbered(s, t)
    BY <1>0 DEF Shadowed, FateOf, Contract!Numbered, NothingLost
  <2> QED
    BY <1>2, <2>6, <2>7 DEF Contract!Shadow
<1> QED
  BY <1>3, <1>4, <1>5, <1>6 DEF Contract!ContractNext

(* The detailed pipeline implements the contract, for every instance on a  *)
(* host whose clock never steps back: no spooled sample is ever lost.      *)
THEOREM DeliveryImplementsContract ==
  ASSUME MaxClockSteps = 0
  PROVE  Spec => ImplementsContract
<1>1. Init => Contract!ContractInit
  BY DEF Init, Contract!ContractInit, FateOf, SamplesOf, Shadowed
<1>2. StreamOrder /\ DeliveryInv /\ (StreamOrder /\ DeliveryInv)' /\ [Next]_vars
        => [Contract!ContractNext]_([s \in Sample |-> FateOf(s)])
  BY MaxClockSteps = 0, StepIsContractStep DEF StreamOrder, SequenceInv
<1> QED
  BY <1>1, <1>2, DeliveryInvariant, PTL DEF Spec, ImplementsContract, Contract!ContractSpec
=============================================================================
