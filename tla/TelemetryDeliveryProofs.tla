---------------------- MODULE TelemetryDeliveryProofs ----------------------
(***************************************************************************)
(* Theorems about the delivery pipeline, for any number of boots, any      *)
(* capacity and any bound on faults.  Every proof goes through one         *)
(* inductive invariant whose step theorem has one case per action.         *)
(***************************************************************************)
EXTENDS TelemetryDelivery, FiniteSetTheorems, WellFoundedInduction, TLAPS

(* What the actions rely on beyond the types: only a started process has   *)
(* a kernel to number samples for, and only a running one has a stream.    *)
ProcessInv ==
  /\ running => starts \in 1..MaxStarts /\ boot \in Boots
  /\ phase # "offline" => running

TypeInv == TypeOK /\ ProcessInv

LEMMA NothingAcknowledged == [boot |-> 0, sequence |-> 0] \in Acknowledged
  BY DeliveryAssumption DEF Acknowledged

LEMMA InitTypeInv == Init => TypeInv
<1> SUFFICES ASSUME Init PROVE TypeInv
  OBVIOUS
<1>1. identityFile \in [boot : Boots \cup {0}, last : 0..MaxSequence, acked : Acknowledged]
  BY NothingAcknowledged, DeliveryAssumption DEF Init
<1>2. acked \in Acknowledged /\ agentRow \in Acknowledged
  BY NothingAcknowledged DEF Init
<1>3. spool \subseteq Item /\ quarantine \subseteq Item /\ clock \in Nat
      /\ wire \subseteq Message /\ replies \subseteq Reply /\ phase \in Phase
  BY DEF Init, Phase
<1>4. starts \in 0..MaxStarts /\ lastSequence \in 0..MaxSequence /\ faults \in 0..MaxFaults
      /\ clockSteps \in 0..MaxClockSteps /\ expirations \in 0..MaxExpirations
  BY DeliveryAssumption DEF Init
<1>5. ProcessInv
  BY DEF Init, ProcessInv
<1> QED
  BY <1>1, <1>2, <1>3, <1>4, <1>5 DEF Init, TypeInv, TypeOK

LEMMA NextTypeInv == TypeInv /\ [Next]_vars => TypeInv'
<1> SUFFICES ASSUME TypeInv, [Next]_vars PROVE TypeInv'
  OBVIOUS
<1> USE DeliveryAssumption DEF TypeInv, TypeOK, ProcessInv, agentVars, diskVars, streamVars,
        netVars, gatewayVars, boundVars, historyVars
<1>1. ASSUME NEW b \in Boots, Start(b) PROVE TypeInv'
  <2>1. lastSequence' \in 0..MaxSequence
    <3>1. PICK highest \in 0..MaxSequence :
            lastSequence' = IF identityFile.boot = b /\ identityFile.last >= highest
                            THEN identityFile.last ELSE highest
      BY <1>1 DEF Start
    <3>2. identityFile.last \in 0..MaxSequence
      OBVIOUS
    <3> QED
      BY <3>1, <3>2
  <2>2. identityFile' \in [boot : Boots \cup {0}, last : 0..MaxSequence, acked : Acknowledged]
    BY <1>1, <2>1 DEF Start
  <2>3. acked' \in Acknowledged /\ starts' \in 1..MaxStarts
    BY <1>1 DEF Start
  <2> QED
    BY <1>1, <2>1, <2>2, <2>3 DEF Start
<1>2. CASE Crash
  <2>1. acked' \in Acknowledged
    BY <1>2, NothingAcknowledged DEF Crash
  <2>2. lastSequence' \in 0..MaxSequence /\ phase' \in Phase /\ awaiting' \in Item \cup {NoItem}
        /\ replies' \subseteq Reply /\ batch' \subseteq Sample
    BY <1>2 DEF Crash, Phase
  <2> QED
    BY <1>2, <2>1, <2>2 DEF Crash
<1>3. CASE ClockStepsBack
  BY <1>3 DEF ClockStepsBack
<1>4. CASE Collect
  BY <1>4 DEF Collect, Sample
<1>5. CASE Flush
  <2> DEFINE kept == Survivors(Cardinality(batch))
  <2>1. kept \subseteq spool
    BY DEF Survivors
  <2>2. spool' \subseteq Item
    <3>1. ASSUME NEW first \in {s.sequence : s \in batch}, NEW last \in {s.sequence : s \in batch},
                 batch # {}, running
          PROVE  [boot |-> boot, first |-> first, last |-> last, samples |-> batch,
                  mtime |-> clock] \in Item
      BY <3>1 DEF Item, Sample
    <3> QED
      BY <1>5, <2>1, <3>1 DEF Flush
  <2>3. SamplesOf(spool \ kept) \subseteq Sample
    BY DEF SamplesOf, Item
  <2>4. evicted' \subseteq Sample /\ accepted' \subseteq Sample
    BY <1>5, <2>3 DEF Flush
  <2>5. collector' \in {"sampling", "persisting"} /\ clock' \in Nat /\ faults' \in 0..MaxFaults
    BY <1>5 DEF Flush
  <2> QED
    BY <1>5, <2>2, <2>4, <2>5 DEF Flush
<1>6. CASE PersistSequence
  BY <1>6 DEF PersistSequence, SaveIdentity
<1>7. CASE PersistSequenceFails
  BY <1>7 DEF PersistSequenceFails
<1>8. CASE OpenStream
  BY <1>8 DEF OpenStream, Message, Phase
<1>9. CASE BreakStream
  BY <1>9 DEF BreakStream, Disconnected, Phase
<1>10. CASE ReceiveWelcome
  BY <1>10 DEF ReceiveWelcome, Pruned, Phase
<1>11. CASE TakeOldest
  BY <1>11 DEF TakeOldest, IsOldest, Phase
<1>12. CASE SendBatch
  BY <1>12 DEF SendBatch, Message, Item, Phase
<1>13. CASE ReadFails
  BY <1>13 DEF ReadFails, Disconnected, Phase
<1>14. CASE ReceiveAck
  BY <1>14 DEF ReceiveAck, Pruned, Without, Phase
<1>15. CASE RecordAck
  BY <1>15 DEF RecordAck, AckedThrough, SaveIdentity, Acknowledged, Reply, Item, Phase
<1>16. CASE RecordAckFails
  BY <1>16 DEF RecordAckFails, AckedThrough, Acknowledged, Reply, Item, Phase
<1>17. CASE ReceiveReject
  BY <1>17 DEF ReceiveReject, Disconnected, Renamed, SamplesOf, Item, Phase
<1>18. CASE Poll
  BY <1>18 DEF Poll, vars
<1>19. CASE HandleHello
  BY <1>19 DEF HandleHello, Answer, Message, Reply, Acknowledged
<1>20. CASE SaveMetricBatch
  BY <1>20 DEF SaveMetricBatch, Inserted, NextAgentRow, Answer, Message, Reply, Item, Acknowledged
<1>21. CASE RejectBatch
  BY <1>21 DEF RejectBatch, Answer, Message, Reply
<1>22. CASE LoseMessage
  BY <1>22 DEF LoseMessage
<1>23. CASE ExpireRow
  BY <1>23 DEF ExpireRow
<1>24. CASE UNCHANGED vars
  BY <1>24 DEF vars
<1> QED
  BY <1>1, <1>2, <1>3, <1>4, <1>5, <1>6, <1>7, <1>8, <1>9, <1>10, <1>11, <1>12, <1>13, <1>14,
     <1>15, <1>16, <1>17, <1>18, <1>19, <1>20, <1>21, <1>22, <1>23, <1>24 DEF Next

(* Every variable keeps its type: in particular every acknowledged and     *)
(* every persisted sequence stays within what was numbered.                *)
THEOREM TypeCorrect == Spec => []TypeOK
<1>1. TypeInv => TypeOK
  BY DEF TypeInv
<1> QED
  BY <1>1, InitTypeInv, NextTypeInv, PTL DEF Spec

-----------------------------------------------------------------------------
(* Sequences.  The files of the spool and the batch in flight keep their   *)
(* sequences below those of the open batch and of the samples to come.     *)

Known == spool \cup ({awaiting} \ {NoItem})

(* The samples of a batch come from one process, so no two of them share a *)
(* sequence.                                                               *)
OfOneProcess(samples) ==
  \A s, t \in samples : s.boot = t.boot /\ s.process = t.process

BatchInv ==
  \A s \in batch : s.boot = boot /\ s.process = starts /\ s.sequence <= lastSequence

(* A process that is not running waits for no answer.                      *)
StoppedInv == ~running => batch = {} /\ awaiting = NoItem

KnownInv == \A i \in Known : i.first <= i.last /\ OfOneProcess(i.samples)

BelowTheBatch ==
  running => \A i \in Known : i.boot = boot =>
                /\ i.last <= lastSequence
                /\ \A s \in batch : i.last < s.sequence

AwaitingNamesOneFile ==
  awaiting # NoItem => \A i \in spool : SameFile(i, awaiting) => i = awaiting

WireInv == \A m \in wire : m.kind = "batch" => OfOneProcess(m.item.samples)

SequenceInv ==
  /\ TypeInv /\ BatchInv /\ StoppedInv /\ KnownInv /\ BelowTheBatch
  /\ SpooledSequencesDisjoint /\ AwaitingNamesOneFile
  /\ WireInv

(* Steps that number no sample and write no file.                          *)
LEMMA QuietStep ==
  ASSUME SequenceInv, TypeInv',
         UNCHANGED <<running, starts, boot, lastSequence, batch>>,
         running \/ UNCHANGED awaiting,
         spool' \subseteq spool, awaiting' \in spool \cup {awaiting, NoItem},
         \A m \in wire' \ wire : m.kind = "batch" => m.item \in spool
  PROVE  SequenceInv'
<1>1. Known' \subseteq Known
  BY DEF Known
<1>2. BatchInv' /\ KnownInv' /\ BelowTheBatch'
  BY <1>1 DEF SequenceInv, BatchInv, KnownInv, BelowTheBatch
<1>6. StoppedInv'
  BY DEF SequenceInv, StoppedInv
<1>3. SpooledSequencesDisjoint'
  BY DEF SequenceInv, SpooledSequencesDisjoint
<1>4. AwaitingNamesOneFile'
  <2>1. ASSUME NEW i \in spool, NEW j \in spool, SameFile(i, j) PROVE i = j
    <3>1. i.first <= i.last /\ j.first <= j.last
      BY DEF SequenceInv, KnownInv, Known
    <3>2. i.first \in Nat /\ i.last \in Nat /\ j.first \in Nat /\ j.last \in Nat
      BY DEF SequenceInv, TypeInv, TypeOK, Item
    <3> QED
      BY <2>1, <3>1, <3>2 DEF SequenceInv, SpooledSequencesDisjoint, SameFile
  <2> QED
    BY <2>1 DEF SequenceInv, AwaitingNamesOneFile
<1>5. WireInv'
  BY DEF SequenceInv, WireInv, KnownInv, Known
<1> QED
  BY <1>2, <1>3, <1>4, <1>5, <1>6 DEF SequenceInv

(* A flush removes files without a trace or adds the file of the batch.    *)
HoldsTheBatch(f) ==
  /\ f.boot = boot /\ f.samples = batch /\ f.mtime = clock /\ f.first <= f.last
  /\ f.first \in {s.sequence : s \in batch} /\ f.last \in {s.sequence : s \in batch}
  /\ \A s \in batch : s.sequence <= f.last

LEMMA FlushEffect ==
  ASSUME Flush
  PROVE  /\ evicted \subseteq evicted' /\ evicted' \subseteq evicted \cup SamplesOf(spool)
         /\ \A i \in spool \ spool' : i.samples \subseteq evicted'
         /\ \/ spool' \subseteq spool /\ UNCHANGED <<accepted, clock>>
            \/ /\ clock' = clock + 1 /\ accepted' = accepted \cup batch
               /\ \E f \in spool' : spool' \subseteq spool \cup {f} /\ HoldsTheBatch(f)
<1> DEFINE kept == Survivors(Cardinality(batch))
           file(first, last) == [boot |-> boot, first |-> first, last |-> last,
                                 samples |-> batch, mtime |-> clock]
<1>1. kept \subseteq spool
  BY DEF Survivors
<1>2. evicted' = evicted \/ (evicted' = evicted \cup SamplesOf(spool \ kept) /\ kept \subseteq spool')
  BY DEF Flush
<1>5. ASSUME NEW first \in {s.sequence : s \in batch}, NEW last \in {s.sequence : s \in batch},
             \A s \in batch : first <= s.sequence /\ s.sequence <= last,
             spool' = kept \cup {file(first, last)}
      PROVE  \E f \in spool' : spool' \subseteq spool \cup {f} /\ HoldsTheBatch(f)
  <2>1. file(first, last) \in spool' /\ spool' \subseteq spool \cup {file(first, last)}
    BY <1>1, <1>5
  <2>2. HoldsTheBatch(file(first, last))
    BY <1>5 DEF HoldsTheBatch
  <2> QED
    BY <2>1, <2>2
<1>6. \/ spool' \subseteq spool /\ UNCHANGED <<accepted, clock>>
      \/ /\ clock' = clock + 1 /\ accepted' = accepted \cup batch
         /\ \E f \in spool' : spool' \subseteq spool \cup {f} /\ HoldsTheBatch(f)
  BY <1>1, <1>5 DEF Flush
<1>7. evicted \subseteq evicted' /\ evicted' \subseteq evicted \cup SamplesOf(spool)
  BY <1>1, <1>2 DEF SamplesOf
<1>8. \A i \in spool \ spool' : i.samples \subseteq evicted'
  BY DEF Flush, SamplesOf
<1> QED
  BY <1>6, <1>7, <1>8

LEMMA InitSequenceInv == Init => SequenceInv
  BY InitTypeInv DEF Init, SequenceInv, BatchInv, StoppedInv, KnownInv, Known, BelowTheBatch,
     SpooledSequencesDisjoint, AwaitingNamesOneFile, WireInv

LEMMA NextSequenceInv == SequenceInv /\ [Next]_vars => SequenceInv'
<1> SUFFICES ASSUME SequenceInv, [Next]_vars PROVE SequenceInv'
  OBVIOUS
<1>0. TypeInv /\ TypeInv'
  BY NextTypeInv DEF SequenceInv
<1>run. phase # "offline" => running
  BY DEF SequenceInv, TypeInv, ProcessInv
<1>1. ASSUME NEW b \in Boots, Start(b) PROVE SequenceInv'
  <2>1. UNCHANGED <<batch, spool, awaiting, wire>> /\ batch = {} /\ boot' = b /\ awaiting = NoItem
    BY <1>1 DEF Start, netVars, SequenceInv, BatchInv, StoppedInv
  <2>2. \A i \in spool : i.boot = b => i.last <= lastSequence'
    <3>1. PICK highest \in 0..MaxSequence :
            /\ IsHighestSequence(b, highest)
            /\ lastSequence' = IF identityFile.boot = b /\ identityFile.last >= highest
                               THEN identityFile.last ELSE highest
      BY <1>1 DEF Start
    <3>2. identityFile.last \in Nat /\ \A i \in spool : i.last \in Nat
      BY <1>0 DEF TypeInv, TypeOK, Item
    <3> QED
      BY <3>1, <3>2 DEF IsHighestSequence
  <2>3. BatchInv' /\ KnownInv' /\ BelowTheBatch' /\ StoppedInv'
    BY <1>1, <2>1, <2>2 DEF Start, SequenceInv, BatchInv, KnownInv, Known, BelowTheBatch, StoppedInv
  <2> QED
    BY <1>0, <2>1, <2>3
       DEF SequenceInv, SpooledSequencesDisjoint, AwaitingNamesOneFile, WireInv
<1>2. CASE Crash
  <2>1. UNCHANGED <<spool, wire>> /\ batch' = {} /\ running' = FALSE /\ awaiting' = NoItem
    BY <1>2 DEF Crash, diskVars
  <2>2. BatchInv' /\ KnownInv' /\ BelowTheBatch' /\ StoppedInv'
    BY <2>1 DEF SequenceInv, BatchInv, KnownInv, Known, BelowTheBatch, StoppedInv
  <2> QED
    BY <1>0, <2>1, <2>2
       DEF SequenceInv, SpooledSequencesDisjoint, AwaitingNamesOneFile, WireInv
<1>3. CASE Collect
  <2>1. UNCHANGED <<running, starts, boot, spool, awaiting, wire>> /\ running
    BY <1>3 DEF Collect, diskVars, streamVars, netVars
  <2>2. lastSequence' = lastSequence + 1 /\ lastSequence \in Nat
    BY <1>0, <1>3 DEF Collect, TypeInv, TypeOK
  <2>3. \A s \in batch' : 
         s \in batch \/ (s.boot = boot /\ s.process = starts /\ s.sequence = lastSequence')
    <3>1. \A s \in batch' :
            s \in batch \/ s = [boot |-> boot, sequence |-> lastSequence', process |-> starts]
      BY <1>3 DEF Collect
    <3> QED
      BY <3>1
  <2>4. \A s \in batch : s.sequence \in Nat
    BY <1>0 DEF TypeInv, TypeOK, Sample
  <2>5. \A i \in Known : i.last \in Nat
    BY <1>0 DEF TypeInv, TypeOK, Known, Item
  <2>6. BatchInv'
    BY <2>1, <2>2, <2>3, <2>4 DEF SequenceInv, BatchInv
  <2>7. BelowTheBatch'
    BY <2>1, <2>2, <2>3, <2>5 DEF SequenceInv, BelowTheBatch, Known
  <2> QED
    BY <1>0, <2>1, <2>6, <2>7 DEF SequenceInv, KnownInv, Known, StoppedInv,
       SpooledSequencesDisjoint, AwaitingNamesOneFile, WireInv
<1>4. CASE Flush
  <2>1. UNCHANGED <<running, starts, boot, lastSequence, awaiting, wire>> /\ running /\ batch' = {}
    BY <1>4 DEF Flush, streamVars, netVars
  <2>4. \/ spool' \subseteq spool
        \/ \E f \in spool' : spool' \subseteq spool \cup {f} /\ HoldsTheBatch(f)
    BY <1>4, FlushEffect
  <2>3. BatchInv' /\ BelowTheBatch'
    BY <2>1, <2>4 DEF SequenceInv, BatchInv, BelowTheBatch, Known, HoldsTheBatch
  <2>6. KnownInv'
    BY <2>1, <2>4 DEF SequenceInv, BatchInv, KnownInv, Known, OfOneProcess, HoldsTheBatch
  <2>7. SpooledSequencesDisjoint'
    <3>1. CASE spool' \subseteq spool
      BY <3>1 DEF SequenceInv, SpooledSequencesDisjoint
    <3>2. ASSUME NEW f \in spool', spool' \subseteq spool \cup {f},
                 f.boot = boot, f.first \in {s.sequence : s \in batch}
          PROVE  SpooledSequencesDisjoint'
      <4>1. \A i \in spool : i.boot = boot => i.last < f.first
        BY <2>1, <3>2 DEF SequenceInv, BelowTheBatch, Known
      <4> QED
        BY <3>2, <4>1 DEF SequenceInv, SpooledSequencesDisjoint
    <3> QED
      BY <2>4, <3>1, <3>2 DEF HoldsTheBatch
  <2>8. AwaitingNamesOneFile'
    <3>1. \A i \in spool' : i \in spool \/ (i.boot = boot /\ i.last \in {s.sequence : s \in batch})
      BY <2>4 DEF HoldsTheBatch
    <3>2. ASSUME awaiting # NoItem, awaiting.boot = boot
          PROVE  \A s \in batch : awaiting.last < s.sequence
      BY <2>1, <3>2 DEF SequenceInv, BelowTheBatch, Known
    <3>3. awaiting # NoItem => awaiting.last \in Nat
      BY <1>0 DEF TypeInv, TypeOK, Item
    <3> QED
      BY <2>1, <3>1, <3>2, <3>3 DEF SequenceInv, AwaitingNamesOneFile, SameFile
  <2> QED
    BY <1>0, <2>1, <2>3, <2>6, <2>7, <2>8 DEF SequenceInv, StoppedInv, WireInv
<1>5. CASE SendBatch
  BY <1>0, <1>run, <1>5, QuietStep DEF SendBatch, streamVars, agentVars, diskVars
<1>6. CASE TakeOldest
  BY <1>0, <1>run, <1>6, QuietStep DEF TakeOldest, IsOldest, agentVars, diskVars, netVars
<1>7. CASE ClockStepsBack \/ PersistSequence \/ PersistSequenceFails
  BY <1>0, <1>7, QuietStep DEF ClockStepsBack, PersistSequence, PersistSequenceFails, agentVars,
     diskVars, streamVars, netVars
<1>8. CASE OpenStream \/ BreakStream \/ ReadFails \/ Poll
  BY <1>0, <1>run, <1>8, QuietStep DEF OpenStream, BreakStream, ReadFails, Poll, Disconnected, agentVars, diskVars,
     vars, streamVars, netVars
<1>9. CASE ReceiveWelcome \/ ReceiveAck \/ RecordAck \/ RecordAckFails \/ ReceiveReject
  BY <1>0, <1>run, <1>9, QuietStep DEF ReceiveWelcome, ReceiveAck, RecordAck, RecordAckFails, ReceiveReject,
     Disconnected, Pruned, Without, Phase, agentVars, diskVars, netVars
<1>10. CASE HandleHello \/ SaveMetricBatch \/ RejectBatch \/ LoseMessage \/ ExpireRow
  <2>1. wire' \subseteq wire
    BY <1>10 DEF HandleHello, SaveMetricBatch, RejectBatch, LoseMessage, ExpireRow, Answer, netVars
  <2>2. UNCHANGED <<running, starts, boot, lastSequence, batch, spool, awaiting>>
    BY <1>10 DEF HandleHello, SaveMetricBatch, RejectBatch, LoseMessage, ExpireRow,
       agentVars, diskVars, streamVars
  <2> QED
    BY <1>0, <2>1, <2>2, QuietStep DEF streamVars
<1>11. CASE UNCHANGED vars
  BY <1>0, <1>11, QuietStep DEF vars, agentVars, diskVars, streamVars, netVars
<1> QED
  BY <1>1, <1>2, <1>3, <1>4, <1>5, <1>6, <1>7, <1>8, <1>9, <1>10, <1>11 DEF Next

LEMMA SequenceInvariant == Spec => []SequenceInv
  BY InitSequenceInv, NextSequenceInv, PTL DEF Spec

(* No two files of the spool ever cover the same sequence of a boot,       *)
(* whatever crashes, reboots, evictions, failed writes and clock steps     *)
(* happen: the restart takes its next sequence from the spool as well as   *)
(* from identity.json.                                                     *)
THEOREM SpoolSequencesNeverOverlap == Spec => []SpooledSequencesDisjoint
<1>1. SequenceInv => SpooledSequencesDisjoint
  BY DEF SequenceInv
<1> QED
  BY <1>1, SequenceInvariant, PTL

-----------------------------------------------------------------------------
(* The capacity of the spool.                                              *)

LEMMA LeastExists ==
  ASSUME NEW T \in SUBSET Nat, T # {}
  PROVE  \E t \in T : \A u \in T : t <= u
<1>1. PICK t \in T : \A u \in T : ~(<<u, t>> \in OpToRel(<, Nat))
  BY WFMin, NatLessThanWellFounded
<1>2. \A u \in T : ~(u < t)
  BY <1>1 DEF OpToRel
<1> QED
  BY <1>2

(* The index of the spool has a head whenever a file is left.              *)
LEMMA OldestExists ==
  ASSUME NEW files \in SUBSET Item, files # {}
  PROVE  \E f \in files : \A g \in files : ~ItemLess(g, f)
<1>0. ASSUME NEW f \in files
      PROVE  f.mtime \in Nat /\ f.boot \in Nat /\ f.first \in Nat /\ f.last \in Nat
  <2>1. f.mtime \in Nat /\ f.boot \in Boots /\ f.first \in 1..MaxSequence /\ f.last \in 1..MaxSequence
    <3>1. f \in Item
      OBVIOUS
    <3> QED BY <3>1 DEF Item
  <2>2. Boots \subseteq Nat /\ MaxSequence \in Nat
    BY DeliveryAssumption
  <2>3. f.boot \in Nat
    BY <2>1, <2>2
  <2>4. f.first \in Nat /\ f.last \in Nat
    BY <2>1, <2>2
  <2> QED
    BY <2>1, <2>3, <2>4
<1>1. PICK m \in Nat : (\E f \in files : f.mtime = m) /\ \A f \in files : m <= f.mtime
  <2> DEFINE T == {f.mtime : f \in files}
  <2>1. T \in SUBSET Nat /\ T # {}
    BY <1>0
  <2>2. \E t \in T : \A u \in T : t <= u
    <3> HIDE DEF T
    <3> QED BY <2>1, LeastExists
  <2> QED
    BY <2>1, <2>2
<1> DEFINE A == {f \in files : f.mtime = m}
<1>2. PICK b \in Nat : (\E f \in A : f.boot = b) /\ \A f \in A : b <= f.boot
  <2> DEFINE T == {f.boot : f \in A}
  <2>1. T \in SUBSET Nat /\ T # {}
    BY <1>0, <1>1
  <2>2. \E t \in T : \A u \in T : t <= u
    <3> HIDE DEF T
    <3> QED BY <2>1, LeastExists
  <2> QED
    BY <2>1, <2>2
<1> DEFINE B == {f \in A : f.boot = b}
<1>3. PICK n \in Nat : (\E f \in B : f.first = n) /\ \A f \in B : n <= f.first
  <2> DEFINE T == {f.first : f \in B}
  <2>1. T \in SUBSET Nat /\ T # {}
    BY <1>0, <1>2
  <2>2. \E t \in T : \A u \in T : t <= u
    <3> HIDE DEF T
    <3> QED BY <2>1, LeastExists
  <2> QED
    BY <2>1, <2>2
<1> DEFINE C == {f \in B : f.first = n}
<1>4. PICK l \in Nat : (\E f \in C : f.last = l) /\ \A f \in C : l <= f.last
  <2> DEFINE T == {f.last : f \in C}
  <2>1. T \in SUBSET Nat /\ T # {}
    BY <1>0, <1>3
  <2>2. \E t \in T : \A u \in T : t <= u
    <3> HIDE DEF T
    <3> QED BY <2>1, LeastExists
  <2> QED
    BY <2>1, <2>2
<1>5. PICK f \in C : f.last = l
  BY <1>4
<1>6. f \in files
  OBVIOUS
<1>7. ASSUME NEW g \in files PROVE ~ItemLess(g, f)
  BY <1>0, <1>1, <1>2, <1>3, <1>4, <1>5 DEF ItemLess
<1> QED
  BY <1>6, <1>7

(* Fewer files hold fewer samples.                                         *)
LEMMA FewerBytes ==
  ASSUME NEW files, NEW fewer \in SUBSET files, IsFiniteSet(SamplesOf(files))
  PROVE  /\ IsFiniteSet(SamplesOf(fewer))
         /\ UsedBytes(fewer) \in Nat /\ UsedBytes(files) \in Nat
         /\ UsedBytes(fewer) <= UsedBytes(files)
<1>1. SamplesOf(fewer) \subseteq SamplesOf(files)
  BY DEF SamplesOf
<1> QED
  BY <1>1, FS_Subset, FS_CardinalityType DEF UsedBytes

(* What makeRoom leaves has room for the file to come.                     *)
LEMMA SurvivorsFit ==
  ASSUME NEW required \in Nat, required <= MaximumBytes, spool \subseteq Item,
         IsFiniteSet(SamplesOf(spool))
  PROVE  UsedBytes(Survivors(required)) + required <= MaximumBytes
<1> DEFINE kept == Survivors(required)
<1>1. CASE kept = {}
  <2>1. SamplesOf(kept) = {}
    BY <1>1 DEF SamplesOf
  <2>2. UsedBytes(kept) = 0
    BY <2>1, FS_EmptySet DEF UsedBytes
  <2> QED
    BY <2>2
<1>2. CASE kept # {}
  <2>1. kept \in SUBSET Item
    BY DEF Survivors
  <2>2. PICK head \in kept : \A j \in kept : ~ItemLess(j, head)
    BY <1>2, <2>1, OldestExists
  <2> DEFINE rest == {j \in spool : ~ItemLess(j, head)}
  <2>3. UsedBytes(rest) + required <= MaximumBytes
    BY <2>2 DEF Survivors
  <2>4. kept \in SUBSET rest
    BY <2>2 DEF Survivors
  <2>5. IsFiniteSet(SamplesOf(rest))
    BY FewerBytes
  <2>6. UsedBytes(kept) \in Nat /\ UsedBytes(rest) \in Nat /\ UsedBytes(kept) <= UsedBytes(rest)
    <3> HIDE DEF kept, rest
    <3> QED BY <2>4, <2>5, FewerBytes
  <2> QED
    BY <2>3, <2>6, DeliveryAssumption
<1> QED
  BY <1>1, <1>2

CapacityInv ==
  /\ IsFiniteSet(batch) /\ IsFiniteSet(SamplesOf(spool))
  /\ SpoolWithinCapacity

(* Steps that write no file and take no sample.                            *)
LEMMA NoFileWritten ==
  ASSUME CapacityInv, spool' \subseteq spool, batch' = batch \/ batch' = {}
  PROVE  CapacityInv'
<1>1. IsFiniteSet(batch')
  BY FS_EmptySet DEF CapacityInv
<1>2. IsFiniteSet(SamplesOf(spool')) /\ UsedBytes(spool') <= UsedBytes(spool)
      /\ UsedBytes(spool') \in Nat /\ UsedBytes(spool) \in Nat
  BY FewerBytes DEF CapacityInv
<1>3. UsedBytes(spool') <= MaximumBytes
  BY <1>2, DeliveryAssumption DEF CapacityInv, SpoolWithinCapacity
<1> QED
  BY <1>1, <1>2, <1>3 DEF CapacityInv, SpoolWithinCapacity, UsedBytes, SamplesOf

(* A flush writes the new file only into what makeRoom left.               *)
LEMMA FlushKeepsCapacity ==
  ASSUME CapacityInv, spool \subseteq Item, Flush
  PROVE  CapacityInv'
<1> DEFINE required == Cardinality(batch)
           kept == Survivors(required)
<1>0. required \in Nat /\ kept \in SUBSET spool
  BY FS_CardinalityType DEF CapacityInv, Survivors
<1>1. CASE spool' \subseteq spool
  BY <1>1, NoFileWritten DEF Flush
<1>2. ASSUME ~(spool' \subseteq spool) PROVE CapacityInv'
  <2>1. /\ required <= MaximumBytes
        /\ \E first, last \in {s.sequence : s \in batch} :
             spool' = kept \cup {[boot |-> boot, first |-> first, last |-> last,
                                  samples |-> batch, mtime |-> clock]}
    BY <1>0, <1>2 DEF Flush
  <2>2. SamplesOf(spool') = SamplesOf(kept) \cup batch
    <3> DEFINE file(first, last) == [boot |-> boot, first |-> first, last |-> last,
                                     samples |-> batch, mtime |-> clock]
    <3>1. PICK first \in {s.sequence : s \in batch}, last \in {s.sequence : s \in batch} :
            spool' = kept \cup {file(first, last)}
      BY <2>1
    <3>2. file(first, last).samples = batch
      OBVIOUS
    <3> HIDE DEF kept, file
    <3> QED BY <3>1, <3>2 DEF SamplesOf
  <2>3. IsFiniteSet(SamplesOf(kept)) /\ UsedBytes(kept) \in Nat
    <3> HIDE DEF kept
    <3> QED BY <1>0, FewerBytes DEF CapacityInv
  <2>4. UsedBytes(kept) + required <= MaximumBytes
    BY <1>0, <2>1, SurvivorsFit DEF CapacityInv
  <2>5. /\ IsFiniteSet(SamplesOf(kept) \cup batch)
        /\ Cardinality(SamplesOf(kept) \cup batch) <= UsedBytes(kept) + required
    <3>1. Cardinality(SamplesOf(kept) \cap batch) \in Nat
      BY <2>3, FS_Intersection, FS_CardinalityType DEF CapacityInv
    <3>2. Cardinality(SamplesOf(kept) \cup batch)
            = Cardinality(SamplesOf(kept)) + Cardinality(batch) - Cardinality(SamplesOf(kept) \cap batch)
          /\ IsFiniteSet(SamplesOf(kept) \cup batch)
      BY <2>3, FS_Union DEF CapacityInv
    <3> QED
      BY <1>0, <2>3, <3>1, <3>2 DEF UsedBytes
  <2>6. Cardinality(SamplesOf(kept) \cup batch) \in Nat
    BY <2>5, FS_CardinalityType
  <2>7. IsFiniteSet(SamplesOf(spool')) /\ UsedBytes(spool') <= MaximumBytes
    BY <1>0, <2>2, <2>3, <2>4, <2>5, <2>6, DeliveryAssumption DEF UsedBytes
  <2>8. IsFiniteSet(batch')
    BY FS_EmptySet DEF Flush
  <2> QED
    BY <2>7, <2>8 DEF CapacityInv, SpoolWithinCapacity, UsedBytes, SamplesOf
<1> QED
  BY <1>1, <1>2

LEMMA NextCapacityInv == TypeInv /\ CapacityInv /\ [Next]_vars => CapacityInv'
<1> SUFFICES ASSUME TypeInv, CapacityInv, [Next]_vars PROVE CapacityInv'
  OBVIOUS
<1>1. CASE Collect
  <2>1. UNCHANGED spool
    BY <1>1 DEF Collect, diskVars
  <2>2. IsFiniteSet(batch')
    BY <1>1, FS_AddElement DEF Collect, CapacityInv
  <2> QED
    BY <2>1, <2>2 DEF CapacityInv, SpoolWithinCapacity, UsedBytes, SamplesOf
<1>2. CASE Flush
  BY <1>2, FlushKeepsCapacity DEF TypeInv, TypeOK
<1>3. ASSUME ~Collect, ~Flush PROVE spool' \subseteq spool /\ (batch' = batch \/ batch' = {})
  BY <1>3 DEF Next, vars, agentVars, diskVars, Start, Crash, ClockStepsBack,
     PersistSequence, PersistSequenceFails, OpenStream, BreakStream, ReceiveWelcome, Pruned,
     TakeOldest, SendBatch, ReadFails, ReceiveAck, Without, RecordAck, RecordAckFails,
     ReceiveReject, Renamed, Poll, HandleHello, SaveMetricBatch, RejectBatch, LoseMessage,
     ExpireRow
<1> QED
  BY <1>1, <1>2, <1>3, NoFileWritten

LEMMA InitCapacityInv == Init => CapacityInv
<1> SUFFICES ASSUME Init PROVE CapacityInv
  OBVIOUS
<1>1. SamplesOf(spool) = {} /\ batch = {}
  BY DEF Init, SamplesOf
<1> QED
  BY <1>1, FS_EmptySet, DeliveryAssumption DEF CapacityInv, SpoolWithinCapacity, UsedBytes

LEMMA CapacityInvariant == Spec => []CapacityInv
  BY InitTypeInv, NextTypeInv, InitCapacityInv, NextCapacityInv, PTL DEF Spec

(* The spool never holds more than its capacity, whatever the host samples *)
(* while it is offline: makeRoom evicts before the new file is written,    *)
(* and a batch larger than the whole spool is dropped.                     *)
THEOREM SpoolStaysWithinCapacity == Spec => []SpoolWithinCapacity
<1>1. CapacityInv => SpoolWithinCapacity
  BY DEF CapacityInv
<1> QED
  BY <1>1, CapacityInvariant, PTL

-----------------------------------------------------------------------------
(* Rows and rollups.                                                       *)

(* PostgreSQL never holds two rows for one boot and sequence, and no row   *)
(* is missing from its rollup, however often a batch is sent again.        *)
THEOREM RowsStayUnique == Spec => []RowsAreUnique
<1>1. Init => RowsAreUnique
  BY DEF Init, RowsAreUnique
<1>2. SequenceInv /\ RowsAreUnique /\ [Next]_vars => RowsAreUnique'
  <2> SUFFICES ASSUME SequenceInv, RowsAreUnique, [Next]_vars PROVE RowsAreUnique'
    OBVIOUS
  <2>1. CASE SaveMetricBatch
    <3>1. PICK m \in wire :
            /\ m.kind = "batch"
            /\ rows' = rows \cup Inserted(m.item.samples)
            /\ rolledUp' = rolledUp \cup Inserted(m.item.samples)
      BY <2>1 DEF SaveMetricBatch
    <3>2. \A s, t \in Inserted(m.item.samples) : s.boot = t.boot /\ s.sequence = t.sequence => s = t
      <4>1. Inserted(m.item.samples) \subseteq m.item.samples /\ m.item.samples \subseteq Sample
        BY <3>1 DEF Inserted, SequenceInv, TypeInv, TypeOK, Message, Item
      <4>2. OfOneProcess(m.item.samples)
        BY <3>1 DEF SequenceInv, WireInv
      <4> QED
        BY <4>1, <4>2 DEF OfOneProcess, Sample
    <3> QED
      BY <3>1, <3>2 DEF RowsAreUnique, Inserted
  <2>2. CASE ExpireRow
    BY <2>2 DEF ExpireRow, RowsAreUnique
  <2>3. ASSUME ~SaveMetricBatch, ~ExpireRow PROVE UNCHANGED <<rows, rolledUp>>
    BY <2>3 DEF Next, vars, gatewayVars, Start, Crash, ClockStepsBack, Collect, Flush,
       PersistSequence, PersistSequenceFails, OpenStream, BreakStream, ReceiveWelcome, TakeOldest,
       SendBatch, ReadFails, ReceiveAck, RecordAck, RecordAckFails, ReceiveReject, Poll,
       HandleHello, RejectBatch, LoseMessage
  <2> QED
    BY <2>1, <2>2, <2>3 DEF RowsAreUnique
<1> QED
  BY <1>1, <1>2, SequenceInvariant, PTL DEF Spec

(* As long as no row expires, no sample is ever counted twice in a rollup. *)
(* The assumption is needed: DeliveryResendAfterRetention shows the run    *)
(* that breaks the property once retention has deleted a row.              *)
THEOREM RollupsExactWithoutRetention ==
  ASSUME MaxExpirations = 0
  PROVE  Spec => []RollupCountsEachSampleOnce
<1> DEFINE RollupInv == RollupCountsEachSampleOnce /\ rolledUp \subseteq rows
<1>1. Init => RollupInv
  BY DEF Init, RollupCountsEachSampleOnce
<1>2. TypeInv /\ RollupInv /\ [Next]_vars => RollupInv'
  <2> SUFFICES ASSUME TypeInv, RollupInv, [Next]_vars PROVE RollupInv'
    OBVIOUS
  <2>1. CASE SaveMetricBatch
    BY <2>1 DEF SaveMetricBatch, Inserted, RollupCountsEachSampleOnce
  <2>2. ~ExpireRow
    BY MaxExpirations = 0 DEF TypeInv, TypeOK, ExpireRow
  <2>3. ASSUME ~SaveMetricBatch PROVE UNCHANGED <<rows, rolledUp, recounted>>
    BY <2>2, <2>3 DEF Next, vars, gatewayVars, Start, Crash, ClockStepsBack, Collect, Flush,
       PersistSequence, PersistSequenceFails, OpenStream, BreakStream, ReceiveWelcome, TakeOldest,
       SendBatch, ReadFails, ReceiveAck, RecordAck, RecordAckFails, ReceiveReject, Poll,
       HandleHello, RejectBatch, LoseMessage
  <2> QED
    BY <2>1, <2>3 DEF RollupCountsEachSampleOnce
<1>3. RollupInv => RollupCountsEachSampleOnce
  OBVIOUS
<1>4. TypeInv /\ [Next]_vars => TypeInv'
  BY NextTypeInv
<1> QED
  BY <1>1, <1>2, <1>3, <1>4, InitTypeInv, PTL DEF Spec

-----------------------------------------------------------------------------


(* The stream is a conversation: at most one message is under way.         *)
OnTheStream(m) == m.stream = stream

StreamInv ==
  /\ \A m \in wire : m.stream <= stream
  /\ \A r \in replies : r.stream = stream /\ replies = {r}
  /\ phase \in {"offline", "streaming", "sending"} => replies = {}
  /\ phase \in {"offline", "greeting", "streaming"} <=> awaiting = NoItem
  /\ phase \in {"streaming", "sending", "recording"} => \A m \in wire : ~OnTheStream(m)
  /\ phase = "greeting" => \A m \in wire : OnTheStream(m) => m.kind = "hello" /\ m.boot = boot /\ replies = {}
  /\ phase = "waiting" =>
       \A m \in wire : OnTheStream(m) =>
         m.kind = "batch" /\ m.boot = awaiting.boot /\ m.item = awaiting /\ replies = {}

StreamOrder == SequenceInv /\ StreamInv /\ AnswersMatchTheBatchInFlight

LEMMA InitStreamOrder == Init => StreamOrder
  BY InitSequenceInv DEF Init, StreamOrder, StreamInv, AnswersMatchTheBatchInFlight

(* On the current stream there is at most one message.                     *)
LEMMA OneMessage ==
  ASSUME StreamOrder, NEW m \in wire, NEW n \in wire, OnTheStream(m), OnTheStream(n),
         phase \in {"greeting", "waiting"}
  PROVE  m = n
<1>1. m \in Message /\ n \in Message
  BY DEF StreamOrder, SequenceInv, TypeInv, TypeOK
<1>2. m.stream = n.stream /\ m.kind = n.kind /\ m.boot = n.boot
  BY DEF StreamOrder, StreamInv, OnTheStream
<1>3. m.item = n.item
  BY <1>1 DEF StreamOrder, StreamInv, Message
<1> QED
  BY <1>1, <1>2, <1>3 DEF Message

(* Handling a message of the current stream puts its answer there.         *)
LEMMA AnswerKeepsOrder ==
  ASSUME StreamOrder, NEW m \in wire, NEW kind, Answer(m, kind), UNCHANGED <<streamVars, boot>>,
         (m.kind = "hello" /\ kind = "welcome") \/ (m.kind = "batch" /\ kind \in {"ack", "reject"})
  PROVE  (StreamInv /\ AnswersMatchTheBatchInFlight)'
<1> USE DEF streamVars, OnTheStream
<1>1. CASE m.stream # stream \/ phase = "offline"
  BY <1>1 DEF StreamOrder, Answer, StreamInv, AnswersMatchTheBatchInFlight
<1>2. CASE m.stream = stream /\ phase # "offline"
  <2>1. phase \in {"greeting", "waiting"} /\ replies = {}
    BY <1>2 DEF StreamOrder, StreamInv, SequenceInv, TypeInv, TypeOK, Phase
  <2>2. replies' = {[stream |-> stream, kind |-> kind, item |-> m.item]}
    BY <1>2, <2>1 DEF Answer
  <2>3. \A n \in wire' : n.stream # stream
    BY <1>2, <2>1, OneMessage DEF Answer
  <2>4. AnswersMatchTheBatchInFlight'
    BY <1>2, <2>1, <2>2 DEF AnswersMatchTheBatchInFlight, StreamOrder, StreamInv
  <2> QED
    BY <2>1, <2>2, <2>3, <2>4 DEF Answer, StreamOrder, StreamInv
<1> QED
  BY <1>1, <1>2

LEMMA NextStreamOrder == StreamOrder /\ [Next]_vars => StreamOrder'
<1> SUFFICES ASSUME StreamOrder, [Next]_vars PROVE (StreamInv /\ AnswersMatchTheBatchInFlight)'
  BY NextSequenceInv DEF StreamOrder
<1>0. TypeInv /\ SequenceInv /\ StreamInv /\ AnswersMatchTheBatchInFlight
  BY DEF StreamOrder, SequenceInv
<1>type. replies \subseteq Reply /\ wire \subseteq Message /\ spool \subseteq Item /\ NoItem \notin Item
         /\ stream \in Nat
  BY DeliveryAssumption DEF StreamOrder, SequenceInv, TypeInv, TypeOK
<1> USE DEF StreamInv, OnTheStream, AnswersMatchTheBatchInFlight
<1>1. ASSUME NEW b \in Boots, Start(b) PROVE (StreamInv /\ AnswersMatchTheBatchInFlight)'
  BY <1>0, <1>1 DEF Start, netVars, TypeInv, ProcessInv
<1>2. CASE Crash
  BY <1>0, <1>2 DEF Crash
<1>3. CASE Collect \/ Flush \/ PersistSequence \/ PersistSequenceFails \/ ClockStepsBack
  BY <1>0, <1>3 DEF Collect, Flush, PersistSequence, PersistSequenceFails, ClockStepsBack,
     agentVars, streamVars, netVars
<1>4. CASE OpenStream
  <2>1. \A m \in wire : m.stream \in Nat /\ m.stream # stream' /\ m.stream <= stream'
    BY <1>0, <1>4, <1>type DEF OpenStream, Message
  <2>2. phase' = "greeting" /\ replies' = {} /\ awaiting' = NoItem /\ boot' = boot
    BY <1>0, <1>4 DEF OpenStream, agentVars, SequenceInv, StoppedInv
  <2>3. \A m \in wire' : m \in wire \/ (m.stream = stream' /\ m.kind = "hello" /\ m.boot = boot)
    BY <1>4 DEF OpenStream
  <2> QED
    BY <2>1, <2>2, <2>3, <1>4, <1>type DEF OpenStream
<1>5. CASE BreakStream \/ ReadFails
  BY <1>0, <1>5 DEF BreakStream, ReadFails, Disconnected
<1>6. CASE ReceiveWelcome
  <2>1. replies # {} /\ replies' = {} /\ phase = "greeting" /\ phase' = "streaming"
    BY <1>0, <1>6 DEF ReceiveWelcome
  <2> QED
    BY <1>0, <1>6, <2>1 DEF ReceiveWelcome
<1>7. CASE TakeOldest
  <2>1. awaiting' \in Item /\ phase = "streaming" /\ phase' = "sending"
    BY <1>7, <1>type DEF TakeOldest, IsOldest
  <2> QED
    BY <1>0, <1>7, <1>type, <2>1 DEF TakeOldest, netVars
<1>8. CASE SendBatch
  <2>1. wire' = wire \cup {[stream |-> stream, kind |-> "batch", boot |-> awaiting.boot, item |-> awaiting]}
    BY <1>0, <1>8 DEF SendBatch, SequenceInv, AwaitingNamesOneFile
  <2>2. phase = "sending" /\ phase' = "waiting" /\ UNCHANGED <<replies, stream, awaiting, boot>>
    BY <1>8 DEF SendBatch, agentVars
  <2>3. \A m \in wire' : m \in wire \/ (m.stream = stream /\ m.kind = "batch" /\ m.boot = awaiting.boot
                                      /\ m.item = awaiting)
    BY <2>1
  <2> QED
    BY <1>0, <1>type, <2>2, <2>3
<1>9. CASE ReceiveAck
  <2>1. replies # {} /\ phase = "waiting" /\ phase' = "recording" /\ UNCHANGED <<replies, wire, stream, awaiting>>
    BY <1>0, <1>9 DEF ReceiveAck, netVars
  <2> QED
    BY <1>0, <1>9, <2>1 DEF ReceiveAck
<1>10. CASE RecordAck
  <2>1. PICK r \in replies : /\ r.kind = "ack" /\ replies' = replies \ {r}
                            /\ awaiting' = IF AcknowledgesCurrent(r) THEN NoItem ELSE awaiting
    BY <1>10 DEF RecordAck
  <2>2. phase = "recording" /\ r.item = awaiting /\ r.item \in Item /\ replies' = {}
    BY <1>0, <1>10, <1>type, <2>1 DEF RecordAck, Reply
  <2>3. awaiting' = NoItem /\ phase' = "streaming"
    BY <1>10, <1>type, <2>1, <2>2 DEF RecordAck, AcknowledgesCurrent, Item
  <2> QED
    BY <1>0, <1>10, <2>2, <2>3 DEF RecordAck
<1>11. CASE RecordAckFails \/ ReceiveReject
  BY <1>0, <1>11 DEF RecordAckFails, ReceiveReject, Disconnected
<1>12. CASE HandleHello
  BY <1>12, AnswerKeepsOrder DEF HandleHello, agentVars
<1>13. CASE SaveMetricBatch
  BY <1>13, AnswerKeepsOrder DEF SaveMetricBatch, agentVars
<1>14. CASE RejectBatch
  BY <1>14, AnswerKeepsOrder DEF RejectBatch, agentVars
<1>15. CASE LoseMessage
  BY <1>0, <1>15 DEF LoseMessage, agentVars, streamVars, Phase
<1>16. CASE ExpireRow \/ Poll \/ UNCHANGED vars
  BY <1>0, <1>16 DEF ExpireRow, Poll, vars, agentVars, streamVars, netVars
<1> QED
  BY <1>1, <1>2, <1>3, <1>4, <1>5, <1>6, <1>7, <1>8, <1>9, <1>10, <1>11, <1>12, <1>13, <1>14,
     <1>15, <1>16 DEF Next

(* Whatever the agent receives is the answer to what it sent last: the     *)
(* acknowledgement it acts on is always that of the batch in flight.       *)
THEOREM AnswersAlwaysMatch == Spec => []AnswersMatchTheBatchInFlight
<1>1. StreamOrder => AnswersMatchTheBatchInFlight
  BY DEF StreamOrder
<1> QED
  BY <1>1, InitStreamOrder, NextStreamOrder, PTL DEF Spec
=============================================================================
