------------------------ MODULE SshConnectionProofs ------------------------
(***************************************************************************)
(* Proofs about the SSH connection manager: its types, the channel budget  *)
(* and the wake-up of waiters for every number of clients, commands,       *)
(* channels, faults and probe failures; as long as no health probe fails   *)
(* on a connection that is up, that there is one connection at most and    *)
(* that a disconnect is final; and, when probes do fail, that each of them *)
(* costs one connection at most.                                           *)
(***************************************************************************)
EXTENDS SshConnection, FiniteSetTheorems, SequenceTheorems, TLAPS

-----------------------------------------------------------------------------
(* Types.                                                                  *)

LEMMA InitTypeOK == Init => TypeOK
<1> SUFFICES ASSUME Init PROVE TypeOK
  OBVIOUS
<1> USE SshAssumption DEF Init
<1>1. ClientTypes
  <2>1. link \in [Client -> Link] /\ status \in [Client -> Status]
    BY DEF Link, Status
  <2>2. timers \in [Client -> Seq(1..MaxRetries)]
    OBVIOUS
  <2>3. attempt \in [Client -> 0..MaxRetries] /\ intentional \in [Client -> BOOLEAN]
    OBVIOUS
  <2> QED BY <2>1, <2>2, <2>3 DEF ClientTypes
<1>2. ChannelTypes
  <2>1. queue \in [Client -> Seq(Command)]
    OBVIOUS
  <2>2. phase \in [Command -> Phase]
    BY DEF Phase
  <2>3. serving \in [Command -> 0..MaxClients]
    OBVIOUS
  <2> QED BY <2>1, <2>2, <2>3 DEF ChannelTypes
<1>3. BoundTypes
  <2>1. probing = {} /\ wanted = FALSE /\ connects = 0 /\ faults = 0 /\ probeFailures = 0
    OBVIOUS
  <2>2. 0 \in 0..MaxConnects /\ 0 \in 0..MaxFaults /\ 0 \in 0..MaxProbeFailures
    OBVIOUS
  <2> HIDE DEF Init
  <2> QED BY <2>1, <2>2 DEF BoundTypes
<1> QED BY <1>1, <1>2, <1>3 DEF TypeOK

LEMMA TornLinksType ==
  ASSUME ClientTypes, NEW torn
  PROVE  TornLinks(torn) \in [Client -> Link]
BY DEF TornLinks, ClientTypes, Link

LEMMA ScheduledType ==
  ASSUME ClientTypes, NEW e \in Client, NEW n \in 0..MaxRetries
  PROVE  Scheduled(e, n) \in [Client -> Seq(1..MaxRetries)]
<1>1. CASE intentional[e] \/ n >= MaxRetries
  BY <1>1 DEF Scheduled, ClientTypes
<1>2. CASE ~(intentional[e] \/ n >= MaxRetries)
  <2>1. n + 1 \in 1..MaxRetries /\ timers[e] \in Seq(1..MaxRetries)
    BY <1>2, SshAssumption DEF ClientTypes
  <2>2. Append(timers[e], n + 1) \in Seq(1..MaxRetries)
    BY <2>1
  <2> QED BY <1>2, <2>2 DEF Scheduled, ClientTypes
<1> QED BY <1>1, <1>2

LEMMA TeardownType ==
  ASSUME ClientTypes, NEW torn, Teardown(torn)
  PROVE  intentional' \in [Client -> BOOLEAN] /\ timers' \in [Client -> Seq(1..MaxRetries)]
<1>1. intentional' \in [Client -> BOOLEAN]
  BY DEF Teardown, ClientTypes
<1>2. timers' \in [Client -> Seq(1..MaxRetries)]
  <2>1. <<>> \in Seq(1..MaxRetries) /\ timers \in [Client -> Seq(1..MaxRetries)]
    BY DEF ClientTypes
  <2>2. timers' = [e \in Client |-> IF e \in torn THEN <<>> ELSE timers[e]]
    BY DEF Teardown
  <2> QED BY <2>1, <2>2
<1> QED BY <1>1, <1>2

LEMMA DoConnectType ==
  ASSUME ClientTypes, NEW n \in 0..MaxRetries, NEW links \in [Client -> Link], DoConnect(n, links)
  PROVE  /\ opened' = opened + 1 /\ opened' \in Client /\ current' = opened'
         /\ link' \in [Client -> Link] /\ attempt' \in [Client -> 0..MaxRetries]
         /\ status' = status
<1>1. opened + 1 \in Client /\ opened' = opened + 1 /\ current' = opened' /\ status' = status
  BY SshAssumption DEF DoConnect, ClientTypes, Client
<1>2. link' \in [Client -> Link]
  BY DEF DoConnect, Link
<1>3. attempt' \in [Client -> 0..MaxRetries]
  BY DEF DoConnect, ClientTypes
<1> QED BY <1>1, <1>2, <1>3

LEMMA DrainType ==
  ASSUME ChannelTypes, NEW e \in Client, Drain(e)
  PROVE  ChannelTypes'
<1>1. <<>> \in Seq(Command) /\ queue \in [Client -> Seq(Command)]
  BY DEF ChannelTypes
<1>2. queue' \in [Client -> Seq(Command)]
  BY <1>1 DEF Drain
<1> QED BY <1>2 DEF Drain, ChannelTypes

LEMMA NextTypeOK == TypeOK /\ [SshNext]_sshVars => TypeOK'
<1> SUFFICES ASSUME TypeOK, [SshNext]_sshVars PROVE TypeOK'
  OBVIOUS
<1> USE SshAssumption DEF TypeOK
<1>1. CASE Connect
  <2>0. PICK torn : Teardown(torn) /\ DoConnect(0, TornLinks(torn))
    BY <1>1 DEF Connect
  <2>1. ClientTypes'
    <3>1. 0 \in 0..MaxRetries
      OBVIOUS
    <3>2. handshake' = opened' /\ Client \subseteq 0..MaxClients
      BY <1>1 DEF Connect, Client
    <3> QED BY <2>0, <3>1, <3>2, TeardownType, DoConnectType, TornLinksType DEF ClientTypes
  <2>2. ChannelTypes' /\ BoundTypes'
    BY <1>1 DEF Connect, channelVars, ChannelTypes, BoundTypes
  <2> QED BY <2>1, <2>2
<1>2. CASE Disconnect
  <2>1. ClientTypes'
    BY <1>2, TeardownType, TornLinksType DEF Disconnect, ClientTypes
  <2>2. ChannelTypes' /\ BoundTypes'
    BY <1>2 DEF Disconnect, channelVars, boundVars, ChannelTypes, BoundTypes
  <2> QED BY <2>1, <2>2
<1>3. ASSUME NEW e \in Client, Event(e) PROVE TypeOK'
  <2>1. CASE Ready(e)
    <3>1. ClientTypes'
      BY <2>1 DEF Ready, ForgetHandshake, ClientTypes, Link, Status
    <3> QED BY <2>1, <3>1 DEF Ready, channelVars, boundVars, ChannelTypes, BoundTypes
  <2>2. CASE HandshakeFails(e) \/ AbortedHandshakeFails(e) \/ ConnectionFails(e)
    <3>0. OnError(e) /\ handshake' \in 0..MaxClients /\ faults' \in 0..MaxFaults
      BY <2>2 DEF HandshakeFails, AbortedHandshakeFails, ConnectionFails, ForgetHandshake,
                  ClientTypes, BoundTypes, OnError
    <3>1. timers' \in [Client -> Seq(1..MaxRetries)]
      BY <3>0, ScheduledType DEF OnError, ClientTypes
    <3>2. link' \in [Client -> Link] /\ status' \in [Client -> Status]
      BY <3>0 DEF OnError, ClientTypes, Link, Status
    <3>3. ChannelTypes'
      BY <3>0, DrainType DEF OnError
    <3>4. ClientTypes'
      BY <3>0, <3>1, <3>2 DEF OnError, ClientTypes
    <3> QED BY <3>0, <3>3, <3>4 DEF OnError, BoundTypes
  <2>3. CASE ConnectionEnds(e) \/ SocketCloses(e)
    <3>0. OnClose(e) /\ faults' \in 0..MaxFaults
      BY <2>3 DEF ConnectionEnds, SocketCloses, BoundTypes
    <3>1. timers' \in [Client -> Seq(1..MaxRetries)]
      BY <3>0, ScheduledType DEF OnClose, ClientTypes
    <3>2. link' \in [Client -> Link] /\ status' \in [Client -> Status]
      BY <3>0 DEF OnClose, ClientTypes, Link, Status
    <3>3. ChannelTypes'
      BY <3>0, DrainType DEF OnClose, ChannelTypes, channelVars
    <3>4. ClientTypes'
      BY <3>0, <3>1, <3>2 DEF OnClose, ClientTypes
    <3> QED BY <3>0, <3>3, <3>4 DEF OnClose, BoundTypes
  <2>4. CASE RetryFires(e)
    <3>1. Head(timers[e]) \in 1..MaxRetries /\ Tail(timers[e]) \in Seq(1..MaxRetries)
      BY <2>4 DEF RetryFires, ClientTypes
    <3>2. timers' \in [Client -> Seq(1..MaxRetries)]
      BY <2>4, <3>1 DEF RetryFires, ClientTypes
    <3>3. DoConnect(Head(timers[e]), link) /\ link \in [Client -> Link]
      BY <2>4 DEF RetryFires, ClientTypes
    <3>4. Head(timers[e]) \in 0..MaxRetries
      BY <3>1
    <3>5. Client \subseteq 0..MaxClients
      BY DEF Client
    <3>6. ClientTypes'
      BY <2>4, <3>2, <3>3, <3>4, <3>5, DoConnectType DEF RetryFires, ClientTypes
    <3> QED BY <2>4, <3>6 DEF RetryFires, channelVars, boundVars, ChannelTypes, BoundTypes
  <2>5. CASE ProbeStarts(e) \/ ProbeAnswers(e)
    BY <2>5 DEF ProbeStarts, ProbeAnswers, clientVars, channelVars, boundVars, ClientTypes,
                ChannelTypes, BoundTypes
  <2>6. CASE ProbeFails(e)
    <3>1. timers' \in [Client -> Seq(1..MaxRetries)]
      BY <2>6, ScheduledType DEF ProbeFails, ClientTypes
    <3>2. link' \in [Client -> Link]
      BY <2>6, TornLinksType DEF ProbeFails, ClientTypes
    <3>3. status' \in [Client -> Status]
      BY <2>6 DEF ProbeFails, ClientTypes, Status
    <3>4. ClientTypes'
      BY <2>6, <3>1, <3>2, <3>3 DEF ProbeFails, ClientTypes
    <3>5. ChannelTypes' /\ BoundTypes'
      BY <2>6 DEF ProbeFails, channelVars, ChannelTypes, BoundTypes
    <3> QED BY <3>4, <3>5
  <2> QED BY <1>3, <2>1, <2>2, <2>3, <2>4, <2>5, <2>6 DEF Event
<1>4. ASSUME NEW c \in Command, Exec(c) PROVE TypeOK'
  <2>1. current \in Client
    BY <1>4 DEF Exec, CurrentStatus, ClientTypes, Client
  <2>2. queue' \in [Client -> Seq(Command)]
    <3>1. Append(queue[current], c) \in Seq(Command) /\ queue \in [Client -> Seq(Command)]
      BY <2>1 DEF ChannelTypes
    <3>2. \/ queue' = queue
          \/ queue' = [queue EXCEPT ![current] = Append(queue[current], c)]
      BY <1>4 DEF Exec
    <3> QED BY <2>1, <3>1, <3>2
  <2>3. phase' \in [Command -> Phase]
    BY <1>4 DEF Exec, ChannelTypes, Phase
  <2>4. serving' \in [Command -> 0..MaxClients]
    BY <1>4 DEF Exec, ChannelTypes, ClientTypes
  <2>5. ChannelTypes'
    BY <2>2, <2>3, <2>4 DEF ChannelTypes
  <2> QED BY <1>4, <2>5 DEF Exec, clientVars, boundVars, ClientTypes, BoundTypes
<1>5. ASSUME NEW c \in Command, Settle(c) PROVE TypeOK'
  <2>1. queue' \in [Client -> Seq(Command)]
    <3>1. \A d \in Client : NextWaiter(d) # {} => Tail(queue[d]) \in Seq(Command)
      BY DEF NextWaiter, ChannelTypes
    <3> QED BY <1>5, <3>1 DEF Settle, ChannelTypes
  <2>2. phase' \in [Command -> Phase]
    BY <1>5 DEF Settle, ChannelTypes, Phase
  <2>3. ChannelTypes'
    BY <1>5, <2>1, <2>2 DEF Settle, ChannelTypes
  <2> QED BY <1>5, <2>3 DEF Settle, clientVars, boundVars, ClientTypes, BoundTypes
<1>6. CASE UNCHANGED sshVars
  BY <1>6 DEF sshVars, clientVars, channelVars, boundVars, ClientTypes, ChannelTypes, BoundTypes
<1> QED BY <1>1, <1>2, <1>3, <1>4, <1>5, <1>6 DEF SshNext

(* Every reachable state is type correct; in particular every client that  *)
(* is opened has an entry, and no attempt is numbered beyond MAX_RETRIES.  *)
THEOREM TypeCorrect == SshSpec => []TypeOK
BY InitTypeOK, NextTypeOK, PTL DEF SshSpec
-----------------------------------------------------------------------------
(* Channels.  A command in a queue is a waiter of that client and stands   *)
(* there once, so whoever is shifted off the queue held no channel before, *)
(* and a release that wakes it hands its own channel on.                   *)

ServingKnown == \A c \in Command : phase[c] # "idle" => serving[c] \in Client

WaitersQueued ==
  \A e \in Client : \A i \in 1..Len(queue[e]) :
    phase[queue[e][i]] = "queued" /\ serving[queue[e][i]] = e

WaitersDistinct ==
  \A e \in Client : \A i, j \in 1..Len(queue[e]) : queue[e][i] = queue[e][j] => i = j

ChannelInv ==
  /\ ServingKnown /\ WaitersQueued /\ WaitersDistinct
  /\ ChannelBudget /\ WaitersHaveARunner

LEMMA RunningFinite ==
  ASSUME NEW e
  PROVE  IsFiniteSet(Running(e)) /\ Cardinality(Running(e)) \in Nat
<1>1. Running(e) \subseteq Command
  BY DEF Running
<1> QED BY <1>1, SshAssumption, FS_Subset, FS_CardinalityType DEF SshAssumption

(* Dropping a queue, or leaving it alone, disturbs nothing.                *)
LEMMA DrainKeepsChannelInv ==
  ASSUME ChannelTypes, ChannelInv, UNCHANGED <<phase, serving>>,
         queue' = queue \/ \E e \in Client : queue' = [queue EXCEPT ![e] = <<>>]
  PROVE  ChannelInv'
<1>1. \A f \in Client : queue'[f] = queue[f] \/ queue'[f] = <<>>
  BY DEF ChannelTypes
<1>2. \A f : Running(f)' = Running(f)
  BY DEF Running
<1>3. WaitersQueued' /\ WaitersDistinct'
  BY <1>1 DEF ChannelInv, WaitersQueued, WaitersDistinct
<1>4. ServingKnown' /\ ChannelBudget' /\ WaitersHaveARunner'
  BY <1>1, <1>2 DEF ChannelInv, ServingKnown, ChannelBudget, WaitersHaveARunner
<1> QED BY <1>3, <1>4 DEF ChannelInv

LEMMA ExecKeepsChannelInv ==
  ASSUME TypeOK, ChannelInv, NEW c \in Command, Exec(c)
  PROVE  ChannelInv'
<1> USE DEF TypeOK, ChannelTypes
<1>0. PICK e \in Client : e = current
  BY DEF Exec, CurrentStatus, ClientTypes, Client
<1>1. phase[c] = "idle"
  BY DEF Exec
<1>2. serving' = [serving EXCEPT ![c] = e]
  BY <1>0 DEF Exec
<1>3. \A f \in Client : \A i \in 1..Len(queue[f]) : queue[f][i] \in Command \ {c}
  BY <1>1 DEF ChannelInv, WaitersQueued
<1>4. CASE /\ HasChannel(e)
           /\ phase' = [phase EXCEPT ![c] = "running"]
           /\ queue' = queue
  <2>1. Running(e)' = Running(e) \cup {c} /\ c \notin Running(e)
    BY <1>1, <1>2, <1>4 DEF Running
  <2>2. \A f \in Client \ {e} : Running(f)' = Running(f)
    BY <1>1, <1>2, <1>4 DEF Running
  <2>3. Cardinality(Running(e)') = Cardinality(Running(e)) + 1
    BY <2>1, RunningFinite, FS_AddElement
  <2>4. Cardinality(Running(e)) + 1 <= MaxChannels
    BY <1>4, RunningFinite, SshAssumption DEF HasChannel, SshAssumption
  <2>5. ChannelBudget'
    BY <2>2, <2>3, <2>4 DEF ChannelInv, ChannelBudget
  <2>6. WaitersHaveARunner'
    BY <1>4, <2>1, <2>2 DEF ChannelInv, WaitersHaveARunner
  <2>7. WaitersQueued' /\ WaitersDistinct'
    BY <1>2, <1>3, <1>4 DEF ChannelInv, WaitersQueued, WaitersDistinct
  <2>8. ServingKnown'
    BY <1>1, <1>2, <1>4 DEF ChannelInv, ServingKnown
  <2> QED BY <2>5, <2>6, <2>7, <2>8 DEF ChannelInv
<1>5. CASE /\ ~HasChannel(e)
           /\ phase' = [phase EXCEPT ![c] = "queued"]
           /\ queue' = [queue EXCEPT ![e] = Append(queue[e], c)]
  <2>1. \A f \in Client : Running(f)' = Running(f)
    BY <1>1, <1>2, <1>5 DEF Running
  <2>2. Running(e) # {}
    <3>1. Cardinality({}) = 0
      BY FS_EmptySet
    <3>2. Cardinality(Running(e)) # 0
      BY <1>5, RunningFinite, SshAssumption DEF HasChannel
    <3> QED BY <3>1, <3>2
  <2>3. \A f \in Client : f # e => queue'[f] = queue[f]
    BY <1>5
  <2>4. queue'[e] = Append(queue[e], c) /\ queue[e] \in Seq(Command)
    BY <1>1, <1>5
  <2>5. \A i \in 1..Len(queue'[e]) :
           \/ i \in 1..Len(queue[e]) /\ queue'[e][i] = queue[e][i]
           \/ i = Len(queue[e]) + 1 /\ queue'[e][i] = c
    BY <2>4
  <2>6. WaitersQueued'
    <3>1. \A f \in Client : \A i \in 1..Len(queue[f]) :
             phase'[queue[f][i]] = "queued" /\ serving'[queue[f][i]] = f
      BY <1>2, <1>3, <1>5 DEF ChannelInv, WaitersQueued
    <3>2. phase'[c] = "queued" /\ serving'[c] = e
      BY <1>2, <1>5
    <3>3. \A i \in 1..Len(queue'[e]) :
             phase'[queue'[e][i]] = "queued" /\ serving'[queue'[e][i]] = e
      <4> SUFFICES ASSUME NEW i \in 1..Len(queue'[e])
                   PROVE  phase'[queue'[e][i]] = "queued" /\ serving'[queue'[e][i]] = e
        OBVIOUS
      <4>1. CASE i \in 1..Len(queue[e]) /\ queue'[e][i] = queue[e][i]
        BY <3>1, <4>1
      <4>2. CASE queue'[e][i] = c
        BY <3>2, <4>2
      <4> QED BY <2>5, <4>1, <4>2
    <3>4. \A f \in Client : f # e => \A i \in 1..Len(queue'[f]) :
             phase'[queue'[f][i]] = "queued" /\ serving'[queue'[f][i]] = f
      BY <2>3, <3>1
    <3> QED BY <3>3, <3>4 DEF WaitersQueued
  <2>7. WaitersDistinct'
    <3>1. \A i, j \in 1..Len(queue'[e]) :
             queue'[e][i] = queue'[e][j] => i = j
      BY <1>1, <1>3, <2>5 DEF ChannelInv, WaitersDistinct
    <3> QED BY <2>3, <3>1 DEF ChannelInv, WaitersDistinct
  <2>8. ChannelBudget' /\ WaitersHaveARunner'
    BY <2>1, <2>2, <2>3 DEF ChannelInv, ChannelBudget, WaitersHaveARunner
  <2>9. ServingKnown'
    BY <1>1, <1>2, <1>5 DEF ChannelInv, ServingKnown
  <2> QED BY <2>6, <2>7, <2>8, <2>9 DEF ChannelInv
<1> QED BY <1>0, <1>4, <1>5 DEF Exec

LEMMA SettleKeepsChannelInv ==
  ASSUME TypeOK, ChannelInv, NEW c \in Command, Settle(c)
  PROVE  ChannelInv'
<1> USE DEF TypeOK, ChannelTypes
<1>0. PICK e \in Client : e = serving[c]
  BY DEF Settle, ChannelInv, ServingKnown
<1>1. serving[c] = e /\ phase[c] = "running" /\ serving' = serving
  BY <1>0 DEF Settle
<1>2. \A f \in Client : f # e => queue'[f] = queue[f]
  BY <1>1 DEF Settle
<1>3. queue[e] \in Seq(Command)
  BY <1>1
<1>4. CASE queue[e] = <<>>
  <2>1. NextWaiter(e) = {}
    BY <1>4 DEF NextWaiter
  <2>2. phase' = [phase EXCEPT ![c] = "settled"] /\ queue' = queue
    BY <2>1, <1>1 DEF Settle
  <2>3. Running(e)' = Running(e) \ {c} /\ c \in Running(e)
    BY <1>1, <2>2 DEF Running
  <2>4. \A f \in Client \ {e} : Running(f)' = Running(f)
    BY <1>1, <2>2 DEF Running
  <2>5. Cardinality(Running(e)') = Cardinality(Running(e)) - 1
    BY <2>3, RunningFinite, FS_RemoveElement
  <2>6. ChannelBudget'
    <3>1. Cardinality(Running(e)') <= MaxChannels
      BY <1>1, <2>5, RunningFinite, SshAssumption DEF ChannelInv, ChannelBudget, SshAssumption
    <3> QED BY <2>4, <3>1 DEF ChannelInv, ChannelBudget
  <2>7. WaitersHaveARunner'
    BY <1>4, <2>2, <2>4 DEF ChannelInv, WaitersHaveARunner
  <2>8. WaitersQueued' /\ WaitersDistinct' /\ ServingKnown'
    BY <1>1, <2>2 DEF ChannelInv, WaitersQueued, WaitersDistinct, ServingKnown
  <2> QED BY <2>6, <2>7, <2>8 DEF ChannelInv
<1>5. CASE queue[e] # <<>>
  <2> DEFINE w == Head(queue[e])
  <2>1. NextWaiter(e) = {w} /\ w = queue[e][1] /\ 1 \in 1..Len(queue[e]) /\ w \in Command
    BY <1>3, <1>5 DEF NextWaiter
  <2>2. phase[w] = "queued" /\ serving[w] = e /\ w # c
    BY <1>1, <2>1 DEF ChannelInv, WaitersQueued
  <2>3. phase' = [phase EXCEPT ![c] = "settled", ![w] = "running"]
    <3>1. phase' = [d \in Command |-> IF d = c THEN "settled"
                                      ELSE IF d \in NextWaiter(e) THEN "running" ELSE phase[d]]
      BY <1>1 DEF Settle
    <3> HIDE DEF w
    <3> QED BY <2>1, <2>2, <3>1
  <2>4. queue'[e] = Tail(queue[e])
    BY <1>1, <2>1 DEF Settle
  <2>5. Running(e)' = (Running(e) \ {c}) \cup {w} /\ c \in Running(e) /\ w \notin Running(e)
    BY <1>1, <2>1, <2>2, <2>3 DEF Running
  <2>6. \A f \in Client \ {e} : Running(f)' = Running(f)
    BY <1>1, <2>1, <2>2, <2>3 DEF Running
  <2>7. Cardinality(Running(e)') = Cardinality(Running(e))
    <3>1. /\ IsFiniteSet(Running(e) \ {c})
          /\ Cardinality(Running(e) \ {c}) = Cardinality(Running(e)) - 1
      BY <2>5, RunningFinite, FS_RemoveElement
    <3>2. Cardinality(Running(e)') = Cardinality(Running(e) \ {c}) + 1
      BY <2>5, <3>1, FS_AddElement
    <3> QED BY <3>1, <3>2, RunningFinite
  <2>8. ChannelBudget' /\ WaitersHaveARunner'
    BY <1>2, <2>5, <2>6, <2>7 DEF ChannelInv, ChannelBudget, WaitersHaveARunner
  <2>9. \A i \in 1..Len(queue'[e]) : i + 1 \in 1..Len(queue[e]) /\ queue'[e][i] = queue[e][i + 1]
    BY <1>3, <1>5, <2>4
  <2>10. WaitersDistinct'
    <3>1. \A i, j \in 1..Len(queue'[e]) : queue'[e][i] = queue'[e][j] => i = j
      <4> SUFFICES ASSUME NEW i \in 1..Len(queue'[e]), NEW j \in 1..Len(queue'[e]),
                          queue'[e][i] = queue'[e][j]
                   PROVE  i = j
        OBVIOUS
      <4>1. i + 1 \in 1..Len(queue[e]) /\ j + 1 \in 1..Len(queue[e])
        BY <2>9
      <4>2. queue[e][i + 1] = queue[e][j + 1]
        BY <2>9
      <4>3. i + 1 = j + 1
        BY <4>1, <4>2 DEF ChannelInv, WaitersDistinct
      <4> QED BY <4>3
    <3> QED BY <1>2, <3>1 DEF ChannelInv, WaitersDistinct
  <2>11. WaitersQueued'
    <3>1. \A i \in 1..Len(queue[e]) : i # 1 => queue[e][i] # w
      BY <1>1, <2>1 DEF ChannelInv, WaitersDistinct
    <3>2. \A i \in 1..Len(queue'[e]) :
             phase'[queue'[e][i]] = "queued" /\ serving'[queue'[e][i]] = e
      <4> SUFFICES ASSUME NEW i \in 1..Len(queue'[e])
                   PROVE  phase'[queue'[e][i]] = "queued" /\ serving'[queue'[e][i]] = e
        OBVIOUS
      <4>1. /\ i + 1 \in 1..Len(queue[e]) /\ i + 1 # 1
            /\ queue'[e][i] = queue[e][i + 1]
        BY <2>9
      <4>2. /\ phase[queue[e][i + 1]] = "queued" /\ serving[queue[e][i + 1]] = e
            /\ queue[e][i + 1] \in Command /\ queue[e][i + 1] # w
        BY <1>1, <1>3, <3>1, <4>1 DEF ChannelInv, WaitersQueued
      <4> QED BY <1>1, <2>3, <4>1, <4>2
    <3>3. \A f \in Client : f # e => \A i \in 1..Len(queue[f]) :
             phase'[queue[f][i]] = "queued" /\ serving'[queue[f][i]] = f
      <4> SUFFICES ASSUME NEW f \in Client, f # e, NEW i \in 1..Len(queue[f])
                   PROVE  phase'[queue[f][i]] = "queued" /\ serving'[queue[f][i]] = f
        OBVIOUS
      <4>1. /\ phase[queue[f][i]] = "queued" /\ serving[queue[f][i]] = f
            /\ queue[f][i] \in Command
        BY DEF ChannelInv, WaitersQueued
      <4> QED BY <1>1, <2>2, <2>3, <4>1
    <3> QED BY <1>2, <3>2, <3>3 DEF WaitersQueued
  <2>12. ServingKnown'
    BY <1>1, <2>2, <2>3 DEF ChannelInv, ServingKnown
  <2> QED BY <2>8, <2>10, <2>11, <2>12 DEF ChannelInv
<1> QED BY <1>4, <1>5

LEMMA InitChannelInv == Init => ChannelInv
<1> SUFFICES ASSUME Init PROVE ChannelInv
  OBVIOUS
<1>1. \A e \in Client : Running(e) = {} /\ queue[e] = <<>>
  BY DEF Init, Running
<1>2. ChannelBudget /\ WaitersHaveARunner
  BY <1>1, FS_EmptySet, SshAssumption DEF ChannelBudget, WaitersHaveARunner, SshAssumption
<1>3. ServingKnown
  BY DEF Init, ServingKnown
<1>4. WaitersQueued /\ WaitersDistinct
  BY <1>1 DEF WaitersQueued, WaitersDistinct
<1> QED BY <1>2, <1>3, <1>4 DEF ChannelInv

LEMMA NextChannelInv == TypeOK /\ ChannelInv /\ [SshNext]_sshVars => ChannelInv'
<1> SUFFICES ASSUME TypeOK, ChannelInv, [SshNext]_sshVars PROVE ChannelInv'
  OBVIOUS
<1>1. CASE \E c \in Command : Exec(c)
  BY <1>1, ExecKeepsChannelInv
<1>2. CASE \E c \in Command : Settle(c)
  BY <1>2, SettleKeepsChannelInv
<1>3. CASE Connect \/ Disconnect \/ (\E e \in Client : Event(e)) \/ UNCHANGED sshVars
  <2>1. /\ phase' = phase /\ serving' = serving
        /\ queue' = queue \/ \E e \in Client : queue' = [queue EXCEPT ![e] = <<>>]
    BY <1>3 DEF Connect, Disconnect, Event, Ready, HandshakeFails, AbortedHandshakeFails,
                ConnectionFails, ConnectionEnds, SocketCloses, RetryFires, ProbeStarts,
                ProbeAnswers, ProbeFails, OnError, OnClose, Drain, sshVars, channelVars
  <2> QED BY <2>1, DrainKeepsChannelInv DEF TypeOK
<1> QED BY <1>1, <1>2, <1>3 DEF SshNext

LEMMA ChannelInvHolds == SshSpec => []ChannelInv
<1>1. TypeOK /\ ChannelInv /\ [SshNext]_sshVars => TypeOK' /\ ChannelInv'
  BY NextTypeOK, NextChannelInv
<1> QED BY <1>1, InitTypeOK, InitChannelInv, PTL DEF SshSpec

(* However often the connection drops and whatever order commands end in,  *)
(* a connection never carries more than MAX_CHANNELS commands.             *)
THEOREM ChannelsWithinBudget == SshSpec => []ChannelBudget
<1>1. ChannelInv => ChannelBudget
  BY DEF ChannelInv
<1> QED BY <1>1, ChannelInvHolds, PTL

(* A waiter always has a command ahead of it that holds a channel and will *)
(* shift the queue when it settles.                                        *)
THEOREM WaitersNeverStranded == SshSpec => []WaitersHaveARunner
<1>1. ChannelInv => WaitersHaveARunner
  BY DEF ChannelInv
<1> QED BY <1>1, ChannelInvHolds, PTL
-----------------------------------------------------------------------------
(* Connections.  When no health probe fails on a connection that is up,    *)
(* every socket in use and every retry timer belongs to the entry the map  *)
(* holds, and never both at once: a timer is set when the socket is gone,  *)
(* and only a client that was torn down can lose its socket unnoticed.     *)

NewcomersUntouched ==
  \A e \in Client : e > opened =>
    link[e] = "unused" /\ status[e] = "connecting" /\ ~intentional[e] /\ timers[e] = <<>>

LiveIsCurrent == \A e \in Client : Live(e) => e = current

OneTimer ==
  \A e \in Client : timers[e] # <<>> =>
    e = current /\ Len(timers[e]) = 1 /\ link[e] \in {"lost", "closed"}

TornDownIsGone ==
  \A e \in Client :
    /\ intentional[e] => e # current
    /\ link[e] \in {"aborted", "destroyed"} => intentional[e]

StatusFollowsLink ==
  \A e \in Client :
    /\ link[e] = "handshake" => status[e] = "connecting"
    /\ link[e] = "open" => status[e] = "connected"
    /\ link[e] = "lost" => status[e] = "error"
    /\ status[e] = "connected" => link[e] = "open" \/ intentional[e]

NothingUnwanted == current <= opened /\ (~wanted => current = 0)

ConnectionInv ==
  /\ NewcomersUntouched /\ LiveIsCurrent /\ OneTimer
  /\ TornDownIsGone /\ StatusFollowsLink /\ NothingUnwanted

LEMMA InitConnectionInv == Init => ConnectionInv
<1> SUFFICES ASSUME Init PROVE ConnectionInv
  OBVIOUS
<1>1. \A e \in Client : /\ link[e] = "unused" /\ status[e] = "connecting"
                        /\ intentional[e] = FALSE /\ timers[e] = <<>>
  BY DEF Init
<1>2. opened = 0 /\ current = 0
  BY DEF Init
<1> QED BY <1>1, <1>2 DEF ConnectionInv, NewcomersUntouched, LiveIsCurrent, Live, OneTimer,
                         TornDownIsGone, StatusFollowsLink, NothingUnwanted

LEMMA ConnectKeepsConnectionInv ==
  ASSUME TypeOK, ConnectionInv, Connect
  PROVE  ConnectionInv'
<1> USE DEF TypeOK, ClientTypes
<1>1. /\ opened' = opened + 1 /\ current' = opened' /\ opened' \in Client
      /\ status' = status /\ wanted' = TRUE
  BY SshAssumption DEF Connect, DoConnect, Client
<1>2. current < opened' /\ current # opened'
  BY <1>1, SshAssumption DEF ConnectionInv, NothingUnwanted
<1>3. \A e \in Client \ {current, opened'} :
        link'[e] = link[e] /\ intentional'[e] = intentional[e] /\ timers'[e] = timers[e]
  BY <1>1 DEF Connect, Teardown, DoConnect, TornLinks
<1>4. current \in Client =>
        /\ link'[current] = IF link[current] = "handshake" THEN "aborted"
                            ELSE IF link[current] = "open" THEN "destroyed" ELSE link[current]
        /\ intentional'[current] /\ timers'[current] = <<>>
  <2> SUFFICES ASSUME current \in Client
               PROVE  /\ link'[current] = IF link[current] = "handshake" THEN "aborted"
                                          ELSE IF link[current] = "open" THEN "destroyed"
                                          ELSE link[current]
                      /\ intentional'[current] /\ timers'[current] = <<>>
    OBVIOUS
  <2>1. PICK torn : /\ torn = {current} \ {0} /\ Teardown(torn)
                    /\ DoConnect(0, TornLinks(torn))
    BY DEF Connect
  <2>2. current \in torn
    BY <2>1, SshAssumption DEF Client
  <2> QED BY <1>1, <1>2, <2>1, <2>2 DEF Teardown, DoConnect, TornLinks
<1>5. /\ link[opened'] = "unused" /\ status[opened'] = "connecting"
      /\ ~intentional[opened'] /\ timers[opened'] = <<>>
  BY <1>1, SshAssumption DEF ConnectionInv, NewcomersUntouched
<1>6. link'[opened'] = "handshake" /\ ~intentional'[opened'] /\ timers'[opened'] = <<>>
  BY <1>1, <1>2, <1>5 DEF Connect, Teardown, DoConnect, TornLinks
<1>7. \A e \in Client : e > opened' => e > opened /\ e # current /\ e # opened'
  BY <1>1, <1>2, SshAssumption DEF Client
<1>8. NewcomersUntouched'
  BY <1>1, <1>3, <1>7 DEF ConnectionInv, NewcomersUntouched
<1>9. LiveIsCurrent' /\ OneTimer'
  BY <1>1, <1>3, <1>4, <1>6 DEF ConnectionInv, LiveIsCurrent, Live, OneTimer
<1>10. TornDownIsGone'
  BY <1>1, <1>2, <1>3, <1>4, <1>6 DEF ConnectionInv, TornDownIsGone
<1>11. StatusFollowsLink'
  BY <1>1, <1>3, <1>4, <1>5, <1>6 DEF ConnectionInv, StatusFollowsLink
<1>12. NothingUnwanted'
  BY <1>1, SshAssumption DEF NothingUnwanted, Client
<1> QED BY <1>8, <1>9, <1>10, <1>11, <1>12 DEF ConnectionInv

LEMMA DisconnectKeepsConnectionInv ==
  ASSUME TypeOK, ConnectionInv, Disconnect
  PROVE  ConnectionInv'
<1> USE DEF TypeOK, ClientTypes
<1>1. current \in Client /\ current' = 0 /\ UNCHANGED <<opened, status>> /\ 0 \notin Client
  BY SshAssumption DEF Disconnect, Client
<1>2. \A e \in Client \ {current} :
        link'[e] = link[e] /\ intentional'[e] = intentional[e] /\ timers'[e] = timers[e]
  BY DEF Disconnect, Teardown, TornLinks
<1>3. /\ link'[current] = IF link[current] = "handshake" THEN "aborted"
                          ELSE IF link[current] = "open" THEN "destroyed" ELSE link[current]
      /\ intentional'[current] /\ timers'[current] = <<>>
  BY <1>1 DEF Disconnect, Teardown, TornLinks
<1>4. \A e \in Client : e > opened => e # current
  BY <1>1, SshAssumption DEF ConnectionInv, NothingUnwanted
<1>5. NewcomersUntouched'
  BY <1>1, <1>2, <1>4 DEF ConnectionInv, NewcomersUntouched
<1>6. LiveIsCurrent' /\ OneTimer'
  BY <1>1, <1>2, <1>3 DEF ConnectionInv, LiveIsCurrent, Live, OneTimer
<1>7. TornDownIsGone' /\ StatusFollowsLink'
  BY <1>1, <1>2, <1>3 DEF ConnectionInv, TornDownIsGone, StatusFollowsLink
<1>8. NothingUnwanted'
  BY <1>1, SshAssumption DEF NothingUnwanted
<1> QED BY <1>5, <1>6, <1>7, <1>8 DEF ConnectionInv

(* An event changes the socket, the status and the timers of one entry.    *)
(* What it may do to them without breaking the invariant:                  *)
LEMMA EventKeepsConnectionInv ==
  ASSUME TypeOK, ConnectionInv, NEW e \in Client, e <= opened,
         UNCHANGED <<opened, current, intentional, wanted>>,
         \A f \in Client \ {e} :
           link'[f] = link[f] /\ status'[f] = status[f] /\ timers'[f] = timers[f],
         link'[e] \in {"handshake", "open"} => e = current,
         timers'[e] # <<>> =>
           e = current /\ Len(timers'[e]) = 1 /\ link'[e] \in {"lost", "closed"},
         link'[e] \in {"aborted", "destroyed"} => intentional[e],
         link'[e] = "handshake" => status'[e] = "connecting",
         link'[e] = "open" => status'[e] = "connected",
         link'[e] = "lost" => status'[e] = "error",
         status'[e] = "connected" => link'[e] = "open" \/ intentional[e]
  PROVE  ConnectionInv'
<1>1. \A f \in Client : f > opened => f # e
  BY SshAssumption DEF Client, TypeOK, ClientTypes
<1>2. NewcomersUntouched'
  BY <1>1 DEF ConnectionInv, NewcomersUntouched
<1>3. LiveIsCurrent' /\ OneTimer'
  BY DEF ConnectionInv, LiveIsCurrent, Live, OneTimer
<1>4. TornDownIsGone' /\ StatusFollowsLink' /\ NothingUnwanted'
  BY DEF ConnectionInv, TornDownIsGone, StatusFollowsLink, NothingUnwanted
<1> QED BY <1>2, <1>3, <1>4 DEF ConnectionInv

LEMMA ScheduledAlone ==
  ASSUME TypeOK, NEW e \in Client, NEW n \in Nat, timers[e] = <<>>,
         timers' = Scheduled(e, n)
  PROVE  /\ \A f \in Client \ {e} : timers'[f] = timers[f]
         /\ timers'[e] # <<>> => Len(timers'[e]) = 1 /\ ~intentional[e]
<1>1. Append(timers[e], n + 1) = <<n + 1>>
  OBVIOUS
<1>2. timers \in [Client -> Seq(1..MaxRetries)]
  BY DEF TypeOK, ClientTypes
<1>3. CASE intentional[e] \/ n >= MaxRetries
  BY <1>3 DEF Scheduled
<1>4. CASE ~(intentional[e] \/ n >= MaxRetries)
  <2>1. timers' = [timers EXCEPT ![e] = <<n + 1>>]
    BY <1>1, <1>4 DEF Scheduled
  <2> QED BY <1>2, <1>4, <2>1
<1> QED BY <1>3, <1>4

LEMMA TailOfOne ==
  ASSUME NEW S, NEW s \in Seq(S), Len(s) = 1
  PROVE  Tail(s) = <<>>
<1>1. Tail(s) \in Seq(S) /\ Len(Tail(s)) = 0
  OBVIOUS
<1> QED BY <1>1, EmptySeq

LEMMA RetryKeepsConnectionInv ==
  ASSUME TypeOK, ConnectionInv, NEW e \in Client, RetryFires(e)
  PROVE  ConnectionInv'
<1> USE DEF TypeOK, ClientTypes
<1>1. e = current /\ Len(timers[e]) = 1 /\ link[e] \in {"lost", "closed"} /\ e <= opened
  BY DEF RetryFires, ConnectionInv, OneTimer, NothingUnwanted
<1>2. /\ opened' = opened + 1 /\ current' = opened' /\ opened' \in Client
      /\ UNCHANGED <<status, intentional, wanted>>
  BY SshAssumption DEF RetryFires, DoConnect, Client
<1>3. e # opened' /\ \A f \in Client : f > opened' => f > opened /\ f # e /\ f # opened'
  BY <1>1, <1>2, SshAssumption DEF Client
<1>4. \A f \in Client \ {e, opened'} : link'[f] = link[f] /\ timers'[f] = timers[f]
  BY <1>2 DEF RetryFires, DoConnect
<1>5. link'[e] = link[e] /\ timers'[e] = <<>>
  <2>1. Tail(timers[e]) = <<>>
    BY <1>1, TailOfOne
  <2> QED BY <1>2, <1>3, <2>1 DEF RetryFires, DoConnect
<1>6. /\ link[opened'] = "unused" /\ status[opened'] = "connecting"
      /\ ~intentional[opened'] /\ timers[opened'] = <<>>
  BY <1>2, SshAssumption DEF ConnectionInv, NewcomersUntouched
<1>7. link'[opened'] = "handshake" /\ timers'[opened'] = <<>>
  BY <1>2, <1>3, <1>6 DEF RetryFires, DoConnect
<1>8. NewcomersUntouched'
  BY <1>2, <1>3, <1>4 DEF ConnectionInv, NewcomersUntouched
<1>9. LiveIsCurrent' /\ OneTimer'
  BY <1>1, <1>2, <1>4, <1>5, <1>7 DEF ConnectionInv, LiveIsCurrent, Live, OneTimer
<1>10. TornDownIsGone' /\ StatusFollowsLink'
  BY <1>1, <1>2, <1>4, <1>5, <1>6, <1>7 DEF ConnectionInv, TornDownIsGone, StatusFollowsLink
<1>11. NothingUnwanted'
  <2>1. wanted
    BY <1>1, SshAssumption DEF ConnectionInv, NothingUnwanted, Client
  <2> QED BY <1>2, <2>1, SshAssumption DEF NothingUnwanted, Client
<1> QED BY <1>8, <1>9, <1>10, <1>11 DEF ConnectionInv

LEMMA NextConnectionInv ==
  ASSUME MaxProbeFailures = 0, TypeOK, ConnectionInv, [SshNext]_sshVars
  PROVE  ConnectionInv'
<1> USE DEF TypeOK, ClientTypes
<1>1. CASE Connect
  BY <1>1, ConnectKeepsConnectionInv
<1>2. CASE Disconnect
  BY <1>2, DisconnectKeepsConnectionInv
<1>3. ASSUME NEW e \in Client, Event(e) PROVE ConnectionInv'
  <2>0. /\ 0 \in Nat /\ attempt[e] \in Nat
        /\ e > opened => /\ link[e] = "unused" /\ status[e] = "connecting"
                         /\ timers[e] = <<>>
        /\ opened \in Nat /\ e \in Nat
    BY SshAssumption DEF ConnectionInv, NewcomersUntouched, Client
  <2>1. CASE Ready(e)
    <3>1. e = current /\ timers[e] = <<>> /\ e <= opened
      BY <2>0, <2>1 DEF Ready, ConnectionInv, LiveIsCurrent, Live, OneTimer
    <3>2. link'[e] = "open" /\ status'[e] = "connected" /\ timers' = timers
      BY <2>1 DEF Ready
    <3>3. \A f \in Client \ {e} : link'[f] = link[f] /\ status'[f] = status[f]
      BY <2>1 DEF Ready
    <3> QED BY <2>1, <3>1, <3>2, <3>3, EventKeepsConnectionInv DEF Ready
  <2>2. CASE HandshakeFails(e) \/ AbortedHandshakeFails(e) \/ ConnectionFails(e)
    <3>1. OnError(e) /\ link[e] \in {"handshake", "open", "aborted"}
      BY <2>2 DEF HandshakeFails, AbortedHandshakeFails, ConnectionFails
    <3>2. timers[e] = <<>> /\ e <= opened /\ (e = current \/ intentional[e])
      BY <2>0, <3>1 DEF ConnectionInv, LiveIsCurrent, Live, OneTimer, TornDownIsGone
    <3>3. link'[e] = "lost" /\ status'[e] = "error" /\ timers' = Scheduled(e, attempt[e])
      BY <3>1 DEF OnError
    <3>4. \A f \in Client \ {e} : link'[f] = link[f] /\ status'[f] = status[f]
      BY <3>1 DEF OnError
    <3>5. /\ \A f \in Client \ {e} : timers'[f] = timers[f]
          /\ timers'[e] # <<>> => Len(timers'[e]) = 1 /\ ~intentional[e]
      BY <2>0, <3>2, <3>3, ScheduledAlone
    <3>6. UNCHANGED <<opened, current, intentional, wanted>>
      BY <3>1 DEF OnError
    <3> QED BY <3>2, <3>3, <3>4, <3>5, <3>6, EventKeepsConnectionInv
  <2>3. CASE ConnectionEnds(e) \/ SocketCloses(e)
    <3>1. OnClose(e) /\ link[e] \in {"open", "aborted", "destroyed", "lost"}
      BY <2>3 DEF ConnectionEnds, SocketCloses
    <3>2. e <= opened /\ link'[e] = "closed" /\ UNCHANGED <<opened, current, intentional, wanted>>
      BY <2>0, <3>1 DEF OnClose
    <3>3. \A f \in Client \ {e} : link'[f] = link[f] /\ status'[f] = status[f]
      BY <3>1 DEF OnClose
    <3>4. CASE intentional[e] \/ status[e] \notin {"connected", "reconnecting"}
      <4>1. UNCHANGED <<status, timers>>
        BY <3>1, <3>4 DEF OnClose
      <4>2. timers[e] # <<>> => e = current /\ Len(timers[e]) = 1
        BY DEF ConnectionInv, OneTimer
      <4>3. status[e] = "connected" => intentional[e]
        BY <3>4
      <4> QED BY <3>2, <3>3, <4>1, <4>2, <4>3, EventKeepsConnectionInv
    <3>5. CASE ~(intentional[e] \/ status[e] \notin {"connected", "reconnecting"})
      <4>1. link[e] = "open"
        BY <3>1, <3>5 DEF ConnectionInv, TornDownIsGone, StatusFollowsLink
      <4>2. e = current /\ timers[e] = <<>>
        BY <4>1 DEF ConnectionInv, LiveIsCurrent, Live, OneTimer
      <4>3. status'[e] = "reconnecting" /\ timers' = Scheduled(e, 0)
        BY <3>1, <3>5 DEF OnClose
      <4>4. /\ \A f \in Client \ {e} : timers'[f] = timers[f]
            /\ timers'[e] # <<>> => Len(timers'[e]) = 1 /\ ~intentional[e]
        BY <2>0, <4>2, <4>3, ScheduledAlone
      <4> QED BY <3>2, <3>3, <4>2, <4>3, <4>4, EventKeepsConnectionInv
    <3> QED BY <3>4, <3>5
  <2>4. CASE RetryFires(e)
    BY <2>4, RetryKeepsConnectionInv
  <2>5. CASE ProbeStarts(e) \/ ProbeAnswers(e)
    <3>1. UNCHANGED <<clientVars, wanted>>
      BY <2>5 DEF ProbeStarts, ProbeAnswers
    <3> QED BY <3>1 DEF clientVars, ConnectionInv, NewcomersUntouched, LiveIsCurrent, Live,
               OneTimer, TornDownIsGone, StatusFollowsLink, NothingUnwanted
  <2>6. CASE ProbeFails(e)
    <3>1. link[e] # "open"
      BY <2>6, SshAssumption DEF ProbeFails, BoundTypes
    <3>2. UNCHANGED <<opened, current, intentional, wanted>>
      BY <2>6 DEF ProbeFails
    <3>3. CASE status[e] # "connected"
      <4>1. UNCHANGED <<link, status, timers>>
        BY <2>6, <3>3 DEF ProbeFails
      <4> QED BY <3>2, <4>1 DEF ConnectionInv, NewcomersUntouched, LiveIsCurrent, Live,
                 OneTimer, TornDownIsGone, StatusFollowsLink, NothingUnwanted
    <3>4. CASE status[e] = "connected"
      <4>1. intentional[e] /\ e # current /\ e <= opened /\ link[e] \notin {"handshake", "lost"}
        BY <2>0, <3>1, <3>4 DEF ConnectionInv, TornDownIsGone, StatusFollowsLink
      <4>2. timers' = timers /\ timers[e] = <<>>
        BY <2>6, <3>4, <4>1 DEF ProbeFails, Scheduled, ConnectionInv, OneTimer
      <4>3. link' = TornLinks({e}) /\ status' = [status EXCEPT ![e] = "reconnecting"]
        BY <2>6, <3>4 DEF ProbeFails
      <4>4. link'[e] = link[e] /\ status'[e] = "reconnecting"
        BY <3>1, <4>1, <4>3 DEF TornLinks
      <4>5. \A f \in Client \ {e} : link'[f] = link[f] /\ status'[f] = status[f]
        BY <4>3 DEF TornLinks
      <4> QED BY <3>1, <3>2, <4>1, <4>2, <4>4, <4>5, EventKeepsConnectionInv
    <3> QED BY <3>3, <3>4
  <2> QED BY <1>3, <2>1, <2>2, <2>3, <2>4, <2>5, <2>6 DEF Event
<1>4. CASE (\E c \in Command : Exec(c) \/ Settle(c)) \/ UNCHANGED sshVars
  <2>1. UNCHANGED <<clientVars, wanted>>
    BY <1>4 DEF Exec, Settle, sshVars
  <2> QED BY <2>1 DEF clientVars, ConnectionInv, NewcomersUntouched, LiveIsCurrent, Live,
             OneTimer, TornDownIsGone, StatusFollowsLink, NothingUnwanted
<1> QED BY <1>1, <1>2, <1>3, <1>4 DEF SshNext

LEMMA ConnectionInvHolds ==
  ASSUME MaxProbeFailures = 0
  PROVE  SshSpec => []ConnectionInv
<1>1. TypeOK /\ ConnectionInv /\ [SshNext]_sshVars => TypeOK' /\ ConnectionInv'
  BY NextTypeOK, NextConnectionInv
<1> QED BY <1>1, InitTypeOK, InitConnectionInv, PTL DEF SshSpec

(* Connects, retries and failures may interleave in any order: a server    *)
(* has one client connected or connecting at most, as long as no health    *)
(* probe fails on a connection that is up.  A run shows that a failed      *)
(* probe does open a second one.                                           *)
THEOREM OneConnection ==
  ASSUME MaxProbeFailures = 0
  PROVE  SshSpec => []AtMostOneConnection
<1>1. LiveIsCurrent => AtMostOneConnection
  <2> SUFFICES ASSUME LiveIsCurrent PROVE AtMostOneConnection
    OBVIOUS
  <2>1. {e \in Client : Live(e)} \subseteq {current}
    BY DEF LiveIsCurrent
  <2>2. IsFiniteSet({current}) /\ Cardinality({current}) = 1
    BY FS_Singleton
  <2>3. /\ IsFiniteSet({e \in Client : Live(e)})
        /\ Cardinality({e \in Client : Live(e)}) <= Cardinality({current})
    BY <2>1, <2>2, FS_Subset
  <2> QED BY <2>2, <2>3 DEF AtMostOneConnection
<1>2. ConnectionInv => LiveIsCurrent
  BY DEF ConnectionInv
<1> QED BY <1>1, <1>2, ConnectionInvHolds, PTL

(* Under the same condition nothing reconnects after a disconnect: no      *)
(* socket is in use and no retry timer is set until connect() is called.   *)
THEOREM DisconnectStaysFinal ==
  ASSUME MaxProbeFailures = 0
  PROVE  SshSpec => []DisconnectIsFinal
<1>1. ConnectionInv => DisconnectIsFinal
  BY SshAssumption DEF ConnectionInv, NothingUnwanted, LiveIsCurrent, OneTimer, DisconnectIsFinal,
                       Client
<1> QED BY <1>1, ConnectionInvHolds, PTL
-----------------------------------------------------------------------------
(* What a failed probe costs.  Without the condition above one may still   *)
(* count: whatever lets the manager have a connection - a socket in use, a *)
(* destroyed one whose 'close' event will set a retry timer, a timer that  *)
(* is set - is handed on from event to event.  Only connect() and a probe  *)
(* that fails on a connection that is up make a new one, and connect()     *)
(* takes away those of the entry it replaces.                              *)

Owes(e) == Live(e) \/ (link[e] = "destroyed" /\ ~intentional[e])

Stands(e, n) == IF n = 0 THEN Owes(e) ELSE n <= Len(timers[e])

(* Sockets are numbered 0, the timers of an entry from 1.                  *)
Chances == {t \in Client \X Nat : Stands(t[1], t[2])}

(* Those that a connect() or disconnect() will not find.                   *)
Strays == {t \in Chances : t[1] # current}

EntriesInv ==
  /\ NewcomersUntouched /\ StatusFollowsLink /\ current <= opened
  /\ \A e \in Client : link[e] = "aborted" => intentional[e]

ChancesCounted ==
  /\ IsFiniteSet(Chances)
  /\ Cardinality(Chances) <= probeFailures + (IF wanted THEN 1 ELSE 0)
  /\ Cardinality(Strays) <= probeFailures

LEMMA OneInOneOut ==
  ASSUME NEW T, IsFiniteSet(T), NEW a \in T, NEW b, NEW U \in SUBSET ((T \ {a}) \cup {b})
  PROVE  IsFiniteSet(U) /\ Cardinality(U) <= Cardinality(T)
<1> DEFINE rest == T \ {a}
<1>1. IsFiniteSet(rest) /\ Cardinality(rest) = Cardinality(T) - 1
  BY FS_RemoveElement
<1>2. /\ IsFiniteSet(rest \cup {b})
      /\ Cardinality(rest \cup {b}) \in {Cardinality(rest), Cardinality(rest) + 1}
  BY <1>1, FS_AddElement
<1>3. IsFiniteSet(U) /\ Cardinality(U) <= Cardinality(rest \cup {b})
  BY <1>2, FS_Subset
<1>4. Cardinality(T) \in Nat /\ Cardinality(rest) \in Nat /\ Cardinality(U) \in Nat
      /\ Cardinality(rest \cup {b}) \in Nat
  BY <1>1, <1>2, <1>3, FS_CardinalityType
<1> HIDE DEF rest
<1> QED BY <1>1, <1>2, <1>3, <1>4

LEMMA OneMore ==
  ASSUME NEW T, IsFiniteSet(T), NEW b, NEW U \in SUBSET (T \cup {b})
  PROVE  IsFiniteSet(U) /\ Cardinality(U) <= Cardinality(T) + 1
<1>1. /\ IsFiniteSet(T \cup {b})
      /\ Cardinality(T \cup {b}) \in {Cardinality(T), Cardinality(T) + 1}
  BY FS_AddElement
<1>2. IsFiniteSet(U) /\ Cardinality(U) <= Cardinality(T \cup {b})
  BY <1>1, FS_Subset
<1>3. Cardinality(T) \in Nat /\ Cardinality(U) \in Nat /\ Cardinality(T \cup {b}) \in Nat
  BY <1>1, <1>2, FS_CardinalityType
<1> QED BY <1>1, <1>2, <1>3

LEMMA StraysAreFinite ==
  ASSUME ChancesCounted
  PROVE  /\ IsFiniteSet(Strays) /\ Strays \in SUBSET Chances
         /\ Cardinality(Strays) \in Nat /\ Cardinality(Chances) \in Nat
<1>1. Strays \in SUBSET Chances
  BY DEF Strays
<1> QED BY <1>1, FS_Subset, FS_CardinalityType DEF ChancesCounted

(* Steps that only lose chances.                                           *)
LEMMA FewerChances ==
  ASSUME TypeOK, ChancesCounted, Chances' \subseteq Chances, UNCHANGED <<current, wanted, probeFailures>>
  PROVE  ChancesCounted'
<1>1. Strays' \subseteq Strays
  BY DEF Strays
<1>2. /\ IsFiniteSet(Chances') /\ Cardinality(Chances') <= Cardinality(Chances)
      /\ Cardinality(Strays') <= Cardinality(Strays)
      /\ Cardinality(Chances') \in Nat /\ Cardinality(Strays') \in Nat
      /\ Cardinality(Chances) \in Nat /\ Cardinality(Strays) \in Nat
  <2>1. IsFiniteSet(Chances) /\ IsFiniteSet(Strays)
    BY StraysAreFinite DEF ChancesCounted
  <2>2. IsFiniteSet(Chances') /\ IsFiniteSet(Strays')
        /\ Cardinality(Chances') <= Cardinality(Chances) /\ Cardinality(Strays') <= Cardinality(Strays)
    BY <1>1, <2>1, FS_Subset
  <2> QED BY <2>1, <2>2, FS_CardinalityType
<1>3. probeFailures \in Nat
  BY SshAssumption DEF TypeOK, BoundTypes
<1> QED BY <1>2, <1>3 DEF ChancesCounted

(* Steps that hand one on within its entry.                                *)
LEMMA OneChanceHandedOn ==
  ASSUME TypeOK, ChancesCounted, NEW a \in Chances, NEW b, b[1] = a[1],
         Chances' \subseteq (Chances \ {a}) \cup {b}, UNCHANGED <<current, wanted, probeFailures>>
  PROVE  ChancesCounted'
<1>1. IsFiniteSet(Chances) /\ IsFiniteSet(Strays)
  BY StraysAreFinite DEF ChancesCounted
<1>2. IsFiniteSet(Chances') /\ Cardinality(Chances') <= Cardinality(Chances)
  BY <1>1, OneInOneOut
<1>3. IsFiniteSet(Strays') /\ Cardinality(Strays') <= Cardinality(Strays)
  <2>1. CASE a[1] = current
    <3>1. Strays' \subseteq Strays
      BY <2>1 DEF Strays
    <3> QED BY <1>1, <3>1, FS_Subset
  <2>2. CASE a[1] # current
    <3>1. a \in Strays /\ Strays' \in SUBSET ((Strays \ {a}) \cup {b})
      BY <2>2 DEF Strays
    <3> QED BY <1>1, <3>1, OneInOneOut
  <2> QED BY <2>1, <2>2
<1>4. /\ Cardinality(Chances) \in Nat /\ Cardinality(Strays) \in Nat
      /\ Cardinality(Chances') \in Nat /\ Cardinality(Strays') \in Nat /\ probeFailures \in Nat
  BY <1>1, <1>2, <1>3, SshAssumption, FS_CardinalityType DEF TypeOK, BoundTypes
<1> QED BY <1>2, <1>3, <1>4 DEF ChancesCounted

(* Chances of the entries that a step does not touch.                      *)
LEMMA OthersKeepTheirs ==
  ASSUME NEW touched, NEW t \in Chances', t[1] \notin touched,
         \A f \in Client \ touched : /\ link'[f] = link[f] /\ intentional'[f] = intentional[f]
                                     /\ timers'[f] = timers[f]
  PROVE  t \in Chances
<1>1. t \in Client \X Nat /\ Stands(t[1], t[2])'
  BY DEF Chances
<1>2. t[1] \in Client \ touched
  BY <1>1
<1>3. Stands(t[1], t[2])
  BY <1>1, <1>2 DEF Stands, Owes, Live
<1> QED BY <1>1, <1>3 DEF Chances

LEMMA ChancesOf ==
  ASSUME TypeOK, NEW e \in Client, NEW t \in Client \X Nat, t[1] = e
  PROVE  /\ t = <<e, t[2]>> /\ t[2] \in Nat /\ Len(timers[e]) \in Nat
         /\ t \in Chances <=> Stands(e, t[2])
<1>1. t[2] \in Nat /\ t = <<t[1], t[2]>>
  OBVIOUS
<1>2. timers[e] \in Seq(1..MaxRetries)
  BY DEF TypeOK, ClientTypes
<1> QED BY <1>1, <1>2 DEF Chances

LEMMA ScheduledLonger ==
  ASSUME TypeOK, NEW e \in Client, NEW n \in Nat, timers' = Scheduled(e, n)
  PROVE  /\ \A f \in Client \ {e} : timers'[f] = timers[f]
         /\ Len(timers'[e]) \in Nat /\ Len(timers'[e]) <= Len(timers[e]) + 1
         /\ intentional[e] => timers' = timers
<1>1. timers \in [Client -> Seq(1..MaxRetries)] /\ timers[e] \in Seq(1..MaxRetries)
  BY DEF TypeOK, ClientTypes
<1>2. CASE intentional[e] \/ n >= MaxRetries
  BY <1>1, <1>2 DEF Scheduled
<1>3. CASE ~(intentional[e] \/ n >= MaxRetries)
  <2>1. timers' = [timers EXCEPT ![e] = Append(timers[e], n + 1)]
    BY <1>3 DEF Scheduled
  <2>2. timers'[e] = Append(timers[e], n + 1)
    BY <1>1, <2>1
  <2>3. n + 1 \in 1..MaxRetries
    BY <1>3, SshAssumption
  <2>4. Len(Append(timers[e], n + 1)) = Len(timers[e]) + 1
    BY <1>1, <2>3
  <2> QED BY <1>1, <1>3, <2>1, <2>2, <2>4
<1> QED BY <1>2, <1>3

(* An event that touches one entry and sets no timer.                      *)
LEMMA QuietEvent ==
  ASSUME TypeOK, ChancesCounted, NEW e \in Client,
         UNCHANGED <<current, wanted, probeFailures, intentional, timers>>,
         \A f \in Client \ {e} : link'[f] = link[f], Owes(e)' => Owes(e)
  PROVE  ChancesCounted'
<1>1. ASSUME NEW t \in Chances' PROVE t \in Chances
  <2>1. CASE t[1] # e
    <3>1. t[1] \notin {e} /\ UNCHANGED <<intentional, timers>>
      BY <2>1
    <3> QED BY <3>1, OthersKeepTheirs
  <2>2. CASE t[1] = e
    <3>1. t \in Client \X Nat /\ Stands(e, t[2])'
      BY <2>2 DEF Chances
    <3>2. Stands(e, t[2])
      BY <3>1 DEF Stands
    <3> QED BY <2>2, <3>1, <3>2, ChancesOf
  <2> QED BY <2>1, <2>2
<1> QED BY <1>1, FewerChances

(* An event that ends a socket and may set a timer.                        *)
LEMMA SocketBecomesTimer ==
  ASSUME TypeOK, ChancesCounted, NEW e \in Client, NEW n \in Nat, timers' = Scheduled(e, n),
         UNCHANGED <<current, wanted, probeFailures, intentional>>,
         \A f \in Client \ {e} : link'[f] = link[f], Owes(e), ~Owes(e)'
  PROVE  ChancesCounted'
<1> DEFINE a == <<e, 0>>
           b == <<e, Len(timers[e]) + 1>>
<1>1. a \in Client \X Nat /\ a[1] = e /\ a[2] = 0 /\ b[1] = e
  OBVIOUS
<1>2. a \in Chances
  BY <1>1 DEF Chances, Stands
<1>3. ASSUME NEW t \in Chances' PROVE t \in (Chances \ {a}) \cup {b}
  <2>1. CASE t[1] # e
    <3>1. t[1] \notin {e} /\ \A f \in Client \ {e} : timers'[f] = timers[f]
      BY <2>1, ScheduledLonger
    <3>2. t \in Chances
      BY <3>1, OthersKeepTheirs
    <3> QED BY <1>1, <2>1, <3>2
  <2>2. CASE t[1] = e
    <3>1. t \in Client \X Nat /\ Stands(e, t[2])'
      BY <2>2 DEF Chances
    <3>2. t = <<e, t[2]>> /\ t[2] \in Nat /\ Len(timers[e]) \in Nat
          /\ (t \in Chances <=> Stands(e, t[2]))
      BY <2>2, <3>1, ChancesOf
    <3>3. t[2] # 0 /\ t[2] <= Len(timers'[e])
      BY <3>1 DEF Stands
    <3>4. t[2] <= Len(timers[e]) \/ t[2] = Len(timers[e]) + 1
      BY <3>2, <3>3, ScheduledLonger
    <3>5. CASE t[2] <= Len(timers[e])
      BY <1>1, <3>2, <3>3, <3>5 DEF Stands
    <3>6. CASE t[2] = Len(timers[e]) + 1
      BY <3>2, <3>6
    <3> QED BY <3>4, <3>5, <3>6
  <2> QED BY <2>1, <2>2
<1>4. Chances' \subseteq (Chances \ {a}) \cup {b}
  BY <1>3
<1> HIDE DEF a, b
<1> QED BY <1>1, <1>2, <1>4, OneChanceHandedOn

LEMMA InitCounts == Init => EntriesInv /\ ChancesCounted
<1> SUFFICES ASSUME Init PROVE EntriesInv /\ ChancesCounted
  OBVIOUS
<1>1. \A e \in Client : /\ link[e] = "unused" /\ status[e] = "connecting"
                        /\ intentional[e] = FALSE /\ timers[e] = <<>>
  BY DEF Init
<1>2. opened = 0 /\ current = 0 /\ wanted = FALSE /\ probeFailures = 0
  BY DEF Init
<1>3. EntriesInv
  BY <1>1, <1>2 DEF EntriesInv, NewcomersUntouched, StatusFollowsLink
<1>4. ASSUME NEW t \in Chances PROVE FALSE
  <2>1. t[1] \in Client /\ t[2] \in Nat /\ Stands(t[1], t[2])
    BY DEF Chances
  <2>2. timers[t[1]] = <<>> /\ Len(<<>>) = 0
    BY <1>1, <2>1
  <2>3. ~Owes(t[1])
    BY <1>1, <2>1 DEF Owes, Live
  <2> QED BY <2>1, <2>2, <2>3 DEF Stands
<1>5. Chances = {} /\ Strays = {}
  BY <1>4 DEF Strays
<1> QED BY <1>2, <1>3, <1>5, FS_EmptySet DEF ChancesCounted

(* What a teardown leaves of an entry.                                     *)
LEMMA TornStandsForNothing ==
  ASSUME TypeOK, NEW e \in Client, NEW n \in Nat, intentional'[e], timers'[e] = <<>>,
         link'[e] = IF link[e] = "handshake" THEN "aborted"
                    ELSE IF link[e] = "open" THEN "destroyed" ELSE link[e]
  PROVE  ~Stands(e, n)'
<1>1. Len(timers'[e]) = 0
  OBVIOUS
<1>2. ~Owes(e)'
  BY DEF Owes, Live
<1> QED BY <1>1, <1>2 DEF Stands

LEMMA ConnectCounts ==
  ASSUME TypeOK, EntriesInv, ChancesCounted, Connect
  PROVE  EntriesInv' /\ ChancesCounted'
<1> USE DEF TypeOK, ClientTypes
<1>1. /\ opened' = opened + 1 /\ current' = opened' /\ opened' \in Client
      /\ status' = status /\ wanted' = TRUE /\ probeFailures' = probeFailures
  BY SshAssumption DEF Connect, DoConnect, Client
<1>2. current < opened' /\ current # opened'
  BY <1>1, SshAssumption DEF EntriesInv
<1>3. \A e \in Client \ {current, opened'} :
        link'[e] = link[e] /\ intentional'[e] = intentional[e] /\ timers'[e] = timers[e]
  BY <1>1 DEF Connect, Teardown, DoConnect, TornLinks
<1>4. ASSUME current \in Client
      PROVE  /\ link'[current] = IF link[current] = "handshake" THEN "aborted"
                                 ELSE IF link[current] = "open" THEN "destroyed"
                                 ELSE link[current]
             /\ intentional'[current] /\ timers'[current] = <<>>
  <2>1. PICK torn : /\ torn = {current} \ {0} /\ Teardown(torn)
                    /\ DoConnect(0, TornLinks(torn))
    BY DEF Connect
  <2>2. current \in torn
    BY <1>4, <2>1, SshAssumption DEF Client
  <2> QED BY <1>1, <1>2, <1>4, <2>1, <2>2 DEF Teardown, DoConnect, TornLinks
<1>5. /\ link[opened'] = "unused" /\ status[opened'] = "connecting"
      /\ ~intentional[opened'] /\ timers[opened'] = <<>>
  BY <1>1, SshAssumption DEF EntriesInv, NewcomersUntouched
<1>6. link'[opened'] = "handshake" /\ ~intentional'[opened'] /\ timers'[opened'] = <<>>
  BY <1>1, <1>2, <1>5 DEF Connect, Teardown, DoConnect, TornLinks
<1>7. EntriesInv'
  <2>1. \A e \in Client : e > opened' => e > opened /\ e # current /\ e # opened'
    BY <1>1, <1>2, SshAssumption DEF Client
  <2>2. NewcomersUntouched'
    BY <1>1, <1>3, <2>1 DEF EntriesInv, NewcomersUntouched
  <2>3. StatusFollowsLink'
    BY <1>1, <1>3, <1>4, <1>5, <1>6 DEF EntriesInv, StatusFollowsLink
  <2>4. \A e \in Client : link'[e] = "aborted" => intentional'[e]
    BY <1>1, <1>3, <1>4, <1>6 DEF EntriesInv
  <2>5. current' <= opened'
    BY <1>1, SshAssumption DEF Client
  <2> QED BY <2>2, <2>3, <2>4, <2>5 DEF EntriesInv
<1>8. ASSUME NEW t \in Chances' PROVE t \in Strays \/ t = <<opened', 0>>
  <2>1. t \in Client \X Nat /\ Stands(t[1], t[2])' /\ t[1] \in Client /\ t[2] \in Nat
        /\ t = <<t[1], t[2]>>
    BY DEF Chances
  <2>2. CASE t[1] = opened'
    <3>1. Len(timers'[opened']) = 0
      BY <1>6
    <3>2. t[2] = 0
      BY <2>1, <2>2, <3>1 DEF Stands
    <3> QED BY <2>1, <2>2, <3>2
  <2>3. CASE t[1] = current
    BY <1>4, <2>1, <2>3, TornStandsForNothing
  <2>4. CASE t[1] \notin {current, opened'}
    <3>1. t \in Chances
      BY <1>3, <2>4, OthersKeepTheirs
    <3> QED BY <2>4, <3>1 DEF Strays
  <2> QED BY <2>2, <2>3, <2>4
<1>9. Strays' \subseteq Strays /\ Chances' \subseteq Strays \cup {<<opened', 0>>}
  <2>1. Chances' \subseteq Strays \cup {<<opened', 0>>}
    BY <1>8
  <2>2. ASSUME NEW t \in Strays' PROVE t \in Strays
    <3>1. t \in Chances' /\ t[1] # opened'
      BY <1>1 DEF Strays
    <3> QED BY <1>8, <3>1
  <2> QED BY <2>1, <2>2
<1>10. /\ IsFiniteSet(Strays) /\ Cardinality(Strays) \in Nat
       /\ IsFiniteSet(Chances') /\ Cardinality(Chances') <= Cardinality(Strays) + 1
       /\ Cardinality(Strays') <= Cardinality(Strays)
  <2>1. IsFiniteSet(Strays) /\ Cardinality(Strays) \in Nat
    BY StraysAreFinite
  <2> DEFINE b == <<opened', 0>>
  <2>2. Chances' \in SUBSET (Strays \cup {b})
    BY <1>9
  <2> HIDE DEF b
  <2>3. IsFiniteSet(Chances') /\ Cardinality(Chances') <= Cardinality(Strays) + 1
    BY <2>1, <2>2, OneMore
  <2> QED BY <1>9, <2>1, <2>3, FS_Subset
<1>11. /\ Cardinality(Chances') \in Nat /\ Cardinality(Strays') \in Nat
       /\ probeFailures \in Nat /\ Cardinality(Strays) <= probeFailures
  <2>1. IsFiniteSet(Strays')
    BY <1>9, <1>10, FS_Subset
  <2> QED BY <1>10, <2>1, SshAssumption, FS_CardinalityType DEF BoundTypes, ChancesCounted
<1>12. ChancesCounted'
  <2>1. /\ Cardinality(Chances') <= probeFailures' + 1
        /\ Cardinality(Strays') <= probeFailures'
    BY <1>1, <1>10, <1>11
  <2>2. (IF wanted' THEN 1 ELSE 0) = 1
    BY <1>1
  <2> QED BY <1>10, <2>1, <2>2 DEF ChancesCounted
<1> QED BY <1>7, <1>12

LEMMA DisconnectCounts ==
  ASSUME TypeOK, EntriesInv, ChancesCounted, Disconnect
  PROVE  EntriesInv' /\ ChancesCounted'
<1> USE DEF TypeOK, ClientTypes
<1>1. /\ current \in Client /\ current' = 0 /\ UNCHANGED <<opened, status, probeFailures>>
      /\ wanted' = FALSE /\ opened \in Nat
  BY SshAssumption DEF Disconnect, Client, boundVars
<1>2. \A e \in Client \ {current} :
        link'[e] = link[e] /\ intentional'[e] = intentional[e] /\ timers'[e] = timers[e]
  BY DEF Disconnect, Teardown, TornLinks
<1>3. /\ link'[current] = IF link[current] = "handshake" THEN "aborted"
                          ELSE IF link[current] = "open" THEN "destroyed" ELSE link[current]
      /\ intentional'[current] /\ timers'[current] = <<>>
  BY <1>1 DEF Disconnect, Teardown, TornLinks
<1>4. EntriesInv'
  <2>1. \A e \in Client : e > opened => e # current
    BY <1>1, SshAssumption DEF EntriesInv
  <2>2. NewcomersUntouched'
    BY <1>1, <1>2, <2>1 DEF EntriesInv, NewcomersUntouched
  <2>3. StatusFollowsLink'
    BY <1>1, <1>2, <1>3 DEF EntriesInv, StatusFollowsLink
  <2>4. \A e \in Client : link'[e] = "aborted" => intentional'[e]
    BY <1>1, <1>2, <1>3 DEF EntriesInv
  <2> QED BY <1>1, <2>2, <2>3, <2>4 DEF EntriesInv
<1>5. ASSUME NEW t \in Chances' PROVE t \in Strays
  <2>1. Stands(t[1], t[2])' /\ t[1] \in Client /\ t[2] \in Nat
    BY DEF Chances
  <2>2. CASE t[1] = current
    BY <1>3, <2>1, <2>2, TornStandsForNothing
  <2>3. CASE t[1] \notin {current}
    <3>1. t \in Chances
      BY <1>2, <2>3, OthersKeepTheirs
    <3> QED BY <2>3, <3>1 DEF Strays
  <2> QED BY <2>2, <2>3
<1>6. Chances' \subseteq Strays /\ Strays' \subseteq Strays
  BY <1>5 DEF Strays
<1>7. /\ IsFiniteSet(Strays) /\ IsFiniteSet(Chances') /\ IsFiniteSet(Strays')
      /\ Cardinality(Chances') <= Cardinality(Strays)
      /\ Cardinality(Strays') <= Cardinality(Strays)
  <2>1. IsFiniteSet(Strays)
    BY StraysAreFinite
  <2> QED BY <1>6, <2>1, FS_Subset
<1>8. /\ Cardinality(Chances') \in Nat /\ Cardinality(Strays') \in Nat /\ Cardinality(Strays) \in Nat
      /\ probeFailures \in Nat /\ Cardinality(Strays) <= probeFailures
  BY <1>7, SshAssumption, FS_CardinalityType DEF BoundTypes, ChancesCounted
<1>9. ChancesCounted'
  BY <1>1, <1>7, <1>8 DEF ChancesCounted
<1> QED BY <1>4, <1>9

LEMMA RetryCounts ==
  ASSUME TypeOK, EntriesInv, ChancesCounted, NEW e \in Client, RetryFires(e)
  PROVE  EntriesInv' /\ ChancesCounted'
<1> USE DEF TypeOK, ClientTypes
<1>1. /\ opened' = opened + 1 /\ current' = opened' /\ opened' \in Client
      /\ UNCHANGED <<status, intentional, wanted, probeFailures>>
  BY SshAssumption DEF RetryFires, DoConnect, Client, boundVars
<1>2. /\ link[opened'] = "unused" /\ status[opened'] = "connecting"
      /\ ~intentional[opened'] /\ timers[opened'] = <<>>
  BY <1>1, SshAssumption DEF EntriesInv, NewcomersUntouched
<1>3. /\ timers[e] \in Seq(1..MaxRetries) /\ timers[e] # <<>> /\ e # opened'
      /\ Len(timers[e]) \in Nat /\ Len(timers[e]) >= 1
  <2>1. timers[e] \in Seq(1..MaxRetries) /\ timers[e] # <<>>
    BY DEF RetryFires
  <2>2. Len(timers[e]) \in Nat /\ Len(timers[e]) # 0
    BY <2>1, EmptySeq, LenProperties
  <2> QED BY <1>2, <2>1, <2>2
<1>4. \A f \in Client \ {e, opened'} : link'[f] = link[f] /\ timers'[f] = timers[f]
  BY <1>1 DEF RetryFires, DoConnect
<1>5. link'[e] = link[e] /\ timers'[e] = Tail(timers[e])
  BY <1>1, <1>3 DEF RetryFires, DoConnect
<1>6. link'[opened'] = "handshake" /\ timers'[opened'] = <<>>
  BY <1>1, <1>2, <1>3 DEF RetryFires, DoConnect
<1>7. EntriesInv'
  <2>1. e <= opened
    BY <1>3, SshAssumption DEF EntriesInv, NewcomersUntouched, Client
  <2>2. \A f \in Client : f > opened' => f > opened /\ f # e /\ f # opened'
    BY <1>1, <2>1, SshAssumption DEF Client
  <2>3. NewcomersUntouched'
    BY <1>1, <1>4, <2>2 DEF EntriesInv, NewcomersUntouched
  <2>4. StatusFollowsLink'
    BY <1>1, <1>2, <1>4, <1>5, <1>6 DEF EntriesInv, StatusFollowsLink
  <2>5. \A f \in Client : link'[f] = "aborted" => intentional'[f]
    BY <1>1, <1>4, <1>5, <1>6 DEF EntriesInv
  <2>6. current' <= opened'
    BY <1>1, SshAssumption DEF Client
  <2> QED BY <2>3, <2>4, <2>5, <2>6 DEF EntriesInv
<1> DEFINE a == <<e, Len(timers[e])>>
           b == <<opened', 0>>
<1>8. a \in Chances
  BY <1>3 DEF Chances, Stands
<1>9. ASSUME NEW t \in Chances' PROVE t \in Chances \ {a} \/ t = b
  <2>1. t \in Client \X Nat /\ Stands(t[1], t[2])' /\ t[1] \in Client /\ t[2] \in Nat
        /\ t = <<t[1], t[2]>>
    BY DEF Chances
  <2>2. CASE t[1] = opened'
    <3>1. Len(timers'[opened']) = 0
      BY <1>6
    <3>2. t[2] = 0
      BY <2>1, <2>2, <3>1 DEF Stands
    <3> QED BY <2>1, <2>2, <3>2
  <2>3. CASE t[1] = e
    <3>1. Len(timers'[e]) = Len(timers[e]) - 1
      BY <1>3, <1>5
    <3>2. Owes(e)' => Owes(e)
      BY <1>1, <1>5 DEF Owes, Live
    <3>3. Stands(e, t[2]) /\ t[2] # Len(timers[e])
      BY <1>3, <2>1, <2>3, <3>1, <3>2 DEF Stands
    <3>4. t \in Chances
      BY <2>1, <2>3, <3>3 DEF Chances
    <3> QED BY <3>3, <3>4
  <2>4. CASE t[1] \notin {e, opened'}
    <3>1. t \in Chances
      BY <1>1, <1>4, <2>4, OthersKeepTheirs
    <3> QED BY <2>4, <3>1
  <2> QED BY <2>2, <2>3, <2>4
<1>10. Chances' \in SUBSET ((Chances \ {a}) \cup {b})
  BY <1>9
<1>11. Strays' \subseteq Chances \ {a}
  <2>1. ASSUME NEW t \in Strays' PROVE t \in Chances \ {a}
    <3>1. t \in Chances' /\ t[1] # opened'
      BY <1>1 DEF Strays
    <3> QED BY <1>9, <3>1
  <2> QED BY <2>1
<1> HIDE DEF a, b
<1>12. /\ IsFiniteSet(Chances') /\ IsFiniteSet(Strays')
       /\ Cardinality(Chances') <= Cardinality(Chances)
       /\ Cardinality(Strays') <= Cardinality(Chances) - 1
  <2>1. IsFiniteSet(Chances)
    BY DEF ChancesCounted
  <2>2. IsFiniteSet(Chances') /\ Cardinality(Chances') <= Cardinality(Chances)
    BY <1>8, <1>10, <2>1, OneInOneOut
  <2>3. IsFiniteSet(Chances \ {a}) /\ Cardinality(Chances \ {a}) = Cardinality(Chances) - 1
    BY <1>8, <2>1, FS_RemoveElement
  <2> QED BY <1>11, <2>2, <2>3, FS_Subset
<1>13. /\ Cardinality(Chances) \in Nat /\ Cardinality(Chances') \in Nat
       /\ Cardinality(Strays') \in Nat /\ probeFailures \in Nat
  BY <1>12, SshAssumption, FS_CardinalityType DEF BoundTypes, ChancesCounted
<1>14. /\ Cardinality(Chances') <= probeFailures' + (IF wanted' THEN 1 ELSE 0)
       /\ Cardinality(Strays') <= probeFailures'
  <2> HIDE DEF TypeOK, ClientTypes
  <2>1. Cardinality(Chances) <= probeFailures + 1
    BY <1>13 DEF ChancesCounted
  <2>2. Cardinality(Strays') <= probeFailures
    BY <1>12, <1>13, <2>1
  <2>3. Cardinality(Chances') <= probeFailures + (IF wanted THEN 1 ELSE 0)
    BY <1>12, <1>13 DEF ChancesCounted
  <2> QED BY <1>1, <2>2, <2>3
<1> QED BY <1>7, <1>12, <1>14 DEF ChancesCounted

(* What an event may do to the link and the status of its entry.           *)
LEMMA EventKeepsEntriesInv ==
  ASSUME TypeOK, EntriesInv, NEW e \in Client, e <= opened,
         UNCHANGED <<opened, current, intentional>>,
         \A f \in Client \ {e} :
           link'[f] = link[f] /\ status'[f] = status[f] /\ timers'[f] = timers[f],
         link'[e] # "handshake",
         link'[e] = "aborted" => intentional[e],
         link'[e] = "open" => status'[e] = "connected",
         link'[e] = "lost" => status'[e] = "error",
         status'[e] = "connected" => link'[e] = "open" \/ intentional[e]
  PROVE  EntriesInv'
<1>1. \A f \in Client : f > opened => f # e
  BY SshAssumption DEF Client, TypeOK, ClientTypes
<1>2. NewcomersUntouched'
  BY <1>1 DEF EntriesInv, NewcomersUntouched
<1>3. StatusFollowsLink' /\ current' <= opened'
  BY DEF EntriesInv, StatusFollowsLink
<1>4. \A f \in Client : link'[f] = "aborted" => intentional'[f]
  BY DEF EntriesInv
<1> QED BY <1>2, <1>3, <1>4 DEF EntriesInv

LEMMA ErrorCounts ==
  ASSUME TypeOK, EntriesInv, ChancesCounted, NEW e \in Client, OnError(e),
         link[e] \in {"handshake", "open", "aborted"}
  PROVE  EntriesInv' /\ ChancesCounted'
<1> USE DEF TypeOK, ClientTypes
<1>1. /\ link'[e] = "lost" /\ status'[e] = "error" /\ timers' = Scheduled(e, attempt[e])
      /\ attempt[e] \in Nat /\ e <= opened
  <2>1. attempt[e] \in Nat /\ e \in Nat /\ opened \in Nat
    BY SshAssumption DEF Client
  <2>2. e <= opened
    BY <2>1 DEF EntriesInv, NewcomersUntouched
  <2> QED BY <2>1, <2>2 DEF OnError
<1>2. UNCHANGED <<opened, current, intentional, wanted, probeFailures>>
  BY DEF OnError
<1>3. \A f \in Client \ {e} : link'[f] = link[f] /\ status'[f] = status[f]
  BY DEF OnError
<1>4. /\ \A f \in Client \ {e} : timers'[f] = timers[f]
      /\ intentional[e] => timers' = timers
  BY <1>1, ScheduledLonger
<1>5. EntriesInv'
  BY <1>1, <1>2, <1>3, <1>4, EventKeepsEntriesInv
<1>6. ~Owes(e)'
  BY <1>1 DEF Owes, Live
<1>7. CASE link[e] = "aborted"
  <2>1. timers' = timers
    BY <1>4, <1>7 DEF EntriesInv
  <2> QED BY <1>2, <1>3, <1>5, <1>6, <2>1, QuietEvent
<1>8. CASE link[e] # "aborted"
  <2>1. Owes(e)
    BY <1>8 DEF Owes, Live
  <2> QED BY <1>1, <1>2, <1>3, <1>5, <1>6, <2>1, SocketBecomesTimer
<1> QED BY <1>7, <1>8

LEMMA CloseCounts ==
  ASSUME TypeOK, EntriesInv, ChancesCounted, NEW e \in Client, OnClose(e),
         link[e] \in {"open", "aborted", "destroyed", "lost"}
  PROVE  EntriesInv' /\ ChancesCounted'
<1> USE DEF TypeOK, ClientTypes
<1>1. link'[e] = "closed" /\ e <= opened
  <2>1. e \in Nat /\ opened \in Nat
    BY SshAssumption DEF Client
  <2>2. e <= opened
    BY <2>1 DEF EntriesInv, NewcomersUntouched
  <2> QED BY <2>2 DEF OnClose
<1>2. UNCHANGED <<opened, current, intentional, wanted, probeFailures>>
  BY DEF OnClose
<1>3. \A f \in Client \ {e} : link'[f] = link[f] /\ status'[f] = status[f]
  BY DEF OnClose
<1>4. ~Owes(e)'
  BY <1>1 DEF Owes, Live
<1>5. CASE intentional[e] \/ status[e] \notin {"connected", "reconnecting"}
  <2>1. UNCHANGED <<status, timers>> /\ (status[e] = "connected" => intentional[e])
    BY <1>5 DEF OnClose
  <2>2. EntriesInv'
    BY <1>1, <1>2, <1>3, <2>1, EventKeepsEntriesInv
  <2> QED BY <1>2, <1>3, <1>4, <2>1, <2>2, QuietEvent
<1>6. CASE ~(intentional[e] \/ status[e] \notin {"connected", "reconnecting"})
  <2>1. status'[e] = "reconnecting" /\ timers' = Scheduled(e, 0) /\ 0 \in Nat
    BY <1>6 DEF OnClose
  <2>2. \A f \in Client \ {e} : timers'[f] = timers[f]
    BY <2>1, ScheduledLonger
  <2>3. EntriesInv'
    BY <1>1, <1>2, <1>3, <2>1, <2>2, EventKeepsEntriesInv
  <2>4. Owes(e)
    BY <1>6 DEF EntriesInv, StatusFollowsLink, Owes, Live
  <2> QED BY <1>2, <1>3, <1>4, <2>1, <2>3, <2>4, SocketBecomesTimer
<1> QED BY <1>5, <1>6

(* The step that costs: a probe fails on a connection that is up.          *)
LEMMA ProbeCounts ==
  ASSUME TypeOK, EntriesInv, ChancesCounted, NEW e \in Client, ProbeFails(e)
  PROVE  EntriesInv' /\ ChancesCounted'
<1> USE DEF TypeOK, ClientTypes
<1>1. UNCHANGED <<opened, current, intentional, wanted>>
  BY DEF ProbeFails
<1>2. CASE link[e] = "open"
  <2>1. status[e] = "connected" /\ e <= opened
    BY <1>2, SshAssumption DEF EntriesInv, NewcomersUntouched, StatusFollowsLink, Client
  <2>2. /\ status' = [status EXCEPT ![e] = "reconnecting"] /\ link' = TornLinks({e})
        /\ timers' = Scheduled(e, 0) /\ 0 \in Nat /\ probeFailures' = probeFailures + 1
    BY <1>2, <2>1 DEF ProbeFails
  <2>3. link'[e] = "destroyed" /\ status'[e] = "reconnecting"
    BY <1>2, <2>2 DEF TornLinks
  <2>4. \A f \in Client \ {e} : link'[f] = link[f] /\ status'[f] = status[f]
    BY <2>2 DEF TornLinks
  <2>5. /\ \A f \in Client \ {e} : timers'[f] = timers[f]
        /\ Len(timers'[e]) \in Nat /\ Len(timers'[e]) <= Len(timers[e]) + 1
    BY <2>2, ScheduledLonger
  <2>6. EntriesInv'
    BY <1>1, <2>1, <2>3, <2>4, <2>5, EventKeepsEntriesInv
  <2> DEFINE b == <<e, Len(timers[e]) + 1>>
  <2>7. ASSUME NEW t \in Chances' PROVE t \in Chances \/ t = b
    <3>1. t \in Client \X Nat /\ Stands(t[1], t[2])'
      BY DEF Chances
    <3>2. CASE t[1] \notin {e}
      BY <1>1, <2>4, <2>5, <3>2, OthersKeepTheirs
    <3>3. CASE t[1] = e
      <4>1. /\ t = <<e, t[2]>> /\ t[2] \in Nat /\ Len(timers[e]) \in Nat
            /\ (t \in Chances <=> Stands(e, t[2]))
        BY <3>1, <3>3, ChancesOf
      <4>2. Owes(e)
        BY <1>2 DEF Owes, Live
      <4>3. t[2] = 0 \/ t[2] <= Len(timers'[e])
        BY <3>1, <3>3 DEF Stands
      <4>4. t[2] = 0 \/ t[2] <= Len(timers[e]) \/ t[2] = Len(timers[e]) + 1
        BY <2>5, <4>1, <4>3
      <4>5. CASE t[2] = 0 \/ t[2] <= Len(timers[e])
        BY <4>1, <4>2, <4>5 DEF Stands
      <4>6. CASE t[2] = Len(timers[e]) + 1
        BY <4>1, <4>6
      <4> QED BY <4>4, <4>5, <4>6
    <3> QED BY <3>2, <3>3
  <2>8. Chances' \in SUBSET (Chances \cup {b}) /\ Strays' \in SUBSET (Strays \cup {b})
    BY <1>1, <2>7 DEF Strays
  <2> HIDE DEF b
  <2>9. IsFiniteSet(Chances) /\ IsFiniteSet(Strays)
    BY StraysAreFinite DEF ChancesCounted
  <2>10. /\ IsFiniteSet(Chances') /\ Cardinality(Chances') <= Cardinality(Chances) + 1
         /\ IsFiniteSet(Strays') /\ Cardinality(Strays') <= Cardinality(Strays) + 1
    BY <2>8, <2>9, OneMore
  <2>11. /\ Cardinality(Chances) \in Nat /\ Cardinality(Chances') \in Nat
         /\ Cardinality(Strays) \in Nat /\ Cardinality(Strays') \in Nat /\ probeFailures \in Nat
    BY <2>9, <2>10, SshAssumption, FS_CardinalityType DEF BoundTypes
  <2>12. /\ Cardinality(Chances') <= probeFailures' + (IF wanted' THEN 1 ELSE 0)
         /\ Cardinality(Strays') <= probeFailures'
    <3> HIDE DEF TypeOK, ClientTypes
    <3>1. Cardinality(Strays') <= probeFailures + 1
      BY <2>10, <2>11 DEF ChancesCounted
    <3>2. Cardinality(Chances') <= probeFailures + 1 + (IF wanted THEN 1 ELSE 0)
      BY <2>10, <2>11 DEF ChancesCounted
    <3> QED BY <1>1, <2>2, <3>1, <3>2
  <2> QED BY <2>6, <2>10, <2>12 DEF ChancesCounted
<1>3. CASE link[e] # "open"
  <2>1. probeFailures' = probeFailures
    BY <1>3 DEF ProbeFails
  <2>2. CASE status[e] # "connected"
    <3>1. UNCHANGED <<link, status, timers>>
      BY <2>2 DEF ProbeFails
    <3>2. EntriesInv'
      BY <1>1, <3>1 DEF EntriesInv, NewcomersUntouched, StatusFollowsLink
    <3>3. Owes(e)' => Owes(e)
      BY <1>1, <3>1 DEF Owes, Live
    <3> QED BY <1>1, <2>1, <3>1, <3>2, <3>3, QuietEvent
  <2>3. CASE status[e] = "connected"
    <3>1. intentional[e] /\ e <= opened /\ link[e] \notin {"handshake", "lost"}
      BY <1>3, <2>3, SshAssumption DEF EntriesInv, NewcomersUntouched, StatusFollowsLink, Client
    <3>2. /\ timers' = timers /\ link' = TornLinks({e})
          /\ status' = [status EXCEPT ![e] = "reconnecting"]
      BY <2>3, <3>1 DEF ProbeFails, Scheduled
    <3>3. link'[e] = link[e] /\ status'[e] = "reconnecting"
      BY <1>3, <3>1, <3>2 DEF TornLinks
    <3>4. \A f \in Client \ {e} : link'[f] = link[f] /\ status'[f] = status[f]
      BY <3>2 DEF TornLinks
    <3>5. EntriesInv'
      BY <1>1, <1>3, <3>1, <3>2, <3>3, <3>4, EventKeepsEntriesInv
    <3>6. Owes(e)' => Owes(e)
      BY <1>1, <3>3 DEF Owes, Live
    <3> QED BY <1>1, <2>1, <3>2, <3>4, <3>5, <3>6, QuietEvent
  <2> QED BY <2>2, <2>3
<1> QED BY <1>2, <1>3

LEMMA NextCounts ==
  ASSUME TypeOK, EntriesInv, ChancesCounted, [SshNext]_sshVars
  PROVE  EntriesInv' /\ ChancesCounted'
<1>1. CASE Connect
  BY <1>1, ConnectCounts
<1>2. CASE Disconnect
  BY <1>2, DisconnectCounts
<1>3. ASSUME NEW e \in Client, Event(e) PROVE EntriesInv' /\ ChancesCounted'
  <2>1. CASE Ready(e)
    <3>1. /\ link[e] = "handshake" /\ link'[e] = "open" /\ status'[e] = "connected"
          /\ UNCHANGED <<opened, current, intentional, timers, wanted, probeFailures>>
      BY <2>1 DEF Ready, TypeOK, ClientTypes, boundVars
    <3>2. \A f \in Client \ {e} : link'[f] = link[f] /\ status'[f] = status[f]
      BY <2>1 DEF Ready, TypeOK, ClientTypes
    <3>3. e \in Nat /\ opened \in Nat
      BY SshAssumption DEF Client, TypeOK, ClientTypes
    <3>4. e <= opened
      BY <3>1, <3>3 DEF EntriesInv, NewcomersUntouched
    <3>5. EntriesInv'
      BY <3>1, <3>2, <3>4, EventKeepsEntriesInv
    <3>6. Owes(e)' => Owes(e)
      BY <3>1 DEF Owes, Live
    <3> QED BY <3>1, <3>2, <3>5, <3>6, QuietEvent
  <2>2. CASE HandshakeFails(e) \/ AbortedHandshakeFails(e) \/ ConnectionFails(e)
    BY <2>2, ErrorCounts DEF HandshakeFails, AbortedHandshakeFails, ConnectionFails
  <2>3. CASE ConnectionEnds(e) \/ SocketCloses(e)
    BY <2>3, CloseCounts DEF ConnectionEnds, SocketCloses
  <2>4. CASE RetryFires(e)
    BY <2>4, RetryCounts
  <2>5. CASE ProbeStarts(e) \/ ProbeAnswers(e)
    <3>1. UNCHANGED <<clientVars, wanted, probeFailures>>
      BY <2>5 DEF ProbeStarts, ProbeAnswers, boundVars
    <3> QED BY <3>1 DEF clientVars, EntriesInv, NewcomersUntouched, StatusFollowsLink,
               ChancesCounted, Chances, Strays, Stands, Owes, Live
  <2>6. CASE ProbeFails(e)
    BY <2>6, ProbeCounts
  <2> QED BY <1>3, <2>1, <2>2, <2>3, <2>4, <2>5, <2>6 DEF Event
<1>4. CASE (\E c \in Command : Exec(c) \/ Settle(c)) \/ UNCHANGED sshVars
  <2>1. UNCHANGED <<clientVars, wanted, probeFailures>>
    BY <1>4 DEF Exec, Settle, sshVars, boundVars
  <2> QED BY <2>1 DEF clientVars, EntriesInv, NewcomersUntouched, StatusFollowsLink,
             ChancesCounted, Chances, Strays, Stands, Owes, Live
<1> QED BY <1>1, <1>2, <1>3, <1>4 DEF SshNext

(* Every socket in use is a chance of its own.                             *)
LEMMA SocketsAreChances ==
  ASSUME ChancesCounted
  PROVE  /\ IsFiniteSet({e \in Client : Live(e)})
         /\ Cardinality({e \in Client : Live(e)}) <= Cardinality(Chances)
         /\ Cardinality({e \in Client : Live(e)}) \in Nat
<1> DEFINE sockets == {e \in Client : Live(e)}
           number == [e \in sockets |-> <<e, 0>>]
<1>1. \A e \in sockets : <<e, 0>> \in Chances
  BY DEF Chances, Stands, Owes
<1>2. number \in Injection(sockets, Chances)
  <2>1. number \in [sockets -> Chances]
    BY <1>1
  <2>2. \A e, f \in sockets : number[e] = number[f] => e = f
    OBVIOUS
  <2> QED BY <2>1, <2>2 DEF Injection, IsInjective
<1> HIDE DEF sockets, number
<1>3. IsFiniteSet(sockets) /\ Cardinality(sockets) <= Cardinality(Chances)
  BY <1>2, FS_Injection DEF ChancesCounted
<1>4. Cardinality(sockets) \in Nat
  BY <1>3, FS_CardinalityType
<1> QED BY <1>3, <1>4 DEF sockets

(* What a failed health probe costs, on every instance: a server has one   *)
(* client connected or connecting while it is wanted and none after a      *)
(* disconnect, and one more for each probe that has failed so far on a     *)
(* connection that was up.  Drops, failed handshakes, retries and further  *)
(* connect() and disconnect() calls add nothing to that.                   *)
THEOREM StrayConnectionsAreCounted ==
  SshSpec => [](Cardinality({e \in Client : Live(e)})
                  <= probeFailures + (IF wanted THEN 1 ELSE 0))
<1>1. TypeOK /\ EntriesInv /\ ChancesCounted /\ [SshNext]_sshVars
        => TypeOK' /\ EntriesInv' /\ ChancesCounted'
  BY NextTypeOK, NextCounts
<1>2. TypeOK /\ ChancesCounted => Cardinality({e \in Client : Live(e)})
                                   <= probeFailures + (IF wanted THEN 1 ELSE 0)
  <2> SUFFICES ASSUME TypeOK, ChancesCounted
               PROVE  Cardinality({e \in Client : Live(e)})
                        <= probeFailures + (IF wanted THEN 1 ELSE 0)
    OBVIOUS
  <2>1. probeFailures \in Nat /\ Cardinality(Chances) \in Nat
    BY SshAssumption, FS_CardinalityType DEF TypeOK, BoundTypes, ChancesCounted
  <2> DEFINE sockets == {e \in Client : Live(e)}
  <2>2. Cardinality(sockets) \in Nat /\ Cardinality(sockets) <= Cardinality(Chances)
    BY SocketsAreChances
  <2> HIDE DEF sockets
  <2>3. Cardinality(sockets) <= probeFailures + (IF wanted THEN 1 ELSE 0)
    BY <2>1, <2>2 DEF ChancesCounted
  <2> QED BY <2>3 DEF sockets
<1> QED BY <1>1, <1>2, InitTypeOK, InitCounts, PTL DEF SshSpec
=============================================================================
