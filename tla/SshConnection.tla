--------------------------- MODULE SshConnection ---------------------------
(***************************************************************************)
(* The desktop's SSHManager (ssh-manager.ts) for one server: connect() and *)
(* disconnect(), the ssh2 events of every client it ever opened, retries   *)
(* with a backoff timer, the health probe, and the queue of commands that  *)
(* wait for one of the connection's channels.  The manager's maps are      *)
(* keyed by server and share nothing, so one server stands for all.        *)
(*                                                                         *)
(* Every callback is a step: the process is single-threaded, so a callback *)
(* with the promise jobs it settles runs to its end.  A client is numbered *)
(* by the order of `new Client()`, and its ConnectionEntry is found under  *)
(* the same number even after the map has dropped it, because closures     *)
(* keep it alive.                                                          *)
(***************************************************************************)
EXTENDS Naturals, Sequences, FiniteSets

CONSTANTS
  Command,            \* calls of execCommand and withSftp
  MaxChannels,        \* MAX_CHANNELS (6 in the code)
  MaxRetries,         \* MAX_RETRIES (12 in the code)
  MaxClients,         \* bound: clients ever opened
  MaxConnects,        \* bound: connect() calls that open a client
  MaxFaults,          \* bound: failed handshakes and dropped connections
  MaxProbeFailures    \* bound: probes that fail on a connection that is up

ASSUME SshAssumption ==
  /\ IsFiniteSet(Command)
  /\ MaxChannels \in Nat \ {0} /\ MaxRetries \in Nat \ {0}
  /\ MaxClients \in Nat /\ MaxConnects \in Nat /\ MaxFaults \in Nat /\ MaxProbeFailures \in Nat

(* A connect opens one client, a fault sets one retry timer and a failed   *)
(* probe two, so MaxConnects + MaxFaults + 2 * MaxProbeFailures clients    *)
(* are all that the other bounds leave room for.                           *)
Client == 1..MaxClients

VARIABLES
  opened,             \* how many clients have been opened
  current,            \* connections.get(id), or 0
  handshake,          \* the client of connectPromises.get(id), or 0
  link,               \* state of each client's socket
  status, intentional, attempt,   \* entry.{status,intentional}, closure retryCount
  timers,             \* retry timers of an entry: the attempt each will make
  queue,              \* entry.channelQueue
  phase, serving,     \* what became of a command, and the client it runs on
  probing,            \* clients with a health probe under way
  wanted,             \* history: connect() was called after the last disconnect()
  connects, faults, probeFailures   \* bounds used up

clientVars == <<opened, current, handshake, link, status, intentional, attempt, timers>>
channelVars == <<queue, phase, serving>>
boundVars == <<connects, faults, probeFailures>>
sshVars == <<clientVars, channelVars, probing, wanted, boundVars>>

Status == {"connecting", "connected", "reconnecting", "error"}

Link == {"unused", "handshake", "open", "aborted", "destroyed", "lost", "closed"}
Phase == {"idle", "queued", "running", "settled"}

ClientTypes ==
  /\ opened \in 0..MaxClients /\ current \in 0..MaxClients /\ handshake \in 0..MaxClients
  /\ link \in [Client -> Link]
  /\ status \in [Client -> Status]
  /\ intentional \in [Client -> BOOLEAN]
  /\ attempt \in [Client -> 0..MaxRetries]
  /\ timers \in [Client -> Seq(1..MaxRetries)]

ChannelTypes ==
  /\ queue \in [Client -> Seq(Command)]
  /\ phase \in [Command -> Phase]
  /\ serving \in [Command -> 0..MaxClients]

BoundTypes ==
  /\ probing \subseteq Client /\ wanted \in BOOLEAN
  /\ connects \in 0..MaxConnects /\ faults \in 0..MaxFaults
  /\ probeFailures \in 0..MaxProbeFailures

TypeOK == ClientTypes /\ ChannelTypes /\ BoundTypes

-----------------------------------------------------------------------------
(* getStatus                                                               *)
CurrentStatus == IF current = 0 THEN "disconnected" ELSE status[current]

Live(e) == link[e] \in {"handshake", "open"}

Running(e) == {c \in Command : phase[c] = "running" /\ serving[c] = e}

Init ==
  /\ opened = 0 /\ current = 0 /\ handshake = 0
  /\ link = [e \in Client |-> "unused"] /\ status = [e \in Client |-> "connecting"]
  /\ intentional = [e \in Client |-> FALSE] /\ attempt = [e \in Client |-> 0]
  /\ timers = [e \in Client |-> <<>>]
  /\ queue = [e \in Client |-> <<>>]
  /\ phase = [c \in Command |-> "idle"] /\ serving = [c \in Command |-> 0]
  /\ probing = {} /\ wanted = FALSE
  /\ connects = 0 /\ faults = 0 /\ probeFailures = 0

(* Mutant: a torn down client is forgotten, but its socket is not closed.  *)
AbandonedLinks(torn) == link

(* _teardown destroys the socket; whether a client that is destroyed in    *)
(* its handshake still reports an error is up to the library.              *)
TornLinks(torn) ==
  [e \in Client |-> IF e \notin torn THEN link[e]
                    ELSE IF link[e] = "handshake" THEN "aborted"
                    ELSE IF link[e] = "open" THEN "destroyed" ELSE link[e]]

(* The rest of _teardown.  Of two retry timers it clears only the last,    *)
(* but the other finds the entry intentional and does nothing.             *)
Teardown(torn) ==
  /\ intentional' = [e \in Client |-> intentional[e] \/ e \in torn]
  /\ timers' = [e \in Client |-> IF e \in torn THEN <<>> ELSE timers[e]]

(* _doConnect: the new entry replaces whatever the map holds.              *)
DoConnect(retryCount, links) ==
  LET e == opened + 1 IN
  /\ opened < MaxClients
  /\ opened' = e /\ current' = e
  /\ link' = [links EXCEPT ![e] = "handshake"]
  /\ attempt' = [attempt EXCEPT ![e] = retryCount]
  /\ UNCHANGED status

(* connect() opens a client unless the server is connected or a handshake  *)
(* that another connect() started is still under way.                      *)
Connect ==
  /\ CurrentStatus # "connected" /\ handshake = 0 /\ connects < MaxConnects
  /\ LET torn == {current} \ {0} IN
       Teardown(torn) /\ DoConnect(0, TornLinks(torn))
  /\ handshake' = opened'
  /\ connects' = connects + 1
  /\ wanted' = TRUE
  /\ UNCHANGED <<channelVars, probing, faults, probeFailures>>

Disconnect ==
  /\ current # 0
  /\ Teardown({current}) /\ link' = TornLinks({current})
  /\ current' = 0 /\ handshake' = 0
  /\ wanted' = FALSE
  /\ UNCHANGED <<opened, status, attempt, channelVars, probing, boundVars>>

-----------------------------------------------------------------------------
(* Events of a client.                                                     *)

(* Mutant: one retry too many.                                             *)
ScheduledOneMore(e, retryCount) ==
  IF intentional[e] \/ retryCount > MaxRetries THEN timers
  ELSE [timers EXCEPT ![e] = Append(@, retryCount + 1)]

(* Mutant: an entry that was torn down retries all the same.               *)
ScheduledRegardless(e, retryCount) ==
  IF retryCount >= MaxRetries THEN timers
  ELSE [timers EXCEPT ![e] = Append(@, retryCount + 1)]

(* Mutant: the last retry is not made.                                     *)
ScheduledOneLess(e, retryCount) ==
  IF intentional[e] \/ retryCount + 1 >= MaxRetries THEN timers
  ELSE [timers EXCEPT ![e] = Append(@, retryCount + 1)]

(* _scheduleReconnect sets a timer unless the entry was torn down or the   *)
(* retries are used up.                                                    *)
Scheduled(e, retryCount) ==
  IF intentional[e] \/ retryCount >= MaxRetries THEN timers
  ELSE [timers EXCEPT ![e] = Append(@, retryCount + 1)]

(* connect()'s finally block drops the promise from the map when its own   *)
(* client is ready or fails, whichever promise the map holds by then.      *)
ForgetHandshake(e) == handshake' = IF attempt[e] = 0 THEN 0 ELSE handshake

Ready(e) ==
  /\ link[e] = "handshake"
  /\ link' = [link EXCEPT ![e] = "open"]
  /\ status' = [status EXCEPT ![e] = "connected"]
  /\ ForgetHandshake(e)
  /\ UNCHANGED <<opened, current, intentional, attempt, timers, channelVars, probing, wanted,
                 boundVars>>

(* _drainQueueWithError empties the queue; the promises of the waiters are *)
(* neither resolved nor rejected.                                          *)
Drain(e) ==
  /\ queue' = [queue EXCEPT ![e] = <<>>]
  /\ UNCHANGED <<phase, serving>>

(* The 'error' event retries from the attempt this client was opened with. *)
OnError(e) ==
  /\ link' = [link EXCEPT ![e] = "lost"]
  /\ status' = [status EXCEPT ![e] = "error"]
  /\ Drain(e)
  /\ timers' = Scheduled(e, attempt[e])
  /\ UNCHANGED <<opened, current, intentional, attempt, probing, wanted, connects, probeFailures>>

HandshakeFails(e) ==
  /\ link[e] = "handshake" /\ faults < MaxFaults
  /\ OnError(e) /\ ForgetHandshake(e)
  /\ faults' = faults + 1

AbortedHandshakeFails(e) ==
  /\ link[e] = "aborted"
  /\ OnError(e) /\ ForgetHandshake(e)
  /\ UNCHANGED faults

(* Keepalives are not answered, or the socket fails.                       *)
ConnectionFails(e) ==
  /\ link[e] = "open" /\ faults < MaxFaults
  /\ OnError(e)
  /\ faults' = faults + 1
  /\ UNCHANGED handshake

(* The 'close' event.  The entry's retry counter was reset when the client *)
(* became ready, so retries start over.                                    *)
OnClose(e) ==
  /\ link' = [link EXCEPT ![e] = "closed"]
  /\ IF intentional[e] \/ status[e] \notin {"connected", "reconnecting"}
     THEN UNCHANGED <<status, timers, channelVars>>
     ELSE /\ status' = [status EXCEPT ![e] = "reconnecting"]
          /\ Drain(e)
          /\ timers' = Scheduled(e, 0)
  /\ UNCHANGED <<opened, current, handshake, intentional, attempt, probing, wanted,
                 connects, probeFailures>>

(* The server ends the connection.                                         *)
ConnectionEnds(e) ==
  /\ link[e] = "open" /\ faults < MaxFaults
  /\ OnClose(e)
  /\ faults' = faults + 1

SocketCloses(e) ==
  /\ link[e] \in {"aborted", "destroyed", "lost"}
  /\ OnClose(e)
  /\ UNCHANGED faults

RetryFires(e) ==
  /\ timers[e] # <<>>
  /\ DoConnect(Head(timers[e]), link)
  /\ timers' = [timers EXCEPT ![e] = Tail(@)]
  /\ UNCHANGED <<handshake, intentional, channelVars, probing, wanted, boundVars>>

-----------------------------------------------------------------------------
(* The health probe.  Its interval runs from 'ready' until the connection  *)
(* drops or the entry is torn down; a probe under way outlives both.       *)

ProbeStarts(e) ==
  /\ status[e] = "connected" /\ ~intentional[e] /\ e \notin probing
  /\ probing' = probing \cup {e}
  /\ UNCHANGED <<clientVars, channelVars, wanted, boundVars>>

ProbeAnswers(e) ==
  /\ e \in probing /\ link[e] = "open"
  /\ probing' = probing \ {e}
  /\ UNCHANGED <<clientVars, channelVars, wanted, boundVars>>

(* A probe fails by its timeout, or with the connection.  It destroys the  *)
(* client and sets a retry timer; the 'close' event will set another.      *)
ProbeFails(e) ==
  /\ e \in probing /\ probing' = probing \ {e}
  /\ \/ link[e] = "open" /\ probeFailures < MaxProbeFailures
        /\ probeFailures' = probeFailures + 1
     \/ link[e] # "open" /\ UNCHANGED probeFailures
  /\ IF status[e] # "connected"
     THEN UNCHANGED <<link, status, timers>>
     ELSE /\ status' = [status EXCEPT ![e] = "reconnecting"]
          /\ link' = TornLinks({e})
          /\ timers' = Scheduled(e, 0)
  /\ UNCHANGED <<opened, current, handshake, intentional, attempt, channelVars, wanted,
                 connects, faults>>

-----------------------------------------------------------------------------
(* Channels.                                                               *)

(* Mutant: one channel too many.                                           *)
HasChannelOffByOne(e) == Cardinality(Running(e)) <= MaxChannels

(* entry.activeChannels < MAX_CHANNELS                                     *)
HasChannel(e) == Cardinality(Running(e)) < MaxChannels

(* execCommand: run at once, or wait for a channel.  A call on a server    *)
(* that is not connected is rejected and changes nothing.                  *)
Exec(c) ==
  /\ phase[c] = "idle" /\ CurrentStatus = "connected"
  /\ serving' = [serving EXCEPT ![c] = current]
  /\ \/ /\ HasChannel(current)
        /\ phase' = [phase EXCEPT ![c] = "running"]
        /\ UNCHANGED queue
     \/ /\ ~HasChannel(current)
        /\ phase' = [phase EXCEPT ![c] = "queued"]
        /\ queue' = [queue EXCEPT ![current] = Append(@, c)]
  /\ UNCHANGED <<clientVars, probing, wanted, boundVars>>

(* Mutant: a finished command leaves its channel without waking a waiter.  *)
NobodyIsNext(e) == {}

(* _releaseChannel shifts the first waiter off the queue.                  *)
NextWaiter(e) == IF queue[e] = <<>> THEN {} ELSE {Head(queue[e])}

(* The promise of a command settles, with its result or with an error: the *)
(* channel is released and the next waiter runs, on a client that may be   *)
(* closed by now, where it fails at once.                                  *)
Settle(c) ==
  LET e == serving[c]
      next == NextWaiter(e)
  IN  /\ phase[c] = "running"
      /\ phase' = [d \in Command |-> IF d = c THEN "settled"
                                     ELSE IF d \in next THEN "running" ELSE phase[d]]
      /\ queue' = [queue EXCEPT ![e] = IF next = {} THEN @ ELSE Tail(@)]
  /\ UNCHANGED <<clientVars, serving, probing, wanted, boundVars>>

-----------------------------------------------------------------------------
Event(e) ==
  \/ Ready(e) \/ HandshakeFails(e) \/ AbortedHandshakeFails(e)
  \/ ConnectionFails(e) \/ ConnectionEnds(e) \/ SocketCloses(e) \/ RetryFires(e)
  \/ ProbeStarts(e) \/ ProbeAnswers(e) \/ ProbeFails(e)

SshNext ==
  \/ Connect \/ Disconnect
  \/ \E e \in Client : Event(e)
  \/ \E c \in Command : Exec(c) \/ Settle(c)

SshSpec == Init /\ [][SshNext]_sshVars

(* Timers fire, a handshake ends within readyTimeout, a destroyed or       *)
(* failed socket closes, a probe ends within its timeout, and a command    *)
(* that holds a channel ends.  Nobody has to call anything.                *)
SshFairness ==
  /\ \A e \in Client :
       /\ WF_sshVars(Ready(e) \/ HandshakeFails(e))
       /\ WF_sshVars(AbortedHandshakeFails(e) \/ SocketCloses(e))
       /\ WF_sshVars(RetryFires(e))
       /\ WF_sshVars(ProbeAnswers(e) \/ ProbeFails(e))
  /\ \A c \in Command : WF_sshVars(Settle(c))

FairSshSpec == SshSpec /\ SshFairness

-----------------------------------------------------------------------------
(* Properties.                                                             *)

(* However connects, retries and failures interleave, a server never has   *)
(* two clients that are connected or connecting (ssh-manager.ts:99-100,    *)
(* 273-277).  It takes a failed health probe to break this.                *)
AtMostOneConnection == Cardinality({e \in Client : Live(e)}) <= 1

(* Once the user has disconnected, nothing reconnects: `intentional`       *)
(* "prevents auto-reconnect when the disconnect was intentional"           *)
(* (ssh-manager.ts:51-52).                                                 *)
DisconnectIsFinal == ~wanted => \A e \in Client : ~Live(e) /\ timers[e] = <<>>

(* At most MAX_CHANNELS commands run on a connection, also after drops     *)
(* and while waiters are woken (ssh-manager.ts:13-16, 325-349).            *)
ChannelBudget == \A e \in Client : Cardinality(Running(e)) <= MaxChannels

(* A waiter is never left behind in a queue that nobody will shift: some   *)
(* command ahead of it still holds a channel (ssh-manager.ts:332-348).     *)
WaitersHaveARunner == \A e \in Client : queue[e] # <<>> => Running(e) # {}

(* A server that should be connected does not hang in between: it becomes  *)
(* connected, or the manager has used up its retries, or the user gives    *)
(* up (ssh-manager.ts:264-278).                                            *)
GaveUp == CurrentStatus = "error" /\ attempt[current] = MaxRetries
ReconnectsOrGivesUp ==
  wanted /\ CurrentStatus # "connected" ~> ~wanted \/ CurrentStatus = "connected" \/ GaveUp

(* "Reject all queued waiters so callers don't hang indefinitely"          *)
(* (ssh-manager.ts:352): a command that waits for a channel settles.       *)
WaitersSettle == \A c \in Command : phase[c] = "queued" ~> phase[c] = "settled"
=============================================================================
