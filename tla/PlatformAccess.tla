----------------------------- MODULE PlatformAccess -----------------------------
(***************************************************************************)
(* Remote access through the platform API (routes/access.ts): requests     *)
(* that run a command or work on files over an SSH connection of their     *)
(* own, and terminals over a WebSocket that a one-time ticket opens.       *)
(*                                                                         *)
(* Refusals for want of a plan, of a scope or of valid input change        *)
(* nothing and are left out; what a command or a file operation does is    *)
(* the remote server's and succeeds or fails.                              *)
(***************************************************************************)
EXTENDS Integers, Sequences

CONSTANTS
    Request,   \* HTTP requests
    Socket,    \* WebSockets
    Ticket,    \* terminal tickets
    Limit,     \* pieces that 16 384 characters hold
    Length,    \* lengths of the messages a terminal is sent, in pieces
    MaxInput   \* bound: pieces of input a terminal is sent

ASSUME AccessAssumption ==
    /\ MaxInput \in Nat /\ Limit \in Nat \ {0} /\ Length \subseteq Nat \ {0}
    /\ Request \cap Socket = {} /\ Ticket # {}

VARIABLES
    request,    \* request -> what it does and how far it is
    ticket,     \* "none", "live" or "gone"
    terminal,   \* socket -> ticket, step of its handler, and whether it is open
    typed,      \* socket -> number of pieces of input received
    pending,    \* socket -> input that waits for the shell
    delivered,  \* socket -> input the shell has been given
    conns,      \* requests and sockets with an open SSH connection
    trimmed,    \* history: sockets whose input was cut to the limit
    abandoned,  \* history: sockets that closed before their connection was made
    audited     \* history: workload actions written to the audit log

terminalVars == <<terminal, typed, pending, delivered, trimmed, abandoned>>
accessVars == <<request, ticket, conns, audited, terminalVars>>

Kind == {"logs", "action", "files", "upload", "download"}
Advance(s, step) == terminal' = [terminal EXCEPT ![s].step = step]
NoInput == [s \in Socket |-> <<>>]

-----------------------------------------------------------------------------
(* Requests.                                                                *)

\* The server is loaded and SshConnection.connect begins.
Admit(r, k) ==
    /\ request[r].step = "idle"
    /\ request' = [request EXCEPT ![r] = [kind |-> k, step |-> "connecting"]]
    /\ UNCHANGED <<ticket, conns, audited, terminalVars>>

\* Ready, or an error or the timeout of 15 seconds: the client is ended.
ConnectRequest(r) ==
    /\ request[r].step = "connecting"
    /\ \/ /\ request' = [request EXCEPT ![r].step = "working"]
          /\ conns' = conns \cup {r}
       \/ /\ request' = [request EXCEPT ![r].step = "idle"]
          /\ UNCHANGED conns
    /\ UNCHANGED <<ticket, audited, terminalVars>>

\* The `finally` of withSsh, withSftp and the upload, however the work ended.
Finish(r) ==
    /\ conns' = conns \ {r}
    /\ request' = [request EXCEPT ![r].step = "idle"]

\* Logs, inspection and actions of containers and pods; an action that
\* succeeded is written to the audit log.
RunWorkload(r) ==
    /\ request[r].step = "working" /\ request[r].kind \in {"logs", "action"}
    /\ Finish(r)
    /\ audited' \in {audited, IF request[r].kind = "action" THEN audited \cup {r} ELSE audited}
    /\ UNCHANGED <<ticket, terminalVars>>

\* Listing, reading, writing, moving, copying and deleting files.
WorkOnFiles(r) ==
    /\ request[r].step = "working" /\ request[r].kind = "files"
    /\ Finish(r)
    /\ UNCHANGED <<ticket, audited, terminalVars>>

Upload(r) ==
    /\ request[r].step = "working" /\ request[r].kind = "upload"
    /\ Finish(r)
    /\ UNCHANGED <<ticket, audited, terminalVars>>

\* A download hands its connection to the stream it answers with; a directory
\* or an error ends it at once.
Download(r) ==
    /\ request[r].step = "working" /\ request[r].kind = "download"
    /\ \/ Finish(r)
       \/ /\ request' = [request EXCEPT ![r].step = "streaming"]
          /\ UNCHANGED conns
    /\ UNCHANGED <<ticket, audited, terminalVars>>

\* The stream closes or fails, whether the file or the client came to an end.
StreamEnds(r) ==
    /\ request[r].step = "streaming"
    /\ Finish(r)
    /\ UNCHANGED <<ticket, audited, terminalVars>>

-----------------------------------------------------------------------------
(* Terminals.                                                               *)

IssueTicket(t) ==
    /\ ticket[t] = "none"
    /\ ticket' = [ticket EXCEPT ![t] = "live"]
    /\ UNCHANGED <<request, conns, audited, terminalVars>>

\* A ticket lives for thirty seconds.
TicketExpires(t) ==
    /\ ticket[t] = "live"
    /\ ticket' = [ticket EXCEPT ![t] = "gone"]
    /\ UNCHANGED <<request, conns, audited, terminalVars>>

OpenSocket(s, t) ==
    /\ terminal[s].step = "none"
    /\ terminal' = [terminal EXCEPT ![s] = [ticket |-> t, step |-> "ticket", open |-> TRUE]]
    /\ UNCHANGED <<request, ticket, conns, audited, typed, pending, delivered, trimmed, abandoned>>

\* GETDEL: read and deleted in one command.
TicketTaken(t) == [ticket EXCEPT ![t] = "gone"]

TakeTicket(s) ==
    /\ terminal[s].step = "ticket"
    /\ ticket' = TicketTaken(terminal[s].ticket)
    /\ terminal' = [terminal EXCEPT ![s] =
                      IF ticket[@.ticket] = "live" THEN [@ EXCEPT !.step = "connecting"]
                      ELSE [@ EXCEPT !.step = "ended", !.open = FALSE]]
    /\ UNCHANGED <<request, conns, audited, typed, pending, delivered, trimmed, abandoned>>

\* The connection is made, whatever has become of the socket meanwhile.
ConnectTerminal(s) ==
    /\ terminal[s].step = "connecting"
    /\ conns' = conns \cup {s}
    /\ Advance(s, "shell")
    /\ UNCHANGED <<request, ticket, audited, typed, pending, delivered, trimmed, abandoned>>

\* The connection or the shell fails: the socket and the connection are closed.
TerminalFails(s) ==
    /\ terminal[s].step \in {"connecting", "shell"}
    /\ conns' = conns \ {s}
    /\ terminal' = [terminal EXCEPT ![s].step = "ended", ![s].open = FALSE]
    /\ UNCHANGED <<request, ticket, audited, typed, pending, delivered, trimmed, abandoned>>

\* The shell's callback: what was typed before goes first.
ShellOpens(s) ==
    /\ terminal[s].step = "shell" /\ s \in conns
    /\ Advance(s, "open")
    /\ delivered' = [delivered EXCEPT ![s] = pending[s]]
    /\ pending' = [pending EXCEPT ![s] = <<>>]
    /\ UNCHANGED <<request, ticket, conns, audited, typed, trimmed, abandoned>>

\* slice(0, 16_384): what goes beyond is dropped, and nobody is told.
Slice(input) == SubSeq(input, 1, IF Len(input) < Limit THEN Len(input) ELSE Limit)

\* A message with input: to the shell, or into the buffer until it opens.
Input(s, n) ==
    /\ terminal[s].open /\ typed[s] + n <= MaxInput
    /\ typed' = [typed EXCEPT ![s] = @ + n]
    /\ LET input == Slice([i \in 1..n |-> typed[s] + i])
       IN IF terminal[s].step = "open"
          THEN delivered' = [delivered EXCEPT ![s] = @ \o input] /\ UNCHANGED pending
          ELSE pending' = [pending EXCEPT ![s] = Slice(@ \o input)] /\ UNCHANGED delivered
    /\ trimmed' = IF n > Limit \/ (terminal[s].step # "open" /\ Len(pending[s]) + n > Limit)
                  THEN trimmed \cup {s} ELSE trimmed
    /\ UNCHANGED <<request, ticket, conns, audited, terminal, abandoned>>

\* (A close that leaves the connection to the remote side.)
KeptConnections(s) == conns

\* close(): the shell and the connection, if there is one by now.
ClosedConnections(s) == conns \ {s}

\* The socket closes: at the client's end, or because the shell has ended.  A
\* connection that is still being made is not there to be closed.
SocketCloses(s) ==
    /\ terminal[s].open
    /\ conns' = ClosedConnections(s)
    /\ terminal' = [terminal EXCEPT ![s].open = FALSE,
                                    ![s].step = IF @ \in {"shell", "open"} THEN "ended" ELSE @]
    /\ abandoned' = IF terminal[s].step \in {"ticket", "connecting"} THEN abandoned \cup {s} ELSE abandoned
    /\ UNCHANGED <<request, ticket, audited, typed, pending, delivered, trimmed>>

\* A message that cannot be read closes the socket (1003).
InvalidMessage(s) == SocketCloses(s)

-----------------------------------------------------------------------------
AccessInit ==
    /\ request = [r \in Request |-> [kind |-> "logs", step |-> "idle"]]
    /\ ticket = [t \in Ticket |-> "none"]
    /\ terminal = [s \in Socket |-> [ticket |-> CHOOSE t \in Ticket : TRUE, step |-> "none", open |-> FALSE]]
    /\ typed = [s \in Socket |-> 0]
    /\ pending = NoInput /\ delivered = NoInput
    /\ conns = {} /\ trimmed = {} /\ abandoned = {} /\ audited = {}

AccessNext ==
    \/ \E r \in Request : \/ \E k \in Kind : Admit(r, k)
                          \/ ConnectRequest(r) \/ RunWorkload(r) \/ WorkOnFiles(r)
                          \/ Upload(r) \/ Download(r) \/ StreamEnds(r)
    \/ \E t \in Ticket : IssueTicket(t) \/ TicketExpires(t)
    \/ \E s \in Socket : \/ \E t \in Ticket : OpenSocket(s, t)
                         \/ TakeTicket(s) \/ ConnectTerminal(s) \/ TerminalFails(s)
                         \/ \E n \in Length : Input(s, n)
                         \/ ShellOpens(s) \/ SocketCloses(s) \/ InvalidMessage(s)

AccessSpec == AccessInit /\ [][AccessNext]_accessVars

-----------------------------------------------------------------------------
\* Requests, tickets and terminals stay within their types.
AccessTypeOK ==
    /\ request \in [Request -> [kind : Kind, step : {"idle", "connecting", "working", "streaming"}]]
    /\ ticket \in [Ticket -> {"none", "live", "gone"}]
    /\ terminal \in [Socket -> [ticket : Ticket, open : BOOLEAN,
                        step : {"none", "ticket", "connecting", "shell", "open", "ended"}]]
    /\ typed \in [Socket -> 0..MaxInput]
    /\ \A s \in Socket : pending[s] \in Seq(1..MaxInput) /\ delivered[s] \in Seq(1..MaxInput)
    /\ conns \subseteq Request \cup Socket /\ trimmed \subseteq Socket /\ abandoned \subseteq Socket /\ audited \subseteq Request

\* Every open SSH connection belongs to a request at work, to a stream that is
\* being downloaded or to an open socket.  The exception is a socket that closed
\* before its connection was made: nothing ends that connection.
NoStrayConnection ==
    /\ \A r \in Request \cap conns : request[r].step \in {"working", "streaming"}
    /\ \A s \in Socket \cap conns : terminal[s].open \/ s \in abandoned

\* One ticket opens at most one terminal, however many sockets present it.
TicketOpensOneTerminal ==
    \A s, t \in Socket :
        /\ s # t /\ terminal[s].ticket = terminal[t].ticket
        /\ terminal[s].step \in {"connecting", "shell", "open"}
        => terminal[t].step \notin {"connecting", "shell", "open"}

\* The shell gets no piece of input twice and none before one typed earlier, those
\* typed before it opened included.  It gets them all, unless one message, or all that
\* was typed before it opened, is longer than 16 384 characters: the code drops the rest
\* without a word (access.ts:615-617).
InputInOrder ==
    \A s \in Socket : terminal[s].step = "open" =>
        /\ \A i, j \in DOMAIN delivered[s] : i < j => delivered[s][i] < delivered[s][j]
        /\ s \notin trimmed => delivered[s] = [i \in 1..typed[s] |-> i]

\* A ticket opens one terminal (TicketOpensOneTerminal), a terminal's connection
\* does not outlive it (NoStrayConnection), but for a socket that closes while the
\* connection is made, and its input arrives in order and, up to the limits, whole
\* (InputInOrder).
TerminalsAreSound == TicketOpensOneTerminal /\ NoStrayConnection /\ InputInOrder
=============================================================================
