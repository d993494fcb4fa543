---------------------------- MODULE AgentEnrollment ----------------------------
(***************************************************************************)
(* How an agent gets its identity and keeps it: pairing tokens             *)
(* (routes/servers.ts), Pair and RotateCertificate of the gateway          *)
(* (agent/internal/gateway) and the agent that calls them                  *)
(* (agent/internal/agent/runtime.go).                                      *)
(*                                                                         *)
(* The gateway accepts an agent by the serial number of its certificate,   *)
(* which it keeps with the identity of the server.  A call checks first    *)
(* and commits later; the agent waits fifteen seconds for the answer, and  *)
(* the gateway may commit a call nobody waits for.                         *)
(*                                                                         *)
(* A serial number is a number in order of issue; keys, capabilities and   *)
(* the limit on pairing attempts are left out.                             *)
(***************************************************************************)
EXTENDS Integers, Sequences, FiniteSets

CONSTANTS
    Site,          \* servers in agent mode
    SiteLimit,     \* servers the plan allows
    Issuer,        \* requests for a pairing token that may run at once
    Machine,       \* agents, by instance id
    MaxPairings,   \* bound: pairing tokens ever issued
    MaxSerials,    \* bound: certificates ever issued
    MaxCalls       \* bound: calls under way at once

ASSUME EnrollmentAssumption ==
    /\ "none" \notin Machine
    /\ SiteLimit \in Nat /\ MaxPairings \in Nat /\ MaxSerials \in Nat /\ MaxCalls \in Nat

VARIABLES
    sites,          \* servers there are
    pairingTokens,  \* rows of agent_pairing_tokens
    issuing,        \* issuer -> the token request under way
    identity,       \* server -> row of agent_identities
    agents,         \* machine -> token it was given, server and serial installed
    gatewayCalls,   \* calls of the gateway under way
    serials,        \* certificates issued so far
    uses,           \* history: identities each token has registered
    orphans         \* history: machines whose certificate was replaced without them

enrollmentVars == <<sites, pairingTokens, issuing, identity, agents, gatewayCalls, serials, uses, orphans>>

Tokens == DOMAIN pairingTokens
NotIssuing == [site |-> "none", seen |-> {}]
NoIdentity == [machine |-> "none", serial |-> 0]
LiveTokens(s) == {t \in Tokens : pairingTokens[t].site = s /\ pairingTokens[t].status = "live"}
Waiting(m) == {c \in gatewayCalls : c.machine = m /\ c.waiting}

-----------------------------------------------------------------------------
(* routes/servers.ts.                                                       *)

\* POST /servers: count and insert behind the workspace's advisory lock.
AddSite(s) ==
    /\ s \notin sites /\ Cardinality(sites) < SiteLimit
    /\ \A t \in Tokens : pairingTokens[t].site # s
    /\ sites' = sites \cup {s}
    /\ UNCHANGED <<pairingTokens, issuing, identity, agents, gatewayCalls, serials, uses, orphans>>

\* DELETE /servers/:id: its tokens and its identity go with it.
RemoveSite(s) ==
    /\ s \in sites
    /\ sites' = sites \ {s}
    /\ pairingTokens' = [t \in Tokens |-> IF pairingTokens[t].site = s
                            THEN [pairingTokens[t] EXCEPT !.status = "deleted"] ELSE pairingTokens[t]]
    /\ identity' = [identity EXCEPT ![s] = NoIdentity]
    /\ orphans' = orphans \cup ({identity[s].machine} \cap Machine)
    /\ UNCHANGED <<issuing, agents, gatewayCalls, serials, uses>>

\* POST /servers/:id/agent/pairing-token: the tokens there are when the UPDATE
\* starts are revoked, if they still may be when it gets to them; two requests do not
\* see each other's new token.
IssueBegin(i, s) ==
    /\ issuing[i] = NotIssuing /\ s \in sites
    /\ issuing' = [issuing EXCEPT ![i] = [site |-> s, seen |-> LiveTokens(s)]]
    /\ UNCHANGED <<sites, pairingTokens, identity, agents, gatewayCalls, serials, uses, orphans>>

IssueCommit(i) ==
    /\ issuing[i].site \in sites /\ Len(pairingTokens) < MaxPairings
    /\ pairingTokens' = Append([t \in Tokens |-> IF t \in issuing[i].seen /\ pairingTokens[t].status = "live"
                                    THEN [pairingTokens[t] EXCEPT !.status = "revoked"] ELSE pairingTokens[t]],
                               [site |-> issuing[i].site, status |-> "live"])
    /\ uses' = Append(uses, 0)
    /\ issuing' = [issuing EXCEPT ![i] = NotIssuing]
    /\ UNCHANGED <<sites, identity, agents, gatewayCalls, serials, orphans>>

\* The request or its process dies, or the server is gone: it is rolled back.
IssueFails(i) ==
    /\ issuing[i] # NotIssuing
    /\ issuing' = [issuing EXCEPT ![i] = NotIssuing]
    /\ UNCHANGED <<sites, pairingTokens, identity, agents, gatewayCalls, serials, uses, orphans>>

TokenExpires(t) ==
    /\ pairingTokens[t].status = "live"
    /\ pairingTokens' = [pairingTokens EXCEPT ![t].status = "expired"]
    /\ UNCHANGED <<sites, issuing, identity, agents, gatewayCalls, serials, uses, orphans>>

-----------------------------------------------------------------------------
(* The agent.                                                               *)

\* Somebody installs the agent on a machine, or sets it up anew, with a token.
GiveToken(m, t) ==
    /\ agents[m].serial = 0 /\ agents[m].token # t
    /\ agents' = [agents EXCEPT ![m].token = t]
    /\ UNCHANGED <<sites, pairingTokens, issuing, identity, gatewayCalls, serials, uses, orphans>>

\* pair and rotateCertificate: one call at a time; an agent that has a certificate
\* never pairs again.
CallGateway(m) ==
    /\ Waiting(m) = {} /\ Cardinality(gatewayCalls) < MaxCalls
    /\ agents[m].serial # 0 \/ agents[m].token # 0
    /\ gatewayCalls' = gatewayCalls \cup
          {[machine |-> m, kind |-> IF agents[m].serial = 0 THEN "pair" ELSE "rotate",
            token |-> agents[m].token, site |-> agents[m].site, old |-> agents[m].serial,
            stage |-> "sent", serial |-> 0, waiting |-> TRUE]}
    /\ UNCHANGED <<sites, pairingTokens, issuing, identity, agents, serials, uses, orphans>>

\* The call times out, the connection breaks or the agent restarts.  The gateway
\* goes on with a call it has not answered; an answer is lost.
GiveUp(c) ==
    /\ c \in gatewayCalls /\ c.waiting
    /\ gatewayCalls' = (gatewayCalls \ {c}) \cup
          IF c.stage = "answered" THEN {} ELSE {[c EXCEPT !.waiting = FALSE]}
    /\ orphans' = IF c.stage = "answered" THEN orphans \cup {c.machine} ELSE orphans
    /\ UNCHANGED <<sites, pairingTokens, issuing, identity, agents, serials, uses>>

\* InstallCertificate, and ClearPairingCredential.
InstallCertificate(c) ==
    /\ c \in gatewayCalls /\ c.waiting /\ c.stage = "answered"
    /\ gatewayCalls' = gatewayCalls \ {c}
    /\ agents' = [agents EXCEPT ![c.machine] = [token |-> 0, site |-> c.site, serial |-> c.serial]]
    /\ UNCHANGED <<sites, pairingTokens, issuing, identity, serials, uses, orphans>>

-----------------------------------------------------------------------------
(* The gateway.                                                             *)

\* The agent's token is live, and its server is there; or its certificate is the
\* one kept for its server.
Authorized(c) ==
    IF c.kind = "pair" THEN pairingTokens[c.token].status = "live"
    ELSE identity[c.site] = [machine |-> c.machine, serial |-> c.old]

\* (What was checked is not looked at again when it is committed.)
OnceAuthorized(c) == TRUE

\* The conditions of the UPDATEs: what was checked still holds at the commit.
StillAuthorized(c) == Authorized(c)

\* ValidatePairingToken, and AgentByID.
Check(c) ==
    /\ c \in gatewayCalls /\ c.stage = "sent" /\ Authorized(c)
    /\ gatewayCalls' = (gatewayCalls \ {c}) \cup
          {[c EXCEPT !.stage = "checked", !.site = IF c.kind = "pair" THEN pairingTokens[c.token].site ELSE @]}
    /\ UNCHANGED <<sites, pairingTokens, issuing, identity, agents, serials, uses, orphans>>

\* The check or the commit finds that the call may not be, or the database fails.
Refuse(c) ==
    /\ c \in gatewayCalls /\ c.stage \in {"sent", "checked"}
    /\ gatewayCalls' = gatewayCalls \ {c}
    /\ UNCHANGED <<sites, pairingTokens, issuing, identity, agents, serials, uses, orphans>>

\* The answer goes to the agent, if it is still waiting.
Answered(c) ==
    /\ serials < MaxSerials /\ serials' = serials + 1
    /\ identity' = [identity EXCEPT ![c.site] = [machine |-> c.machine, serial |-> serials']]
    /\ gatewayCalls' = (gatewayCalls \ {c}) \cup
          IF c.waiting THEN {[c EXCEPT !.stage = "answered", !.serial = serials']} ELSE {}

\* RegisterAgent: the token is used if it still may be, and the identity of its
\* server is this agent's from now on.  An instance has one identity at most.
RegisterAgent(c) ==
    /\ c \in gatewayCalls /\ c.stage = "checked" /\ c.kind = "pair"
    /\ StillAuthorized(c)
    /\ \A s \in Site \ {c.site} : identity[s].machine # c.machine
    /\ Answered(c)
    /\ pairingTokens' = [pairingTokens EXCEPT ![c.token].status = "used"]
    /\ uses' = [uses EXCEPT ![c.token] = @ + 1]
    /\ orphans' = (orphans \cup ({identity[c.site].machine} \cap Machine))
                     \ (IF c.waiting THEN {c.machine} ELSE {})
    /\ UNCHANGED <<sites, issuing, agents>>

\* RotateAgentCertificate.
RotateAgentCertificate(c) ==
    /\ c \in gatewayCalls /\ c.stage = "checked" /\ c.kind = "rotate"
    /\ StillAuthorized(c)
    /\ Answered(c)
    /\ orphans' = IF ~c.waiting /\ agents[c.machine].serial = c.old
                  THEN orphans \cup {c.machine} ELSE orphans
    /\ UNCHANGED <<sites, pairingTokens, issuing, agents, uses>>

-----------------------------------------------------------------------------
EnrollmentInit ==
    /\ sites = {} /\ pairingTokens = <<>> /\ uses = <<>>
    /\ issuing = [i \in Issuer |-> NotIssuing]
    /\ identity = [s \in Site |-> NoIdentity]
    /\ agents = [m \in Machine |-> [token |-> 0, site |-> "none", serial |-> 0]]
    /\ gatewayCalls = {} /\ serials = 0 /\ orphans = {}

EnrollmentNext ==
    \/ \E s \in Site : AddSite(s) \/ RemoveSite(s)
    \/ \E i \in Issuer : \/ \E s \in Site : IssueBegin(i, s)
                         \/ IssueCommit(i) \/ IssueFails(i)
    \/ \E t \in Tokens : TokenExpires(t) \/ \E m \in Machine : GiveToken(m, t)
    \/ \E m \in Machine : CallGateway(m)
    \/ \E c \in gatewayCalls : \/ GiveUp(c) \/ InstallCertificate(c) \/ Check(c) \/ Refuse(c)
                        \/ RegisterAgent(c) \/ RotateAgentCertificate(c)

EnrollmentSpec == EnrollmentInit /\ [][EnrollmentNext]_enrollmentVars

-----------------------------------------------------------------------------
\* Rows, agents and calls stay within their types.
EnrollmentTypeOK ==
    /\ sites \subseteq Site /\ serials \in 0..MaxSerials /\ orphans \subseteq Machine
    /\ pairingTokens \in Seq([site : Site, status : {"live", "used", "revoked", "expired", "deleted"}])
    /\ Len(pairingTokens) <= MaxPairings /\ uses \in [Tokens -> 0..MaxSerials]
    /\ issuing \in [Issuer -> [site : Site \cup {"none"}, seen : SUBSET Tokens]]
    /\ identity \in [Site -> [machine : Machine \cup {"none"}, serial : 0..MaxSerials]]
    /\ agents \in [Machine -> [token : 0..MaxPairings, site : Site \cup {"none"}, serial : 0..MaxSerials]]
    /\ gatewayCalls \subseteq [machine : Machine, kind : {"pair", "rotate"}, token : 0..MaxPairings,
                        site : Site \cup {"none"}, old : 0..MaxSerials,
                        stage : {"sent", "checked", "answered"}, serial : 0..MaxSerials, waiting : BOOLEAN]

\* "One-time token": however calls are repeated, given up and answered late, a
\* pairing token registers one agent at most (RegisterAgent's conditional UPDATE).
TokensPairOnce == \A t \in Tokens : uses[t] <= 1

\* The gateway knows every agent by the certificate it has installed, or is on
\* the way to it with the next one, whatever calls of it are still under way.
\* Left out are those whose certificate was replaced without them: their server
\* was removed or paired anew, or the answer to a rotation was lost - such an
\* agent is refused from then on (runtime.go:216).
AgentsAreKnown ==
    \A m \in Machine \ orphans :
        agents[m].serial # 0 =>
            LET row == identity[agents[m].site]
            IN /\ row.machine = m
               /\ row.serial \in {agents[m].serial} \cup {c.serial : c \in Waiting(m)}

\* Tokens and agents: TokensPairOnce and AgentsAreKnown.
EnrollmentIsSound == TokensPairOnce /\ AgentsAreKnown
=============================================================================
