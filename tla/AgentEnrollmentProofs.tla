------------------------ MODULE AgentEnrollmentProofs ------------------------
(***************************************************************************)
(* Proofs about the enrollment of agents, for any servers, machines,       *)
(* tokens, certificates and calls under way: a pairing token registers one *)
(* agent at most, and an agent whose certificate was not replaced without  *)
(* it is known by the one it has, or by the next one that is on its way.   *)
(***************************************************************************)
EXTENDS AgentEnrollment, TLAPS

PairingRow == [site : Site, status : {"live", "used", "revoked", "expired", "deleted"}]
GatewayCallRow == [machine : Machine, kind : {"pair", "rotate"}, token : Nat, site : Site \cup {"none"},
            old : Nat, stage : {"sent", "checked", "answered"}, serial : Nat, waiting : BOOLEAN]

\* Types, as far as the proofs need them.
Shaped ==
    /\ sites \subseteq Site /\ serials \in Nat
    /\ pairingTokens \in Seq(PairingRow)
    /\ identity \in [Site -> [machine : Machine \cup {"none"}, serial : Nat]]
    /\ agents \in [Machine -> [token : Nat, site : Site \cup {"none"}, serial : Nat]]
    /\ gatewayCalls \subseteq GatewayCallRow

\* A token that may still be used has not been used, and those that agents and calls
\* name were issued.
TokensKept ==
    /\ uses \in Seq(Nat) /\ Len(uses) = Len(pairingTokens)
    /\ \A t \in Tokens : uses[t] = 0 \/ (uses[t] = 1 /\ pairingTokens[t].status # "live")
    /\ \A m \in Machine : agents[m].token \in 0..Len(pairingTokens)
    /\ \A c \in gatewayCalls : c.kind = "pair" => c.token \in 1..Len(pairingTokens)

\* A machine waits for one call, made with what the machine has now; calls of a machine
\* whose answer is on its way were made with an older certificate than it brings.
CallsMatch ==
    /\ \A c, d \in gatewayCalls : c.waiting /\ d.waiting /\ c.machine = d.machine => c = d
    /\ \A c \in gatewayCalls : /\ c.kind = "rotate" \/ c.stage # "sent" => c.site \in Site
                               /\ c.old <= serials /\ c.serial <= serials
    /\ \A c \in gatewayCalls : c.waiting =>
          IF c.kind = "pair" THEN agents[c.machine].serial = 0
          ELSE agents[c.machine].serial = c.old /\ agents[c.machine].site = c.site
    /\ \A c, d \in gatewayCalls :
          c.waiting /\ c.stage = "answered" /\ d.machine = c.machine => d.old < c.serial
    /\ \A m \in Machine : /\ agents[m].serial <= serials
                          /\ agents[m].serial # 0 => agents[m].site \in Site

\* An instance has one identity; an answer on its way brings the certificate the
\* gateway keeps, and what an agent has installed is that one or the one before.
IdentitiesMatch ==
    /\ \A r, s \in Site : r # s /\ identity[r].machine = identity[s].machine
                            => identity[r].machine = "none"
    /\ \A c \in gatewayCalls : c.waiting /\ c.stage = "answered" /\ c.machine \notin orphans =>
          identity[c.site].machine = c.machine /\ identity[c.site].serial = c.serial
    /\ \A m \in Machine \ orphans : agents[m].serial # 0 =>
          /\ identity[agents[m].site].machine = m
          /\ \/ identity[agents[m].site].serial = agents[m].serial
             \/ \E c \in gatewayCalls : /\ c.machine = m /\ c.waiting /\ c.stage = "answered"
                                        /\ identity[agents[m].site].serial = c.serial

EnrollmentInv == Shaped /\ TokensKept /\ CallsMatch /\ IdentitiesMatch

LEMMA InvIsSound == EnrollmentInv => EnrollmentIsSound
<1> SUFFICES ASSUME EnrollmentInv PROVE TokensPairOnce /\ AgentsAreKnown
  BY DEF EnrollmentIsSound
<1>1. TokensPairOnce
  BY DEF EnrollmentInv, TokensKept, TokensPairOnce
<1>2. AgentsAreKnown
  BY DEF EnrollmentInv, IdentitiesMatch, AgentsAreKnown, Waiting
<1> QED BY <1>1, <1>2

LEMMA InitInv == EnrollmentInit => EnrollmentInv
<1> SUFFICES ASSUME EnrollmentInit PROVE EnrollmentInv
  OBVIOUS
<1>1. Shaped
  BY DEF EnrollmentInit, Shaped, NoIdentity
<1>2. TokensKept /\ CallsMatch /\ IdentitiesMatch
  BY DEF EnrollmentInit, TokensKept, CallsMatch, IdentitiesMatch, NoIdentity, Tokens
<1> QED BY <1>1, <1>2 DEF EnrollmentInv

-----------------------------------------------------------------------------
(* Servers and tokens.                                                      *)

\* Neither calls nor identities change, nor what the agents have installed.
LEMMA RowsKeep ==
  ASSUME EnrollmentInv, sites' \subseteq Site, pairingTokens' \in Seq(PairingRow),
         uses' \in Seq(Nat), Len(uses') = Len(pairingTokens'), Len(pairingTokens') >= Len(pairingTokens),
         \A t \in Tokens' : uses'[t] = 0 \/ (uses'[t] = 1 /\ pairingTokens'[t].status # "live"),
         agents' \in [Machine -> [token : Nat, site : Site \cup {"none"}, serial : Nat]],
         \A m \in Machine : /\ agents'[m].token \in 0..Len(pairingTokens')
                            /\ agents'[m].site = agents[m].site /\ agents'[m].serial = agents[m].serial,
         identity' = identity, gatewayCalls' = gatewayCalls, serials' = serials, orphans' = orphans
  PROVE  EnrollmentInv'
<1> USE DEF EnrollmentInv
<1>1. Shaped'
  BY DEF Shaped
<1>2. TokensKept'
  <2>1. Len(pairingTokens) \in Nat /\ Len(pairingTokens') \in Nat
    BY DEF Shaped
  <2> QED BY <2>1 DEF TokensKept
<1>3. CallsMatch'
  <2>1. \A c \in gatewayCalls : c.machine \in Machine
    BY DEF Shaped, GatewayCallRow
  <2> QED BY <2>1 DEF CallsMatch
<1>4. IdentitiesMatch'
  BY DEF IdentitiesMatch
<1> QED BY <1>1, <1>2, <1>3, <1>4

LEMMA AddSiteKeeps ==
  ASSUME EnrollmentInv, NEW s \in Site, AddSite(s)
  PROVE  EnrollmentInv'
<1>1. sites' \subseteq Site
  BY DEF AddSite, EnrollmentInv, Shaped
<1> QED BY <1>1, RowsKeep DEF AddSite, EnrollmentInv, Shaped, TokensKept, Tokens

LEMMA IssueKeeps ==
  ASSUME EnrollmentInv, NEW i \in Issuer, IssueCommit(i)
  PROVE  EnrollmentInv'
<1> DEFINE rows == [t \in Tokens |-> IF t \in issuing[i].seen /\ pairingTokens[t].status = "live"
                                     THEN [pairingTokens[t] EXCEPT !.status = "revoked"] ELSE pairingTokens[t]]
           new == [site |-> issuing[i].site, status |-> "live"]
<1>1. pairingTokens' = Append(rows, new) /\ uses' = Append(uses, 0) /\ issuing[i].site \in sites
      /\ UNCHANGED <<sites, identity, agents, gatewayCalls, serials, orphans>>
  BY DEF IssueCommit
<1>2. /\ pairingTokens \in Seq(PairingRow) /\ uses \in Seq(Nat) /\ Len(uses) = Len(pairingTokens)
      /\ Len(pairingTokens) \in Nat /\ Tokens = 1..Len(pairingTokens) /\ sites \subseteq Site
      /\ \A t \in Tokens : pairingTokens[t] \in PairingRow
  BY DEF EnrollmentInv, Shaped, TokensKept, Tokens
<1>3. new \in PairingRow
  BY <1>1, <1>2 DEF PairingRow
<1>4. \A t \in Tokens : rows[t] \in PairingRow /\ (rows[t].status = "live" => pairingTokens[t].status = "live")
  <2> TAKE t \in Tokens
  <2>1. pairingTokens[t] \in PairingRow
    BY <1>2
  <2>2. [pairingTokens[t] EXCEPT !.status = "revoked"] \in PairingRow
        /\ [pairingTokens[t] EXCEPT !.status = "revoked"].status = "revoked"
    BY <2>1 DEF PairingRow
  <2> QED BY <2>1, <2>2
<1>5. rows \in Seq(PairingRow) /\ Len(rows) = Len(pairingTokens)
  <2>1. rows \in [1..Len(pairingTokens) -> PairingRow]
    BY <1>2, <1>4
  <2> HIDE DEF rows
  <2> QED BY <1>2, <2>1
<1> HIDE DEF rows, new
<1>6. /\ pairingTokens' \in Seq(PairingRow) /\ Len(pairingTokens') = Len(pairingTokens) + 1
      /\ uses' \in Seq(Nat) /\ Len(uses') = Len(pairingTokens) + 1
      /\ uses'[Len(pairingTokens) + 1] = 0
      /\ \A t \in Tokens : pairingTokens'[t] = rows[t] /\ uses'[t] = uses[t]
  BY <1>1, <1>2, <1>3, <1>5
<1>7. \A t \in Tokens' : uses'[t] = 0 \/ (uses'[t] = 1 /\ pairingTokens'[t].status # "live")
  <2>1. Tokens' = Tokens \cup {Len(pairingTokens) + 1}
    BY <1>2, <1>6 DEF Tokens
  <2>2. \A t \in Tokens : uses[t] = 0 \/ (uses[t] = 1 /\ pairingTokens[t].status # "live")
    BY DEF EnrollmentInv, TokensKept
  <2> QED BY <1>4, <1>6, <2>1, <2>2
<1>8. \A m \in Machine : agents[m].token \in 0..Len(pairingTokens')
  BY <1>2, <1>6 DEF EnrollmentInv, TokensKept
<1>9. agents' \in [Machine -> [token : Nat, site : Site \cup {"none"}, serial : Nat]] /\ sites' \subseteq Site
  BY <1>1, <1>2 DEF EnrollmentInv, Shaped
<1>10. /\ Len(uses') = Len(pairingTokens') /\ Len(pairingTokens') >= Len(pairingTokens)
       /\ \A m \in Machine : /\ agents'[m].token \in 0..Len(pairingTokens')
                             /\ agents'[m].site = agents[m].site /\ agents'[m].serial = agents[m].serial
  BY <1>1, <1>2, <1>6, <1>8
<1> QED BY <1>1, <1>6, <1>7, <1>9, <1>10, RowsKeep

LEMMA ExpiryKeeps ==
  ASSUME EnrollmentInv, NEW t \in Tokens, TokenExpires(t)
  PROVE  EnrollmentInv'
<1> DEFINE row == [pairingTokens[t] EXCEPT !.status = "expired"]
<1>1. pairingTokens' = [pairingTokens EXCEPT ![t] = row]
      /\ UNCHANGED <<sites, identity, agents, gatewayCalls, serials, uses, orphans>>
  BY DEF TokenExpires
<1>2. /\ pairingTokens \in Seq(PairingRow) /\ pairingTokens[t] \in PairingRow
      /\ uses \in Seq(Nat) /\ Len(uses) = Len(pairingTokens) /\ sites \subseteq Site
      /\ \A u \in Tokens : uses[u] = 0 \/ (uses[u] = 1 /\ pairingTokens[u].status # "live")
      /\ agents \in [Machine -> [token : Nat, site : Site \cup {"none"}, serial : Nat]]
      /\ \A m \in Machine : agents[m].token \in 0..Len(pairingTokens)
  BY DEF EnrollmentInv, Shaped, TokensKept, Tokens
<1>3. row \in PairingRow /\ row.status = "expired"
  BY <1>2 DEF PairingRow
<1> HIDE DEF row
<1>4. pairingTokens' \in Seq(PairingRow) /\ Len(pairingTokens') = Len(pairingTokens) /\ Tokens' = Tokens
      /\ \A u \in Tokens : pairingTokens'[u] = IF u = t THEN row ELSE pairingTokens[u]
  BY <1>1, <1>2, <1>3 DEF Tokens
<1>5. \A u \in Tokens' : uses'[u] = 0 \/ (uses'[u] = 1 /\ pairingTokens'[u].status # "live")
  BY <1>1, <1>2, <1>3, <1>4
<1>6. Len(pairingTokens) \in Nat
  BY <1>2
<1> QED BY <1>1, <1>2, <1>4, <1>5, <1>6, RowsKeep

LEMMA GiveTokenKeeps ==
  ASSUME EnrollmentInv, NEW m \in Machine, NEW t \in Tokens, GiveToken(m, t)
  PROVE  EnrollmentInv'
<1>1. agents' = [agents EXCEPT ![m].token = t]
      /\ UNCHANGED <<sites, pairingTokens, identity, gatewayCalls, serials, uses, orphans>>
  BY DEF GiveToken
<1>2. /\ pairingTokens \in Seq(PairingRow) /\ Tokens = 1..Len(pairingTokens) /\ Len(pairingTokens) \in Nat
      /\ agents \in [Machine -> [token : Nat, site : Site \cup {"none"}, serial : Nat]]
      /\ \A n \in Machine : agents[n].token \in 0..Len(pairingTokens)
  BY DEF EnrollmentInv, Shaped, TokensKept, Tokens
<1>3. agents' \in [Machine -> [token : Nat, site : Site \cup {"none"}, serial : Nat]]
      /\ \A n \in Machine : /\ agents'[n].token \in 0..Len(pairingTokens)
                            /\ agents'[n].site = agents[n].site /\ agents'[n].serial = agents[n].serial
  BY <1>1, <1>2
<1>4. /\ sites' \subseteq Site /\ pairingTokens' \in Seq(PairingRow) /\ uses' \in Seq(Nat)
      /\ Len(uses') = Len(pairingTokens') /\ Len(pairingTokens') >= Len(pairingTokens)
      /\ \A u \in Tokens' : uses'[u] = 0 \/ (uses'[u] = 1 /\ pairingTokens'[u].status # "live")
  BY <1>1, <1>2 DEF EnrollmentInv, Shaped, TokensKept, Tokens
<1>5. \A n \in Machine : /\ agents'[n].token \in 0..Len(pairingTokens')
                         /\ agents'[n].site = agents[n].site /\ agents'[n].serial = agents[n].serial
  BY <1>1, <1>3
<1> QED BY <1>1, <1>3, <1>4, <1>5, RowsKeep

\* A server takes its tokens and its identity with it: its agent is replaced.
LEMMA RemoveSiteKeeps ==
  ASSUME EnrollmentInv, NEW s \in Site, RemoveSite(s)
  PROVE  EnrollmentInv'
<1> USE DEF EnrollmentInv
<1>1. /\ sites' = sites \ {s} /\ identity' = [identity EXCEPT ![s] = NoIdentity]
      /\ orphans' = orphans \cup ({identity[s].machine} \cap Machine)
      /\ agents' = agents /\ gatewayCalls' = gatewayCalls /\ serials' = serials /\ uses' = uses
      /\ pairingTokens' = [t \in Tokens |-> IF pairingTokens[t].site = s
                             THEN [pairingTokens[t] EXCEPT !.status = "deleted"] ELSE pairingTokens[t]]
  BY DEF RemoveSite
<1>2. pairingTokens \in Seq(PairingRow) /\ Tokens = 1..Len(pairingTokens) /\ Len(pairingTokens) \in Nat
  BY DEF Shaped, Tokens
<1>3. \A t \in Tokens : pairingTokens'[t] \in PairingRow
          /\ (pairingTokens'[t].status = "live" => pairingTokens[t].status = "live")
  <2> TAKE t \in Tokens
  <2>1. pairingTokens[t] \in PairingRow
    BY <1>2
  <2>2. [pairingTokens[t] EXCEPT !.status = "deleted"] \in PairingRow
        /\ [pairingTokens[t] EXCEPT !.status = "deleted"].status = "deleted"
    BY <2>1 DEF PairingRow
  <2> QED BY <1>1, <2>1, <2>2
<1>4. pairingTokens' \in Seq(PairingRow) /\ Len(pairingTokens') = Len(pairingTokens) /\ Tokens' = Tokens
  <2>1. pairingTokens' \in [1..Len(pairingTokens) -> PairingRow]
    BY <1>1, <1>2, <1>3
  <2> QED BY <1>2, <2>1 DEF Tokens
<1>5. NoIdentity \in [machine : Machine \cup {"none"}, serial : Nat] /\ NoIdentity.machine = "none"
  BY DEF NoIdentity
<1>6. /\ identity' \in [Site -> [machine : Machine \cup {"none"}, serial : Nat]]
      /\ identity'[s].machine = "none" /\ \A r \in Site \ {s} : identity'[r] = identity[r]
  BY <1>1, <1>5 DEF Shaped
<1>7. Shaped'
  BY <1>1, <1>4, <1>6 DEF Shaped
<1>8. TokensKept'
  BY <1>1, <1>3, <1>4 DEF TokensKept
<1>9. CallsMatch'
  BY <1>1 DEF CallsMatch
<1>10. IdentitiesMatch'
  <2>1. \A c \in gatewayCalls : c.machine \in Machine /\ (c.stage = "answered" => c.site \in Site)
    BY DEF Shaped, GatewayCallRow, CallsMatch
  <2>2. \A m \in Machine : agents[m].serial # 0 => agents[m].site \in Site
    BY DEF CallsMatch
  <2>3. \A r, q \in Site : r # q /\ identity'[r].machine = identity'[q].machine => identity'[r].machine = "none"
    BY <1>6 DEF IdentitiesMatch
  <2>4. \A c \in gatewayCalls : c.waiting /\ c.stage = "answered" /\ c.machine \notin orphans' =>
           identity'[c.site].machine = c.machine /\ identity'[c.site].serial = c.serial
    BY <1>1, <1>6, <2>1 DEF IdentitiesMatch
  <2>5. ASSUME NEW m \in Machine \ orphans', agents[m].serial # 0
        PROVE  agents[m].site \in Site \ {s} /\ m \notin orphans
    BY <1>1, <2>2, <2>5 DEF IdentitiesMatch
  <2> QED BY <1>1, <1>6, <2>3, <2>4, <2>5 DEF IdentitiesMatch
<1> QED BY <1>7, <1>8, <1>9, <1>10

-----------------------------------------------------------------------------
(* Calls.                                                                   *)

\* Calls end, or wait no more and keep what they were made with; no answer goes that
\* a known agent needs.
LEMMA FewerCallsKeep ==
  ASSUME EnrollmentInv, NEW c \in gatewayCalls, NEW left \in SUBSET GatewayCallRow,
         gatewayCalls' = (gatewayCalls \ {c}) \cup left,
         \A d \in left : /\ ~d.waiting /\ d.machine = c.machine /\ d.kind = c.kind /\ d.token = c.token
                         /\ d.site = c.site /\ d.old = c.old /\ d.serial = c.serial /\ d.stage = c.stage,
         c.stage = "answered" => c.machine \in orphans', orphans \subseteq orphans',
         UNCHANGED <<sites, pairingTokens, identity, agents, serials, uses>>
  PROVE  EnrollmentInv'
<1> USE DEF EnrollmentInv
<1>1. Shaped'
  BY DEF Shaped
<1>2. TokensKept'
  BY DEF TokensKept, Tokens
<1>3. \A d \in gatewayCalls' : d.waiting => d \in gatewayCalls
  OBVIOUS
<1>4. CallsMatch'
  <2>1. \A d, e \in gatewayCalls' : d.waiting /\ e.waiting /\ d.machine = e.machine => d = e
    BY <1>3 DEF CallsMatch
  <2>2. \A d \in gatewayCalls' : /\ d.kind = "rotate" \/ d.stage # "sent" => d.site \in Site
                                 /\ d.old <= serials /\ d.serial <= serials
    BY DEF CallsMatch
  <2>3. \A d, e \in gatewayCalls' :
          d.waiting /\ d.stage = "answered" /\ e.machine = d.machine => e.old < d.serial
    BY <1>3 DEF CallsMatch
  <2> QED BY <1>3, <2>1, <2>2, <2>3 DEF CallsMatch
<1>5. IdentitiesMatch'
  <2>1. \A d \in gatewayCalls' : d.waiting /\ d.stage = "answered" /\ d.machine \notin orphans' =>
           identity[d.site].machine = d.machine /\ identity[d.site].serial = d.serial
    BY <1>3 DEF IdentitiesMatch
  <2>2. \A d \in gatewayCalls : d.stage = "answered" /\ d.machine \notin orphans' => d \in gatewayCalls'
    OBVIOUS
  <2>3. ASSUME NEW m \in Machine \ orphans', agents[m].serial # 0
        PROVE  /\ identity[agents[m].site].machine = m
               /\ \/ identity[agents[m].site].serial = agents[m].serial
                  \/ \E d \in gatewayCalls' : /\ d.machine = m /\ d.waiting /\ d.stage = "answered"
                                              /\ identity[agents[m].site].serial = d.serial
    BY <2>2, <2>3 DEF IdentitiesMatch
  <2> QED BY <2>1, <2>3 DEF IdentitiesMatch
<1> QED BY <1>1, <1>2, <1>4, <1>5

LEMMA GiveUpKeeps ==
  ASSUME EnrollmentInv, NEW c \in gatewayCalls, GiveUp(c) \/ Refuse(c)
  PROVE  EnrollmentInv'
<1>0. c \in GatewayCallRow
  BY DEF EnrollmentInv, Shaped
<1>1. CASE Refuse(c)
  <2>1. gatewayCalls' = (gatewayCalls \ {c}) \cup {} /\ c.stage # "answered" /\ orphans' = orphans
        /\ UNCHANGED <<sites, pairingTokens, identity, agents, serials, uses>>
    BY <1>1 DEF Refuse
  <2> DEFINE left == {}
  <2>2. left \in SUBSET GatewayCallRow /\ gatewayCalls' = (gatewayCalls \ {c}) \cup left
    BY <2>1
  <2>3. \A d \in left : FALSE
    OBVIOUS
  <2> HIDE DEF left
  <2> QED BY <2>1, <2>2, <2>3, FewerCallsKeep
<1>2. CASE GiveUp(c)
  <2> DEFINE d == [c EXCEPT !.waiting = FALSE]
             left == IF c.stage = "answered" THEN {} ELSE {d}
  <2>1. d \in GatewayCallRow /\ ~d.waiting /\ d.machine = c.machine /\ d.kind = c.kind /\ d.token = c.token
        /\ d.site = c.site /\ d.old = c.old /\ d.serial = c.serial /\ d.stage = c.stage
    BY <1>0 DEF GatewayCallRow
  <2>2. gatewayCalls' = (gatewayCalls \ {c}) \cup left
        /\ orphans' = (IF c.stage = "answered" THEN orphans \cup {c.machine} ELSE orphans)
        /\ UNCHANGED <<sites, pairingTokens, identity, agents, serials, uses>>
    BY <1>2 DEF GiveUp
  <2> HIDE DEF d
  <2>3. left \in SUBSET GatewayCallRow /\ \A e \in left : e = d
    BY <2>1
  <2> HIDE DEF left
  <2>4. (c.stage = "answered" => c.machine \in orphans') /\ orphans \subseteq orphans'
    BY <2>2
  <2> QED BY <2>1, <2>2, <2>3, <2>4, FewerCallsKeep
<1> QED BY <1>1, <1>2

\* The gateway looks a call up: a pairing call gets the server of its token.
LEMMA CheckKeeps ==
  ASSUME EnrollmentInv, NEW c \in gatewayCalls, Check(c)
  PROVE  EnrollmentInv'
<1> USE DEF EnrollmentInv
<1> DEFINE d == [c EXCEPT !.stage = "checked", !.site = IF c.kind = "pair" THEN pairingTokens[c.token].site ELSE @]
<1>0. c \in GatewayCallRow /\ c.stage = "sent" /\ (c.kind = "pair" => pairingTokens[c.token].site \in Site)
  <2>1. c.kind = "pair" => pairingTokens[c.token] \in PairingRow
    BY DEF Shaped, TokensKept
  <2> QED BY <2>1 DEF Check, Shaped, PairingRow
<1>1. /\ d \in GatewayCallRow /\ d.machine = c.machine /\ d.kind = c.kind /\ d.token = c.token /\ d.old = c.old
      /\ d.serial = c.serial /\ d.waiting = c.waiting /\ d.stage = "checked"
      /\ d.site = IF c.kind = "pair" THEN pairingTokens[c.token].site ELSE c.site
  BY <1>0 DEF GatewayCallRow
<1>2. gatewayCalls' = (gatewayCalls \ {c}) \cup {d}
      /\ UNCHANGED <<sites, pairingTokens, identity, agents, serials, uses, orphans>>
  BY DEF Check
<1> HIDE DEF d
<1>3. Shaped'
  BY <1>1, <1>2 DEF Shaped
<1>4. TokensKept'
  BY <1>1, <1>2 DEF TokensKept, Tokens
<1>5. CallsMatch'
  <2>1. \A a, b \in gatewayCalls' : a.waiting /\ b.waiting /\ a.machine = b.machine => a = b
    BY <1>1, <1>2 DEF CallsMatch
  <2>2. \A a \in gatewayCalls' : /\ a.kind = "rotate" \/ a.stage # "sent" => a.site \in Site
                                 /\ a.old <= serials /\ a.serial <= serials
    <3>1. c.kind \in {"pair", "rotate"} /\ (c.kind = "rotate" => c.site \in Site)
      BY <1>0 DEF GatewayCallRow, CallsMatch
    <3> QED BY <1>0, <1>1, <1>2, <3>1 DEF CallsMatch
  <2>3. \A a \in gatewayCalls' : a.waiting =>
          IF a.kind = "pair" THEN agents[a.machine].serial = 0
          ELSE agents[a.machine].serial = a.old /\ agents[a.machine].site = a.site
    BY <1>1, <1>2 DEF CallsMatch
  <2>4. \A a, b \in gatewayCalls' :
          a.waiting /\ a.stage = "answered" /\ b.machine = a.machine => b.old < a.serial
    BY <1>1, <1>2 DEF CallsMatch
  <2> QED BY <1>2, <2>1, <2>2, <2>3, <2>4 DEF CallsMatch
<1>6. IdentitiesMatch'
  <2>1. \A a \in gatewayCalls' : a.stage = "answered" => a \in gatewayCalls
    BY <1>1, <1>2
  <2>2. \A a \in gatewayCalls : a.stage = "answered" => a \in gatewayCalls'
    BY <1>0, <1>2
  <2> QED BY <1>2, <2>1, <2>2 DEF IdentitiesMatch
<1> QED BY <1>3, <1>4, <1>5, <1>6

\* A machine that waits for nothing calls.
LEMMA CallGatewayKeeps ==
  ASSUME EnrollmentInv, NEW m \in Machine, CallGateway(m)
  PROVE  EnrollmentInv'
<1> USE DEF EnrollmentInv
<1> DEFINE d == [machine |-> m, kind |-> IF agents[m].serial = 0 THEN "pair" ELSE "rotate",
                 token |-> agents[m].token, site |-> agents[m].site, old |-> agents[m].serial,
                 stage |-> "sent", serial |-> 0, waiting |-> TRUE]
<1>0. agents[m] \in [token : Nat, site : Site \cup {"none"}, serial : Nat] /\ serials \in Nat
  BY DEF Shaped
<1>1. /\ d \in GatewayCallRow /\ d.machine = m /\ d.waiting /\ d.stage = "sent" /\ d.serial = 0
      /\ d.old = agents[m].serial /\ d.site = agents[m].site /\ d.token = agents[m].token
      /\ d.kind = IF agents[m].serial = 0 THEN "pair" ELSE "rotate"
  BY <1>0 DEF GatewayCallRow
<1>2. /\ gatewayCalls' = gatewayCalls \cup {d} /\ (\A c \in gatewayCalls : c.machine = m => ~c.waiting)
      /\ (agents[m].serial # 0 \/ agents[m].token # 0)
      /\ UNCHANGED <<sites, pairingTokens, identity, agents, serials, uses, orphans>>
  BY DEF CallGateway, Waiting
<1> HIDE DEF d
<1>3. Shaped'
  BY <1>1, <1>2 DEF Shaped
<1>4. TokensKept'
  <2>1. agents[m].token \in 0..Len(pairingTokens) /\ Len(pairingTokens) \in Nat
    BY DEF TokensKept, Shaped
  <2>2. d.kind = "pair" => d.token \in 1..Len(pairingTokens)
    BY <1>1, <1>2, <2>1
  <2> QED BY <1>2, <2>2 DEF TokensKept, Tokens
<1>5. CallsMatch'
  <2>1. \A a, b \in gatewayCalls' : a.waiting /\ b.waiting /\ a.machine = b.machine => a = b
    BY <1>1, <1>2 DEF CallsMatch
  <2>2. \A a \in gatewayCalls' : /\ a.kind = "rotate" \/ a.stage # "sent" => a.site \in Site
                                 /\ a.old <= serials /\ a.serial <= serials
    <3>1. agents[m].serial <= serials /\ (agents[m].serial # 0 => agents[m].site \in Site)
      BY DEF CallsMatch
    <3>2. d.old <= serials /\ d.serial <= serials /\ (d.kind = "rotate" \/ d.stage # "sent" => d.site \in Site)
      BY <1>0, <1>1, <3>1
    <3> QED BY <1>2, <3>2 DEF CallsMatch
  <2>3. \A a \in gatewayCalls' : a.waiting =>
          IF a.kind = "pair" THEN agents[a.machine].serial = 0
          ELSE agents[a.machine].serial = a.old /\ agents[a.machine].site = a.site
    BY <1>1, <1>2 DEF CallsMatch
  <2>4. \A a, b \in gatewayCalls' :
          a.waiting /\ a.stage = "answered" /\ b.machine = a.machine => b.old < a.serial
    BY <1>1, <1>2 DEF CallsMatch
  <2> QED BY <1>2, <2>1, <2>2, <2>3, <2>4 DEF CallsMatch
<1>6. IdentitiesMatch'
  <2>1. \A a \in gatewayCalls' : a.stage = "answered" => a \in gatewayCalls
    BY <1>1, <1>2
  <2> QED BY <1>2, <2>1 DEF IdentitiesMatch
<1> QED BY <1>3, <1>4, <1>5, <1>6

\* The agent installs what it waited for: the certificate the gateway keeps.
LEMMA InstallKeeps ==
  ASSUME EnrollmentInv, NEW c \in gatewayCalls, InstallCertificate(c)
  PROVE  EnrollmentInv'
<1> USE DEF EnrollmentInv
<1> DEFINE agent == [token |-> 0, site |-> c.site, serial |-> c.serial]
<1>0. /\ c \in GatewayCallRow /\ c.waiting /\ c.stage = "answered" /\ c.site \in Site /\ c.machine \in Machine
      /\ c.serial \in Nat /\ c.serial <= serials
  BY DEF Shaped, GatewayCallRow, CallsMatch, InstallCertificate
<1>1. /\ gatewayCalls' = gatewayCalls \ {c} /\ agents' = [agents EXCEPT ![c.machine] = agent]
      /\ UNCHANGED <<sites, pairingTokens, identity, serials, uses, orphans>>
  BY DEF InstallCertificate
<1>2. agent \in [token : Nat, site : Site \cup {"none"}, serial : Nat]
      /\ agent.token = 0 /\ agent.site = c.site /\ agent.serial = c.serial
  BY <1>0
<1> HIDE DEF agent
<1>3. /\ agents' \in [Machine -> [token : Nat, site : Site \cup {"none"}, serial : Nat]]
      /\ agents'[c.machine] = agent /\ \A m \in Machine \ {c.machine} : agents'[m] = agents[m]
  BY <1>0, <1>1, <1>2 DEF Shaped
<1>4. Shaped'
  BY <1>1, <1>3 DEF Shaped
<1>5. TokensKept'
  <2>1. Len(pairingTokens) \in Nat
    BY DEF Shaped
  <2> QED BY <1>1, <1>2, <1>3, <2>1 DEF TokensKept, Tokens
<1>6. \A d \in gatewayCalls' : d \in gatewayCalls /\ d.machine \in Machine
                               /\ (d.waiting => d.machine # c.machine)
  BY <1>0, <1>1 DEF Shaped, GatewayCallRow, CallsMatch
<1>7. CallsMatch'
  <2>1. \A m \in Machine : /\ agents'[m].serial <= serials
                           /\ agents'[m].serial # 0 => agents'[m].site \in Site
    BY <1>0, <1>2, <1>3 DEF CallsMatch
  <2> QED BY <1>1, <1>3, <1>6, <2>1 DEF CallsMatch
<1>8. IdentitiesMatch'
  <2>1. \A d \in gatewayCalls' : d.waiting /\ d.stage = "answered" /\ d.machine \notin orphans =>
           identity[d.site].machine = d.machine /\ identity[d.site].serial = d.serial
    BY <1>6 DEF IdentitiesMatch
  <2>2. ASSUME NEW m \in Machine \ orphans, agents'[m].serial # 0
        PROVE  /\ identity[agents'[m].site].machine = m
               /\ \/ identity[agents'[m].site].serial = agents'[m].serial
                  \/ \E d \in gatewayCalls' : /\ d.machine = m /\ d.waiting /\ d.stage = "answered"
                                              /\ identity[agents'[m].site].serial = d.serial
    <3>1. CASE m = c.machine
      BY <1>0, <1>2, <1>3, <3>1 DEF IdentitiesMatch
    <3>2. CASE m # c.machine
      BY <1>1, <1>3, <2>2, <3>2 DEF IdentitiesMatch
    <3> QED BY <3>1, <3>2
  <2> QED BY <1>1, <2>1, <2>2 DEF IdentitiesMatch
<1> QED BY <1>4, <1>5, <1>7, <1>8

\* What the gateway does when it answers: the server's identity is the caller's, with a
\* certificate newer than all, and the call is gone or carries that certificate.
LEMMA AnswerShapes ==
  ASSUME EnrollmentInv, NEW c \in gatewayCalls, c.stage = "checked", Answered(c)
  PROVE  /\ serials' = serials + 1 /\ serials \in Nat /\ c \in GatewayCallRow /\ c.site \in Site
         /\ identity' \in [Site -> [machine : Machine \cup {"none"}, serial : Nat]]
         /\ identity'[c.site].machine = c.machine /\ identity'[c.site].serial = serials'
         /\ \A s \in Site \ {c.site} : identity'[s] = identity[s]
         /\ \E d \in GatewayCallRow :
               /\ d.machine = c.machine /\ d.kind = c.kind /\ d.token = c.token /\ d.site = c.site
               /\ d.old = c.old /\ d.stage = "answered" /\ d.serial = serials' /\ d.waiting = c.waiting
               /\ gatewayCalls' = (gatewayCalls \ {c}) \cup (IF c.waiting THEN {d} ELSE {})
<1> USE DEF EnrollmentInv
<1>1. serials' = serials + 1 /\ serials \in Nat /\ c \in GatewayCallRow /\ c.site \in Site
  BY DEF Answered, Shaped, CallsMatch
<1> DEFINE row == [machine |-> c.machine, serial |-> serials']
           d == [c EXCEPT !.stage = "answered", !.serial = serials']
<1>2. row \in [machine : Machine \cup {"none"}, serial : Nat] /\ row.machine = c.machine /\ row.serial = serials'
  BY <1>1 DEF GatewayCallRow
<1>3. identity' = [identity EXCEPT ![c.site] = row]
  BY DEF Answered
<1>4. /\ d \in GatewayCallRow /\ d.machine = c.machine /\ d.kind = c.kind /\ d.token = c.token /\ d.site = c.site
      /\ d.old = c.old /\ d.stage = "answered" /\ d.serial = serials' /\ d.waiting = c.waiting
  <2>1. serials' \in Nat /\ c \in GatewayCallRow
    BY <1>1
  <2>2. ASSUME NEW n \in Nat
        PROVE  LET e == [c EXCEPT !.stage = "answered", !.serial = n]
               IN /\ e \in GatewayCallRow /\ e.machine = c.machine /\ e.kind = c.kind /\ e.token = c.token
                  /\ e.site = c.site /\ e.old = c.old /\ e.stage = "answered" /\ e.serial = n
                  /\ e.waiting = c.waiting
    BY <2>1 DEF GatewayCallRow
  <2> QED BY <2>1, <2>2
<1>5. gatewayCalls' = (gatewayCalls \ {c}) \cup (IF c.waiting THEN {d} ELSE {})
  BY DEF Answered
<1> HIDE DEF row, d
<1>6. /\ identity' \in [Site -> [machine : Machine \cup {"none"}, serial : Nat]]
      /\ identity'[c.site] = row /\ \A s \in Site \ {c.site} : identity'[s] = identity[s]
  BY <1>1, <1>2, <1>3 DEF Shaped
<1> QED BY <1>1, <1>2, <1>4, <1>5, <1>6

\* An answer keeps the calls matched: it is newer than every call made before.
LEMMA AnswersMatch ==
  ASSUME EnrollmentInv, NEW c \in gatewayCalls, c.stage = "checked", Answered(c), agents' = agents
  PROVE  CallsMatch'
<1> USE DEF EnrollmentInv
<1>1. PICK d \in GatewayCallRow :
        /\ d.machine = c.machine /\ d.kind = c.kind /\ d.token = c.token /\ d.site = c.site
        /\ d.old = c.old /\ d.stage = "answered" /\ d.serial = serials' /\ d.waiting = c.waiting
        /\ gatewayCalls' = (gatewayCalls \ {c}) \cup (IF c.waiting THEN {d} ELSE {})
  BY AnswerShapes
<1>2. serials' = serials + 1 /\ serials \in Nat /\ c.site \in Site
  BY AnswerShapes
<1>3. \A a \in gatewayCalls' : (a = d /\ c.waiting) \/ a \in gatewayCalls \ {c}
  BY <1>1
<1>4. \A a \in gatewayCalls : a \in GatewayCallRow /\ a.old \in Nat /\ a.serial \in Nat
  BY DEF Shaped, GatewayCallRow
<1>5. \A a, b \in gatewayCalls' : a.waiting /\ b.waiting /\ a.machine = b.machine => a = b
  BY <1>1, <1>3 DEF CallsMatch
<1>6. \A a \in gatewayCalls' : /\ a.kind = "rotate" \/ a.stage # "sent" => a.site \in Site
                               /\ a.old <= serials' /\ a.serial <= serials'
  <2>1. d.site \in Site /\ d.old <= serials' /\ d.serial <= serials'
    BY <1>1, <1>2, <1>4 DEF CallsMatch
  <2>2. \A a \in gatewayCalls : /\ a.kind = "rotate" \/ a.stage # "sent" => a.site \in Site
                                /\ a.old <= serials' /\ a.serial <= serials'
    BY <1>2, <1>4 DEF CallsMatch
  <2> QED BY <1>3, <2>1, <2>2
<1>7. \A a \in gatewayCalls' : a.waiting =>
        IF a.kind = "pair" THEN agents[a.machine].serial = 0
        ELSE agents[a.machine].serial = a.old /\ agents[a.machine].site = a.site
  BY <1>1, <1>3 DEF CallsMatch
<1>8. \A a, b \in gatewayCalls' :
        a.waiting /\ a.stage = "answered" /\ b.machine = a.machine => b.old < a.serial
  <2> SUFFICES ASSUME NEW a \in gatewayCalls', NEW b \in gatewayCalls',
                      a.waiting, a.stage = "answered", b.machine = a.machine
               PROVE  b.old < a.serial
    OBVIOUS
  <2>1. \E e \in gatewayCalls : e.machine = b.machine /\ e.old = b.old
    BY <1>1, <1>3
  <2>2. CASE a = d
    BY <1>1, <1>2, <1>4, <2>1, <2>2 DEF CallsMatch
  <2>3. CASE a # d
    BY <1>3, <2>1, <2>3 DEF CallsMatch
  <2> QED BY <2>2, <2>3
<1>9. \A m \in Machine : /\ agents[m].serial <= serials'
                         /\ agents[m].serial # 0 => agents[m].site \in Site
  <2>1. \A m \in Machine : agents[m].serial \in Nat
    BY DEF Shaped
  <2> QED BY <1>2, <2>1 DEF CallsMatch
<1> QED BY <1>5, <1>6, <1>7, <1>8, <1>9 DEF CallsMatch

\* An answer leaves those known whose identity it does not replace, and makes the
\* caller known, unless nobody waits for it and the caller counts as replaced.
LEMMA AnswersKeepIdentities ==
  ASSUME EnrollmentInv, NEW c \in gatewayCalls, c.stage = "checked", Answered(c), agents' = agents,
         \A s \in Site \ {c.site} : identity[s].machine # c.machine,
         \A m \in Machine \ orphans' : (m = c.machine /\ c.waiting) \/ m \notin orphans,
         \A m \in Machine \ orphans' : m # c.machine => identity[c.site].machine # m,
         \A m \in Machine \ orphans' : m = c.machine /\ ~c.waiting /\ agents[m].serial # 0 =>
             agents[m].site # c.site,
         ~c.waiting /\ c.machine \notin orphans' =>
             \A a \in gatewayCalls : a.waiting /\ a.stage = "answered" /\ a.machine = c.machine => a.site # c.site,
         c.waiting /\ c.kind = "rotate" => agents[c.machine].site = c.site
  PROVE  IdentitiesMatch'
<1> USE DEF EnrollmentInv
<1>1. PICK d \in GatewayCallRow :
        /\ d.machine = c.machine /\ d.kind = c.kind /\ d.token = c.token /\ d.site = c.site
        /\ d.old = c.old /\ d.stage = "answered" /\ d.serial = serials' /\ d.waiting = c.waiting
        /\ gatewayCalls' = (gatewayCalls \ {c}) \cup (IF c.waiting THEN {d} ELSE {})
  BY AnswerShapes
<1>2. /\ c \in GatewayCallRow /\ c.site \in Site /\ c.machine \in Machine /\ c.kind \in {"pair", "rotate"}
      /\ identity'[c.site].machine = c.machine /\ identity'[c.site].serial = serials'
      /\ \A s \in Site \ {c.site} : identity'[s] = identity[s]
  BY AnswerShapes DEF GatewayCallRow
<1>3. /\ \A a \in gatewayCalls' : (a = d /\ c.waiting) \/ a \in gatewayCalls \ {c}
      /\ \A a \in gatewayCalls : a # c => a \in gatewayCalls'
      /\ c.waiting => d \in gatewayCalls'
  BY <1>1
<1>4. \A a \in gatewayCalls : a.machine \in Machine /\ (a.stage = "answered" => a.site \in Site)
  BY DEF Shaped, GatewayCallRow, CallsMatch
<1>5. \A r, s \in Site : r # s /\ identity'[r].machine = identity'[s].machine => identity'[r].machine = "none"
  BY <1>2 DEF IdentitiesMatch
<1>6. ASSUME NEW a \in gatewayCalls', a.waiting, a.stage = "answered", a.machine \notin orphans'
      PROVE  identity'[a.site].machine = a.machine /\ identity'[a.site].serial = a.serial
  <2>1. CASE a = d
    BY <1>1, <1>2, <2>1
  <2>2. CASE a # d
    <3>1. a \in gatewayCalls \ {c} /\ a.machine \in Machine /\ a.site \in Site
      BY <1>3, <1>4, <1>6, <2>2
    <3>2. ~(a.machine = c.machine /\ c.waiting)
      BY <1>6, <3>1 DEF CallsMatch
    <3>3. a.machine \notin orphans
      BY <1>6, <3>1, <3>2
    <3>4. identity[a.site].machine = a.machine /\ identity[a.site].serial = a.serial
      BY <1>6, <3>1, <3>3 DEF IdentitiesMatch
    <3>5. a.site # c.site
      BY <1>6, <3>1, <3>2, <3>4
    <3> QED BY <1>2, <3>1, <3>4, <3>5
  <2> QED BY <2>1, <2>2
<1>7. ASSUME NEW m \in Machine \ orphans', agents[m].serial # 0
      PROVE  /\ identity'[agents[m].site].machine = m
             /\ \/ identity'[agents[m].site].serial = agents[m].serial
                \/ \E a \in gatewayCalls' : /\ a.machine = m /\ a.waiting /\ a.stage = "answered"
                                            /\ identity'[agents[m].site].serial = a.serial
  <2>1. CASE m = c.machine /\ c.waiting
    <3>1. c.kind = "rotate"
      BY <1>2, <1>7, <2>1 DEF CallsMatch
    <3> QED BY <1>1, <1>2, <1>3, <2>1, <3>1
  <2>2. CASE ~(m = c.machine /\ c.waiting)
    <3>1. /\ m \notin orphans /\ agents[m].site \in Site
          /\ identity[agents[m].site].machine = m
          /\ \/ identity[agents[m].site].serial = agents[m].serial
             \/ \E a \in gatewayCalls : /\ a.machine = m /\ a.waiting /\ a.stage = "answered"
                                        /\ identity[agents[m].site].serial = a.serial
      BY <1>7, <2>2 DEF IdentitiesMatch, CallsMatch
    <3>2. agents[m].site # c.site
      BY <1>7, <2>2, <3>1
    <3>3. identity'[agents[m].site] = identity[agents[m].site]
      BY <1>2, <3>1, <3>2
    <3> QED BY <1>3, <3>1, <3>3
  <2> QED BY <2>1, <2>2
<1> QED BY <1>5, <1>6, <1>7 DEF IdentitiesMatch

LEMMA AnswersShaped ==
  ASSUME EnrollmentInv, NEW c \in gatewayCalls, c.stage = "checked", Answered(c),
         agents' = agents, sites' = sites, pairingTokens' \in Seq(PairingRow)
  PROVE  Shaped'
<1>1. PICK d \in GatewayCallRow : gatewayCalls' = (gatewayCalls \ {c}) \cup (IF c.waiting THEN {d} ELSE {})
  BY AnswerShapes
<1>2. serials' \in Nat /\ identity' \in [Site -> [machine : Machine \cup {"none"}, serial : Nat]]
  BY AnswerShapes
<1>3. gatewayCalls' \subseteq GatewayCallRow
  BY <1>1 DEF EnrollmentInv, Shaped
<1> QED BY <1>2, <1>3 DEF EnrollmentInv, Shaped

LEMMA RegisterKeeps ==
  ASSUME EnrollmentInv, NEW c \in gatewayCalls, RegisterAgent(c)
  PROVE  EnrollmentInv'
<1> USE DEF EnrollmentInv
<1> DEFINE row == [pairingTokens[c.token] EXCEPT !.status = "used"]
<1>1. /\ c.stage = "checked" /\ c.kind = "pair" /\ Answered(c) /\ pairingTokens[c.token].status = "live"
      /\ \A s \in Site \ {c.site} : identity[s].machine # c.machine
      /\ pairingTokens' = [pairingTokens EXCEPT ![c.token] = row]
      /\ uses' = [uses EXCEPT ![c.token] = uses[c.token] + 1]
      /\ orphans' = (orphans \cup ({identity[c.site].machine} \cap Machine))
                       \ (IF c.waiting THEN {c.machine} ELSE {})
      /\ sites' = sites /\ agents' = agents
  BY DEF RegisterAgent, StillAuthorized, Authorized
<1>2. /\ pairingTokens \in Seq(PairingRow) /\ Len(pairingTokens) \in Nat /\ c.token \in 1..Len(pairingTokens)
      /\ Tokens = 1..Len(pairingTokens) /\ uses \in Seq(Nat) /\ Len(uses) = Len(pairingTokens)
      /\ \A t \in Tokens : uses[t] = 0 \/ (uses[t] = 1 /\ pairingTokens[t].status # "live")
  BY <1>1 DEF Shaped, TokensKept, Tokens
<1>3. row \in PairingRow /\ row.status = "used" /\ uses[c.token] = 0
  <2>1. pairingTokens[c.token] \in PairingRow
    BY <1>2
  <2> QED BY <1>1, <1>2, <2>1 DEF PairingRow
<1> HIDE DEF row
<1>4. /\ pairingTokens' \in Seq(PairingRow) /\ Len(pairingTokens') = Len(pairingTokens) /\ Tokens' = Tokens
      /\ \A t \in Tokens : pairingTokens'[t] = IF t = c.token THEN row ELSE pairingTokens[t]
  BY <1>1, <1>2, <1>3 DEF Tokens
<1>5. /\ uses' \in Seq(Nat) /\ Len(uses') = Len(pairingTokens)
      /\ \A t \in Tokens : uses'[t] = IF t = c.token THEN 1 ELSE uses[t]
  BY <1>1, <1>2, <1>3
<1>6. TokensKept'
  <2>1. \A t \in Tokens' : uses'[t] = 0 \/ (uses'[t] = 1 /\ pairingTokens'[t].status # "live")
    BY <1>2, <1>3, <1>4, <1>5
  <2>2. PICK d \in GatewayCallRow :
          d.kind = c.kind /\ d.token = c.token
          /\ gatewayCalls' = (gatewayCalls \ {c}) \cup (IF c.waiting THEN {d} ELSE {})
    BY <1>1, AnswerShapes
  <2>3. \A a \in gatewayCalls' : a.kind = "pair" => a.token \in 1..Len(pairingTokens')
    BY <1>2, <1>4, <2>2 DEF TokensKept
  <2>4. \A m \in Machine : agents'[m].token \in 0..Len(pairingTokens')
    BY <1>1, <1>4 DEF TokensKept
  <2> QED BY <1>4, <1>5, <2>1, <2>3, <2>4 DEF TokensKept
<1>7. IdentitiesMatch'
  <2>1. /\ \A m \in Machine \ orphans' : (m = c.machine /\ c.waiting) \/ m \notin orphans
        /\ \A m \in Machine \ orphans' : m # c.machine \/ ~c.waiting => identity[c.site].machine # m
    BY <1>1
  <2>2. \A m \in Machine \ orphans' : m = c.machine /\ ~c.waiting /\ agents[m].serial # 0 =>
           agents[m].site # c.site
    BY <2>1 DEF IdentitiesMatch
  <2>3. ~c.waiting /\ c.machine \notin orphans' =>
           \A a \in gatewayCalls : a.waiting /\ a.stage = "answered" /\ a.machine = c.machine => a.site # c.site
    <3>1. c.machine \in Machine
      BY DEF Shaped, GatewayCallRow
    <3> QED BY <2>1, <3>1 DEF IdentitiesMatch
  <2> QED BY <1>1, <2>1, <2>2, <2>3, AnswersKeepIdentities
<1> QED BY <1>1, <1>4, <1>6, <1>7, AnswersShaped, AnswersMatch

LEMMA RotateKeeps ==
  ASSUME EnrollmentInv, NEW c \in gatewayCalls, RotateAgentCertificate(c)
  PROVE  EnrollmentInv'
<1> USE DEF EnrollmentInv
<1>1. /\ c.stage = "checked" /\ c.kind = "rotate" /\ Answered(c)
      /\ identity[c.site].machine = c.machine /\ identity[c.site].serial = c.old
      /\ orphans' = (IF ~c.waiting /\ agents[c.machine].serial = c.old THEN orphans \cup {c.machine} ELSE orphans)
      /\ UNCHANGED <<sites, pairingTokens, agents, uses>>
  BY DEF RotateAgentCertificate, StillAuthorized, Authorized
<1>2. /\ c \in GatewayCallRow /\ c.machine \in Machine /\ c.site \in Site /\ c.old \in Nat
      /\ pairingTokens \in Seq(PairingRow)
  BY <1>1 DEF Shaped, GatewayCallRow, CallsMatch
<1>3. TokensKept'
  <2>1. PICK d \in GatewayCallRow :
          d.kind = c.kind /\ gatewayCalls' = (gatewayCalls \ {c}) \cup (IF c.waiting THEN {d} ELSE {})
    BY <1>1, AnswerShapes
  <2> QED BY <1>1, <2>1 DEF TokensKept, Tokens
<1>4. IdentitiesMatch'
  <2>1. \A s \in Site \ {c.site} : identity[s].machine # c.machine
    <3>1. c.machine # "none"
      BY <1>2, EnrollmentAssumption
    <3> QED BY <1>1, <1>2, <3>1 DEF IdentitiesMatch
  <2>2. \A a \in gatewayCalls : a.waiting /\ a.stage = "answered" /\ a.machine = c.machine => c.old < a.serial
    BY DEF CallsMatch
  <2>3. \A a \in gatewayCalls : a.serial \in Nat
    BY DEF Shaped, GatewayCallRow
  <2>4. /\ \A m \in Machine \ orphans' : (m = c.machine /\ c.waiting) \/ m \notin orphans
        /\ \A m \in Machine \ orphans' : m # c.machine => identity[c.site].machine # m
    BY <1>1
  <2>5. ASSUME NEW m \in Machine \ orphans', m = c.machine, ~c.waiting, agents[m].serial # 0
        PROVE  agents[m].site # c.site
    <3>1. m \notin orphans /\ agents[m].serial # c.old
      BY <1>1, <2>5
    <3>2. \/ identity[agents[m].site].serial = agents[m].serial
          \/ \E a \in gatewayCalls : /\ a.machine = m /\ a.waiting /\ a.stage = "answered"
                                     /\ identity[agents[m].site].serial = a.serial
      BY <2>5, <3>1 DEF IdentitiesMatch
    <3>3. SUFFICES ASSUME agents[m].site = c.site PROVE FALSE
      OBVIOUS
    <3> QED BY <1>1, <1>2, <2>2, <2>3, <2>5, <3>1, <3>2, <3>3
  <2>6. ASSUME ~c.waiting, c.machine \notin orphans', NEW a \in gatewayCalls,
               a.waiting, a.stage = "answered", a.machine = c.machine
        PROVE  a.site # c.site
    <3>1. identity[a.site].serial = a.serial
      BY <1>1, <2>6 DEF IdentitiesMatch
    <3> QED BY <1>1, <1>2, <2>2, <2>3, <2>6, <3>1
  <2>7. c.waiting => agents[c.machine].site = c.site
    BY <1>1 DEF CallsMatch
  <2> QED BY <1>1, <2>1, <2>4, <2>5, <2>6, <2>7, AnswersKeepIdentities
<1> QED BY <1>1, <1>2, <1>3, <1>4, AnswersShaped, AnswersMatch

LEMMA NextInv == EnrollmentInv /\ [EnrollmentNext]_enrollmentVars => EnrollmentInv'
<1> SUFFICES ASSUME EnrollmentInv, [EnrollmentNext]_enrollmentVars PROVE EnrollmentInv'
  OBVIOUS
<1>1. ASSUME UNCHANGED <<sites, pairingTokens, identity, agents, gatewayCalls, serials, uses, orphans>>
      PROVE  EnrollmentInv'
  BY <1>1 DEF EnrollmentInv, Shaped, TokensKept, CallsMatch, IdentitiesMatch, Tokens
<1>2. ASSUME NEW i \in Issuer, NEW s \in Site, IssueBegin(i, s) PROVE EnrollmentInv'
  BY <1>1, <1>2 DEF IssueBegin
<1>3. ASSUME NEW i \in Issuer, IssueFails(i) PROVE EnrollmentInv'
  BY <1>1, <1>3 DEF IssueFails
<1>4. CASE UNCHANGED enrollmentVars
  BY <1>1, <1>4 DEF enrollmentVars
<1> QED BY <1>2, <1>3, <1>4, AddSiteKeeps, RemoveSiteKeeps, IssueKeeps, ExpiryKeeps, GiveTokenKeeps, CallGatewayKeeps,
           GiveUpKeeps, InstallKeeps, CheckKeeps, RegisterKeeps, RotateKeeps DEF EnrollmentNext

\* However calls are repeated, given up, answered late or not at all, tokens revoked
\* and servers removed: a pairing token registers one agent at most, and an agent that
\* was not replaced is known by the certificate it has, or by the one on its way to it
\* (runtime.go, gateway/service.go, routes/servers.ts).
THEOREM EnrollmentStaysSound == EnrollmentSpec => []EnrollmentIsSound
BY InitInv, NextInv, InvIsSound, PTL DEF EnrollmentSpec

-----------------------------------------------------------------------------
(* Types. What the invariant leaves to say: numbers stay within their      *)
(* bounds, and a request for a token has seen tokens that there are.       *)

Numbered ==
    /\ serials <= MaxSerials /\ Len(pairingTokens) <= MaxPairings /\ orphans \subseteq Machine
    /\ \A t \in Tokens : uses[t] <= MaxSerials
    /\ issuing \in [Issuer -> [site : Site \cup {"none"}, seen : SUBSET Tokens]]
    /\ \A s \in Site : identity[s].serial <= serials
    /\ \A c \in gatewayCalls : c.token <= Len(pairingTokens)

EnrollmentTypes == EnrollmentInv /\ Numbered

LEMMA TypesAreOK == EnrollmentTypes => EnrollmentTypeOK
<1> SUFFICES ASSUME EnrollmentTypes PROVE EnrollmentTypeOK
  OBVIOUS
<1> USE DEF EnrollmentTypes, EnrollmentInv
<1>1. /\ serials \in Nat /\ serials <= MaxSerials /\ MaxSerials \in Nat /\ MaxPairings \in Nat
      /\ Len(pairingTokens) \in Nat /\ Len(pairingTokens) <= MaxPairings /\ Tokens = 1..Len(pairingTokens)
  BY EnrollmentAssumption DEF Shaped, Numbered, Tokens
<1>2. uses \in [Tokens -> 0..MaxSerials]
  <2>1. uses \in [Tokens -> Nat]
    BY <1>1 DEF TokensKept
  <2> QED BY <1>1, <2>1 DEF Numbered
<1>3. identity \in [Site -> [machine : Machine \cup {"none"}, serial : 0..MaxSerials]]
  <2>1. identity \in [Site -> [machine : Machine \cup {"none"}, serial : Nat]]
        /\ \A s \in Site : identity[s].serial \in 0..MaxSerials
    BY <1>1 DEF Shaped, Numbered
  <2>2. \A s \in Site : identity[s] \in [machine : Machine \cup {"none"}, serial : 0..MaxSerials]
    BY <2>1
  <2> QED BY <2>1, <2>2
<1>4. agents \in [Machine -> [token : 0..MaxPairings, site : Site \cup {"none"}, serial : 0..MaxSerials]]
  <2>1. agents \in [Machine -> [token : Nat, site : Site \cup {"none"}, serial : Nat]]
        /\ \A m \in Machine : agents[m].token \in 0..MaxPairings /\ agents[m].serial \in 0..MaxSerials
    BY <1>1 DEF Shaped, TokensKept, CallsMatch
  <2>2. \A m \in Machine :
          agents[m] \in [token : 0..MaxPairings, site : Site \cup {"none"}, serial : 0..MaxSerials]
    BY <2>1
  <2> QED BY <2>1, <2>2
<1>5. ASSUME NEW c \in gatewayCalls
      PROVE  c \in [machine : Machine, kind : {"pair", "rotate"}, token : 0..MaxPairings,
                    site : Site \cup {"none"}, old : 0..MaxSerials,
                    stage : {"sent", "checked", "answered"}, serial : 0..MaxSerials, waiting : BOOLEAN]
  <2>1. c \in GatewayCallRow /\ c.token \in 0..MaxPairings /\ c.old \in 0..MaxSerials /\ c.serial \in 0..MaxSerials
    <3>1. c \in GatewayCallRow
      BY DEF Shaped
    <3>2. c.token \in Nat /\ c.old \in Nat /\ c.serial \in Nat
      BY <3>1 DEF GatewayCallRow
    <3> QED BY <1>1, <3>1, <3>2 DEF CallsMatch, Numbered
  <2> QED BY <2>1 DEF GatewayCallRow
<1>6. sites \subseteq Site /\ orphans \subseteq Machine
      /\ pairingTokens \in Seq([site : Site, status : {"live", "used", "revoked", "expired", "deleted"}])
      /\ issuing \in [Issuer -> [site : Site \cup {"none"}, seen : SUBSET Tokens]]
  BY DEF Shaped, Numbered, PairingRow
<1> QED BY <1>1, <1>2, <1>3, <1>4, <1>5, <1>6 DEF EnrollmentTypeOK

\* Steps that take no number, and take no token away.
LEMMA NumbersKeep ==
  ASSUME EnrollmentTypes, Len(pairingTokens') = Len(pairingTokens), Tokens' = Tokens,
         serials' = serials, uses' = uses, issuing' = issuing, identity' = identity, orphans' \subseteq Machine,
         \A c \in gatewayCalls' : c.token <= Len(pairingTokens)
  PROVE  Numbered'
BY DEF EnrollmentTypes, Numbered

LEMMA AnswersNumbered ==
  ASSUME EnrollmentTypes, NEW c \in gatewayCalls, c.stage = "checked", Answered(c)
  PROVE  /\ serials' \in 1..MaxSerials
         /\ \A s \in Site : identity'[s].serial <= serials'
         /\ \A d \in gatewayCalls' : d.token <= Len(pairingTokens)
<1>1. serials' \in 1..MaxSerials /\ serials \in Nat /\ serials' = serials + 1
  BY EnrollmentAssumption DEF Answered, EnrollmentTypes, EnrollmentInv, Shaped
<1>2. /\ c.site \in Site /\ identity'[c.site].serial = serials'
      /\ \A s \in Site \ {c.site} : identity'[s] = identity[s]
  BY AnswerShapes DEF EnrollmentTypes
<1>3. ASSUME NEW s \in Site PROVE identity'[s].serial <= serials'
  <2>1. identity[s].serial \in Nat /\ identity[s].serial <= serials
    BY DEF EnrollmentTypes, EnrollmentInv, Shaped, Numbered
  <2> QED BY <1>1, <1>2, <2>1
<1>4. PICK d \in GatewayCallRow :
        d.token = c.token /\ gatewayCalls' = (gatewayCalls \ {c}) \cup (IF c.waiting THEN {d} ELSE {})
  BY AnswerShapes DEF EnrollmentTypes
<1> QED BY <1>1, <1>3, <1>4 DEF EnrollmentTypes, Numbered

\* A token is issued: the next number.
LEMMA IssueNumbered ==
  ASSUME EnrollmentTypes, NEW i \in Issuer, IssueCommit(i)
  PROVE  Numbered'
<1> USE DEF EnrollmentTypes
<1> DEFINE rows == [t \in Tokens |-> IF t \in issuing[i].seen /\ pairingTokens[t].status = "live"
                                     THEN [pairingTokens[t] EXCEPT !.status = "revoked"] ELSE pairingTokens[t]]
           new == [site |-> issuing[i].site, status |-> "live"]
<1>1. /\ pairingTokens' = Append(rows, new) /\ uses' = Append(uses, 0)
      /\ Len(pairingTokens) < MaxPairings /\ issuing' = [issuing EXCEPT ![i] = NotIssuing]
      /\ UNCHANGED <<sites, identity, agents, gatewayCalls, serials, orphans>>
  BY DEF IssueCommit
<1>2. /\ Len(pairingTokens) \in Nat /\ Tokens = 1..Len(pairingTokens)
      /\ uses \in Seq(Nat) /\ Len(uses) = Len(pairingTokens) /\ MaxPairings \in Nat /\ MaxSerials \in Nat
  BY EnrollmentAssumption DEF EnrollmentInv, Shaped, TokensKept, Tokens
<1>3. rows \in Seq({rows[t] : t \in Tokens}) /\ Len(rows) = Len(pairingTokens)
  <2>1. rows \in [1..Len(pairingTokens) -> {rows[t] : t \in Tokens}]
    BY <1>2
  <2> HIDE DEF rows
  <2> QED BY <1>2, <2>1
<1> HIDE DEF rows, new
<1>4. Len(pairingTokens') = Len(pairingTokens) + 1 /\ Tokens' = 1..Len(pairingTokens) + 1
  BY <1>1, <1>2, <1>3 DEF Tokens
<1>5. \A t \in Tokens' : uses'[t] <= MaxSerials
  <2> SUFFICES ASSUME NEW t \in Tokens' PROVE uses'[t] <= MaxSerials
    OBVIOUS
  <2>1. CASE t \in Tokens
    BY <1>1, <1>2, <2>1 DEF Numbered
  <2>2. CASE t = Len(pairingTokens) + 1
    <3>1. uses'[t] = 0
      BY <1>1, <1>2, <2>2
    <3> QED BY <1>2, <3>1
  <2> QED BY <1>2, <1>4, <2>1, <2>2
<1>6. issuing' \in [Issuer -> [site : Site \cup {"none"}, seen : SUBSET Tokens']]
  <2>1. NotIssuing \in [site : Site \cup {"none"}, seen : SUBSET Tokens']
    BY DEF NotIssuing
  <2>2. \A j \in Issuer : issuing[j] \in [site : Site \cup {"none"}, seen : SUBSET Tokens']
    <3> TAKE j \in Issuer
    <3>1. issuing[j] \in [site : Site \cup {"none"}, seen : SUBSET Tokens] /\ Tokens \subseteq Tokens'
      BY <1>2, <1>4 DEF Numbered
    <3>2. issuing[j].seen \subseteq Tokens'
      BY <3>1
    <3> QED BY <3>1, <3>2
  <2> QED BY <1>1, <2>1, <2>2 DEF Numbered
<1>7. \A c \in gatewayCalls : c.token <= Len(pairingTokens')
  <2> TAKE c \in gatewayCalls
  <2>1. c \in GatewayCallRow
    BY DEF EnrollmentInv, Shaped
  <2>2. c.token \in Nat /\ c.token <= Len(pairingTokens)
    BY <2>1 DEF GatewayCallRow, Numbered
  <2> QED BY <1>2, <1>4, <2>2
<1> QED BY <1>1, <1>2, <1>4, <1>5, <1>6, <1>7 DEF Numbered

\* A request for a token begins or fails.
LEMMA RequestsNumbered ==
  ASSUME EnrollmentTypes, NEW i \in Issuer, IssueFails(i) \/ \E s \in Site : IssueBegin(i, s)
  PROVE  Numbered'
<1>1. ASSUME NEW s \in Site PROVE [site |-> s, seen |-> LiveTokens(s)] \in [site : Site \cup {"none"}, seen : SUBSET Tokens]
  BY DEF LiveTokens
<1>2. NotIssuing \in [site : Site \cup {"none"}, seen : SUBSET Tokens]
  BY DEF NotIssuing
<1>3. PICK row \in [site : Site \cup {"none"}, seen : SUBSET Tokens] : issuing' = [issuing EXCEPT ![i] = row]
  <2>1. CASE IssueFails(i)
    BY <1>2, <2>1 DEF IssueFails
  <2>2. ASSUME NEW s \in Site, IssueBegin(i, s)
        PROVE  \E row \in [site : Site \cup {"none"}, seen : SUBSET Tokens] : issuing' = [issuing EXCEPT ![i] = row]
    <3> DEFINE row == [site |-> s, seen |-> LiveTokens(s)]
    <3>1. row \in [site : Site \cup {"none"}, seen : SUBSET Tokens] /\ issuing' = [issuing EXCEPT ![i] = row]
      BY <1>1, <2>2 DEF IssueBegin
    <3> QED BY <3>1
  <2> QED BY <2>1, <2>2
<1>4. issuing' \in [Issuer -> [site : Site \cup {"none"}, seen : SUBSET Tokens]]
  BY <1>3 DEF EnrollmentTypes, Numbered
<1>5. UNCHANGED <<sites, pairingTokens, identity, agents, gatewayCalls, serials, uses, orphans>>
  BY DEF IssueFails, IssueBegin
<1> QED BY <1>4, <1>5 DEF EnrollmentTypes, Numbered, Tokens

LEMMA NextTypes == EnrollmentTypes /\ [EnrollmentNext]_enrollmentVars => EnrollmentTypes'
<1> SUFFICES ASSUME EnrollmentTypes, [EnrollmentNext]_enrollmentVars PROVE EnrollmentTypes'
  OBVIOUS
<1> USE DEF EnrollmentTypes
<1>0. /\ orphans \subseteq Machine /\ \A c \in gatewayCalls : c \in GatewayCallRow /\ c.machine \in Machine
      /\ \A c \in gatewayCalls : c.token <= Len(pairingTokens)
      /\ Tokens = 1..Len(pairingTokens) /\ Len(pairingTokens) \in Nat /\ pairingTokens \in Seq(PairingRow)
  BY DEF Numbered, EnrollmentInv, Shaped, GatewayCallRow, Tokens
<1>1. ASSUME NEW s \in Site, AddSite(s) PROVE Numbered'
  BY <1>0, <1>1, NumbersKeep DEF AddSite, Tokens
<1>2. ASSUME NEW s \in Site, RemoveSite(s) PROVE Numbered'
  <2>1. /\ DOMAIN pairingTokens' = Tokens /\ EnrollmentInv'
        /\ UNCHANGED <<issuing, agents, gatewayCalls, serials, uses>>
    BY <1>2, RemoveSiteKeeps DEF RemoveSite
  <2>2. Len(pairingTokens') = Len(pairingTokens) /\ Tokens' = Tokens
    BY <1>0, <2>1 DEF EnrollmentInv, Shaped, Tokens
  <2>3. orphans' \subseteq Machine /\ identity' = [identity EXCEPT ![s] = NoIdentity]
    BY <1>0, <1>2 DEF RemoveSite
  <2>4. \A r \in Site : identity'[r].serial <= serials
    <3>1. 0 <= serials /\ identity \in [Site -> [machine : Machine \cup {"none"}, serial : Nat]]
      BY DEF EnrollmentInv, Shaped
    <3>2. NoIdentity.serial = 0
      BY DEF NoIdentity
    <3> QED BY <2>3, <3>1, <3>2 DEF Numbered
  <2> QED BY <2>1, <2>2, <2>3, <2>4 DEF Numbered
<1>3. ASSUME NEW t \in Tokens, TokenExpires(t) PROVE Numbered'
  <2>1. DOMAIN pairingTokens' = Tokens /\ EnrollmentInv'
    BY <1>3, ExpiryKeeps DEF TokenExpires, Tokens
  <2>2. Len(pairingTokens') = Len(pairingTokens) /\ Tokens' = Tokens
    BY <1>0, <2>1 DEF EnrollmentInv, Shaped, Tokens
  <2> QED BY <1>0, <1>3, <2>2, NumbersKeep DEF TokenExpires
<1>4. ASSUME NEW m \in Machine, NEW t \in Tokens, GiveToken(m, t) PROVE Numbered'
  BY <1>0, <1>4, NumbersKeep DEF GiveToken, Tokens
<1>5. ASSUME NEW m \in Machine, CallGateway(m) PROVE Numbered'
  <2>1. agents[m].token <= Len(pairingTokens)
    BY <1>0 DEF EnrollmentInv, TokensKept
  <2>2. \A c \in gatewayCalls' : c.token <= Len(pairingTokens)
    BY <1>0, <1>5, <2>1 DEF CallGateway
  <2> QED BY <1>0, <1>5, <2>2, NumbersKeep DEF CallGateway, Tokens
<1>6. ASSUME NEW c \in gatewayCalls, GiveUp(c) PROVE Numbered'
  <2>1. [c EXCEPT !.waiting = FALSE].token = c.token
    BY <1>0 DEF GatewayCallRow
  <2>2. orphans' \subseteq Machine /\ \A d \in gatewayCalls' : d.token <= Len(pairingTokens)
    BY <1>0, <1>6, <2>1 DEF GiveUp
  <2> QED BY <1>6, <2>2, NumbersKeep DEF GiveUp, Tokens
<1>7. ASSUME NEW c \in gatewayCalls, InstallCertificate(c) \/ Refuse(c) PROVE Numbered'
  <2>1. orphans' \subseteq Machine /\ \A d \in gatewayCalls' : d.token <= Len(pairingTokens)
    BY <1>0, <1>7 DEF InstallCertificate, Refuse
  <2> QED BY <1>7, <2>1, NumbersKeep DEF InstallCertificate, Refuse, Tokens
<1>8. ASSUME NEW c \in gatewayCalls, Check(c) PROVE Numbered'
  <2>1. ASSUME NEW s PROVE [c EXCEPT !.stage = "checked", !.site = s].token = c.token
    BY <1>0 DEF GatewayCallRow
  <2>2. \A d \in gatewayCalls' : d.token <= Len(pairingTokens)
    BY <1>0, <1>8, <2>1 DEF Check
  <2> QED BY <1>0, <1>8, <2>2, NumbersKeep DEF Check, Tokens
<1>9. ASSUME NEW c \in gatewayCalls, RegisterAgent(c) PROVE Numbered'
  <2>1. /\ c.stage = "checked" /\ Answered(c) /\ uses' = [uses EXCEPT ![c.token] = @ + 1]
        /\ pairingTokens' = [pairingTokens EXCEPT ![c.token].status = "used"]
        /\ orphans' = (orphans \cup ({identity[c.site].machine} \cap Machine))
                         \ (IF c.waiting THEN {c.machine} ELSE {})
        /\ issuing' = issuing
    BY <1>9 DEF RegisterAgent
  <2>2. EnrollmentInv'
    BY <1>9, RegisterKeeps
  <2>3. DOMAIN pairingTokens' = Tokens
    BY <2>1 DEF Tokens
  <2>4. Len(pairingTokens') = Len(pairingTokens) /\ Tokens' = Tokens
    BY <1>0, <2>2, <2>3 DEF EnrollmentInv, Shaped, Tokens
  <2>5. \A t \in Tokens' : uses'[t] <= 1 /\ uses'[t] \in Nat
    <3>1. TokensKept'
      BY <2>2 DEF EnrollmentInv
    <3>2. \A t \in Tokens' : uses'[t] = 0 \/ uses'[t] = 1
      BY <3>1 DEF TokensKept
    <3> QED BY <3>2
  <2>6. /\ serials' \in 1..MaxSerials /\ \A s \in Site : identity'[s].serial <= serials'
        /\ \A d \in gatewayCalls' : d.token <= Len(pairingTokens)
    BY <2>1, AnswersNumbered
  <2>7. \A t \in Tokens' : uses'[t] <= MaxSerials
    BY <2>5, <2>6, EnrollmentAssumption
  <2>8. orphans' \subseteq Machine /\ serials' <= MaxSerials
    BY <1>0, <2>1, <2>6, EnrollmentAssumption
  <2> QED BY <2>1, <2>4, <2>6, <2>7, <2>8 DEF Numbered
<1>10. ASSUME NEW c \in gatewayCalls, RotateAgentCertificate(c) PROVE Numbered'
  <2>1. c.stage = "checked" /\ Answered(c) /\ orphans' \subseteq Machine
        /\ UNCHANGED <<sites, pairingTokens, issuing, agents, uses>>
    BY <1>0, <1>10 DEF RotateAgentCertificate
  <2>2. /\ serials' \in 1..MaxSerials /\ \A s \in Site : identity'[s].serial <= serials'
        /\ \A d \in gatewayCalls' : d.token <= Len(pairingTokens)
    BY <2>1, AnswersNumbered
  <2>3. serials' <= MaxSerials
    BY <2>2, EnrollmentAssumption
  <2> QED BY <2>1, <2>2, <2>3 DEF Numbered, Tokens
<1>11. ASSUME UNCHANGED enrollmentVars PROVE Numbered'
  BY <1>11 DEF enrollmentVars, Numbered, Tokens
<1>12. Numbered'
  BY <1>1, <1>2, <1>3, <1>4, <1>5, <1>6, <1>7, <1>8, <1>9, <1>10, <1>11, IssueNumbered, RequestsNumbered
     DEF EnrollmentNext
<1> QED BY <1>12, NextInv

\* Rows, requests, agents and calls stay within their types, for any servers, machines,
\* issuers and calls: serial numbers and tokens are counted as they are issued
\* (gateway/service.go, routes/servers.ts).
THEOREM EnrollmentTypeCorrect == EnrollmentSpec => []EnrollmentTypeOK
<1>1. EnrollmentInit => EnrollmentTypes
  <2> SUFFICES ASSUME EnrollmentInit PROVE EnrollmentTypes
    OBVIOUS
  <2>1. EnrollmentInv
    BY InitInv
  <2>2. Numbered
    BY EnrollmentAssumption DEF EnrollmentInit, Numbered, Tokens, NotIssuing, NoIdentity
  <2> QED BY <2>1, <2>2 DEF EnrollmentTypes
<1> QED BY <1>1, NextTypes, TypesAreOK, PTL DEF EnrollmentSpec
=============================================================================
