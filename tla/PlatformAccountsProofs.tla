------------------------ MODULE PlatformAccountsProofs ------------------------
(***************************************************************************)
(* Proofs about accounts, workspaces and refresh sessions, for any finite  *)
(* set of users, any plans and any number of tokens: a family of refresh   *)
(* tokens has one that can still be rotated at most, a workspace never     *)
(* loses its owner, and its members never outnumber the seats of the best  *)
(* plan it had.                                                            *)
(***************************************************************************)
EXTENDS PlatformAccounts, FiniteSetTheorems, TLAPS

-----------------------------------------------------------------------------
(* Refresh tokens.                                                          *)

Row == [family : Nat, user : User, space : User, status : TokenStatus]
Spent == {"rotated", "revoked", "deleted"}

Holds(q) ==
    /\ q = [token |-> q.token, second |-> FALSE]
    /\ q.token \in DOMAIN tokens /\ tokens[q.token].status = "live"

\* What a rotation relies on: the row it holds is live (nobody else may change it)
\* and held by no other, and a new family is one no token has.
TokensSound ==
    /\ tokens \in Seq(Row)
    /\ \A t \in DOMAIN tokens : tokens[t].family \in 0..Len(tokens)
    /\ \A q \in rotating : Holds(q)
    /\ granting \subseteq Grant
    /\ \A s \in sweeps : s.status \in {"revoked", "deleted"}

\* The invariant of the tokens.
TokenInv == TokensSound /\ OneLiveTokenPerFamily

\* Two rows of a family, one of which is spent: OneLiveTokenPerFamily in two halves.
LEMMA OneIsSpent ==
  TokensSound => (OneLiveTokenPerFamily <=>
     \A s, t \in DOMAIN tokens : s # t /\ tokens[s].family = tokens[t].family
        => tokens[s].status \in Spent \/ tokens[t].status \in Spent)
BY DEF OneLiveTokenPerFamily, Spent

\* Rows of which only the status changes, and only to one that is spent or from
\* "live" to "expired".
Ageing(rows) ==
    /\ rows \in Seq(Row) /\ Len(rows) = Len(tokens)
    /\ \A t \in DOMAIN tokens :
         /\ rows[t].family = tokens[t].family
         /\ rows[t].status \in Spent \cup {tokens[t].status}
              \/ (rows[t].status = "expired" /\ tokens[t].status = "live")

LEMMA AgedRows ==
  ASSUME TokensSound, NEW t \in DOMAIN tokens, NEW st \in Spent \cup {"expired"},
         st = "expired" => tokens[t].status = "live"
  PROVE  /\ Ageing([tokens EXCEPT ![t].status = st])
         /\ \A u \in DOMAIN tokens \ {t} : [tokens EXCEPT ![t].status = st][u] = tokens[u]
         /\ [tokens EXCEPT ![t].status = st][t].status = st
<1> DEFINE rows == [tokens EXCEPT ![t].status = st]
<1>1. tokens \in Seq(Row) /\ st \in TokenStatus
  BY DEF TokensSound, Spent, TokenStatus
<1>2. [tokens[t] EXCEPT !.status = st] \in Row /\ [tokens[t] EXCEPT !.status = st].status = st
      /\ [tokens[t] EXCEPT !.status = st].family = tokens[t].family
  <2>1. tokens[t] \in Row
    BY <1>1
  <2> QED BY <1>1, <2>1 DEF Row
<1>3. rows = [tokens EXCEPT ![t] = [tokens[t] EXCEPT !.status = st]]
  OBVIOUS
<1>4. rows \in Seq(Row) /\ Len(rows) = Len(tokens)
  <2> DEFINE aged == [tokens[t] EXCEPT !.status = st]
  <2>1. aged \in Row /\ rows = [tokens EXCEPT ![t] = aged]
    BY <1>2, <1>3
  <2> HIDE DEF aged
  <2> QED BY <1>1, <2>1
<1>5. rows[t] = [tokens[t] EXCEPT !.status = st] /\ \A u \in DOMAIN tokens \ {t} : rows[u] = tokens[u]
  BY <1>1, <1>3
<1> HIDE DEF rows
<1>6. Ageing(rows)
  BY <1>2, <1>4, <1>5 DEF Ageing
<1> QED BY <1>2, <1>5, <1>6 DEF rows

\* Ageing keeps the tokens sound, when no row that a rotation holds ages.
LEMMA AgeingKeeps ==
  ASSUME TokenInv, Ageing(tokens'), rotating' \subseteq rotating, granting' \subseteq Grant,
         \A q \in rotating' : tokens'[q.token].status = "live",
         \A s \in sweeps' : s.status \in {"revoked", "deleted"}
  PROVE  TokenInv'
<1>1. tokens \in Seq(Row) /\ tokens' \in Seq(Row) /\ Len(tokens') = Len(tokens) /\ DOMAIN tokens' = DOMAIN tokens
  BY DEF TokenInv, TokensSound, Ageing
<1>2. \A t \in DOMAIN tokens : tokens'[t].family = tokens[t].family
  BY DEF Ageing
<1>3. TokensSound'
  <2>1. \A q \in rotating' : Holds(q)'
    BY <1>1 DEF TokenInv, TokensSound, Holds
  <2> QED BY <1>1, <1>2, <2>1 DEF TokenInv, TokensSound
<1>4. ASSUME NEW s \in DOMAIN tokens, NEW t \in DOMAIN tokens, s # t,
             tokens'[s].family = tokens'[t].family
      PROVE  tokens'[s].status \in Spent \/ tokens'[t].status \in Spent
  <2>1. tokens[s].status \in Spent \/ tokens[t].status \in Spent
    BY <1>2, <1>4, OneIsSpent DEF TokenInv
  <2>2. \A u \in DOMAIN tokens : tokens[u].status \in Spent => tokens'[u].status \in Spent
    BY DEF Ageing, Spent
  <2> QED BY <2>1, <2>2
<1>5. OneLiveTokenPerFamily'
  BY <1>1, <1>4 DEF OneLiveTokenPerFamily, Spent
<1> QED BY <1>3, <1>5 DEF TokenInv

\* A row behind the others, of a new family or of one whose rows are spent.
LEMMA AppendKeeps ==
  ASSUME TokenInv, NEW rows, Ageing(rows), NEW row \in Row,
         tokens' = Append(rows, row), row.family \in 0..Len(tokens) + 1,
         \A t \in DOMAIN tokens : rows[t].family = row.family => rows[t].status \in Spent,
         rotating' \subseteq rotating, granting' \subseteq Grant,
         \A q \in rotating' : rows[q.token].status = "live", sweeps' = sweeps
  PROVE  TokenInv'
<1>1. /\ tokens \in Seq(Row) /\ rows \in Seq(Row) /\ Len(rows) = Len(tokens) /\ Len(tokens) \in Nat
      /\ DOMAIN tokens = 1..Len(tokens)
  BY DEF TokenInv, TokensSound, Ageing
<1>2. tokens' \in Seq(Row) /\ Len(tokens') = Len(tokens) + 1 /\ DOMAIN tokens' = 1..Len(tokens) + 1
      /\ tokens'[Len(tokens) + 1] = row /\ \A t \in 1..Len(tokens) : tokens'[t] = rows[t]
  BY <1>1
<1>3. \A t \in 1..Len(tokens) : rows[t].family = tokens[t].family /\ tokens[t].family \in 0..Len(tokens)
  BY <1>1 DEF Ageing, TokenInv, TokensSound
<1>4. TokensSound'
  <2>1. \A t \in DOMAIN tokens' : tokens'[t].family \in 0..Len(tokens')
    BY <1>1, <1>2, <1>3
  <2>2. \A q \in rotating' : Holds(q)'
    <3> SUFFICES ASSUME NEW q \in rotating' PROVE Holds(q)'
      OBVIOUS
    <3>1. q = [token |-> q.token, second |-> FALSE] /\ q.token \in 1..Len(tokens)
      BY <1>1 DEF TokenInv, TokensSound, Holds
    <3>2. q.token \in DOMAIN tokens' /\ tokens'[q.token].status = "live"
      BY <1>1, <1>2, <3>1
    <3> QED BY <3>1, <3>2 DEF Holds
  <2> QED BY <1>2, <2>1, <2>2 DEF TokenInv, TokensSound
<1>5. ASSUME NEW s \in 1..Len(tokens), NEW t \in 1..Len(tokens), s # t,
             tokens'[s].family = tokens'[t].family
      PROVE  tokens'[s].status \in Spent \/ tokens'[t].status \in Spent
  <2>1. tokens[s].status \in Spent \/ tokens[t].status \in Spent
    BY <1>1, <1>2, <1>3, <1>5, OneIsSpent DEF TokenInv
  <2>2. \A u \in 1..Len(tokens) : tokens[u].status \in Spent => tokens'[u].status \in Spent
    BY <1>1, <1>2 DEF Ageing, Spent
  <2> QED BY <2>1, <2>2
<1>6. ASSUME NEW t \in 1..Len(tokens), tokens'[t].family = row.family
      PROVE  tokens'[t].status \in Spent
  BY <1>1, <1>2, <1>6
<1>7. \A s, t \in DOMAIN tokens' : s # t /\ tokens'[s].family = tokens'[t].family
        => tokens'[s].status \in Spent \/ tokens'[t].status \in Spent
  <2> SUFFICES ASSUME NEW s \in DOMAIN tokens', NEW t \in DOMAIN tokens', s # t,
                      tokens'[s].family = tokens'[t].family
               PROVE  tokens'[s].status \in Spent \/ tokens'[t].status \in Spent
    OBVIOUS
  <2>1. CASE s \in 1..Len(tokens) /\ t \in 1..Len(tokens)
    BY <1>5, <2>1
  <2>2. CASE s = Len(tokens) + 1
    <3>1. t \in 1..Len(tokens)
      BY <1>1, <1>2, <2>2
    <3> QED BY <1>2, <1>6, <2>2, <3>1
  <2>3. CASE t = Len(tokens) + 1
    <3>1. s \in 1..Len(tokens)
      BY <1>1, <1>2, <2>3
    <3> QED BY <1>2, <1>6, <2>3, <3>1
  <2> QED BY <1>1, <1>2, <2>1, <2>2, <2>3
<1>8. OneLiveTokenPerFamily'
  BY <1>7 DEF OneLiveTokenPerFamily, Spent
<1> QED BY <1>4, <1>8 DEF TokenInv

LEMMA InitTokens == AccountsInit => TokenInv
<1> SUFFICES ASSUME AccountsInit PROVE TokenInv
  OBVIOUS
<1>1. tokens = <<>> /\ rotating = {} /\ granting = {} /\ sweeps = {} /\ DOMAIN tokens = {}
  BY DEF AccountsInit
<1> QED BY <1>1 DEF TokenInv, TokensSound, OneLiveTokenPerFamily

\* A step that leaves the rows alone, and starts no rotation.
LEMMA SameRowsKeep ==
  ASSUME TokenInv, tokens' = tokens, rotating' \subseteq rotating, granting' \subseteq Grant,
         \A s \in sweeps' : s.status \in {"revoked", "deleted"}
  PROVE  TokenInv'
BY DEF TokenInv, TokensSound, OneLiveTokenPerFamily, Holds

LEMMA SweepsAreSound ==
  ASSUME TokenInv, NEW rows, NEW st \in {"revoked", "deleted"}, NEW closes, Sweep(rows, st, closes)
  PROVE  \A s \in sweeps' : s.status \in {"revoked", "deleted"}
BY DEF Sweep, TokenInv, TokensSound

LEMMA TokenSteps ==
  ASSUME TokenInv, NEW t \in DOMAIN tokens,
         Expire(t) \/ RotateBegin(t) \/ RotateExpired(t) \/ RevokeToken(t) \/ ReuseToken(t)
  PROVE  TokenInv'
<1>0. /\ tokens \in Seq(Row) /\ tokens[t] \in Row /\ tokens[t].family \in 0..Len(tokens)
      /\ \A q \in rotating : Holds(q)
      /\ granting \subseteq Grant /\ \A s \in sweeps : s.status \in {"revoked", "deleted"}
  BY DEF TokenInv, TokensSound
<1>1. ASSUME NEW st \in Spent \cup {"expired"}, st = "expired" => tokens[t].status = "live",
             t \notin Locked, tokens' = [tokens EXCEPT ![t].status = st],
             rotating' = rotating, granting' = granting, sweeps' = sweeps
      PROVE  TokenInv'
  <2>1. Ageing(tokens') /\ \A u \in DOMAIN tokens \ {t} : tokens'[u] = tokens[u]
    BY <1>1, AgedRows DEF TokenInv
  <2>2. \A q \in rotating' : tokens'[q.token].status = "live"
    BY <1>0, <1>1, <2>1 DEF Locked, Holds
  <2> QED BY <1>0, <1>1, <2>1, <2>2, AgeingKeeps
<1>2. CASE Expire(t)
  BY <1>1, <1>2 DEF Expire
<1>3. CASE RotateBegin(t)
  <2>1. t \notin Locked /\ tokens[t].status = "live" /\ tokens' = tokens
        /\ rotating' = rotating \cup {[token |-> t, second |-> t \in Locked]}
    BY <1>3 DEF RotateBegin, LockRow
  <2>2. (t \in Locked) = FALSE
    BY <2>1
  <2>3. rotating' = rotating \cup {[token |-> t, second |-> FALSE]}
    BY <2>1, <2>2
  <2>4. \A q \in rotating' : Holds(q)
    BY <1>0, <2>1, <2>3 DEF Holds
  <2> QED BY <1>0, <1>3, <2>1, <2>4 DEF RotateBegin, TokenInv, TokensSound, OneLiveTokenPerFamily, Holds
<1>4. CASE RotateExpired(t)
  BY <1>1, <1>4 DEF RotateExpired, LockRow, Spent
<1>7. CASE RevokeToken(t)
  BY <1>1, <1>7 DEF RevokeToken, LockRow, Spent
<1>8. CASE ReuseToken(t)
  <2>1. \A s \in sweeps' : s.status \in {"revoked", "deleted"}
    BY <1>8, SweepsAreSound DEF ReuseToken
  <2> QED BY <1>0, <1>8, <2>1, SameRowsKeep DEF ReuseToken
<1> QED BY <1>2, <1>3, <1>4, <1>7, <1>8

\* The end of a rotation: the row it held is the only live one of its family.
LEMMA RotationEnds ==
  ASSUME TokenInv, NEW q \in rotating, RotateCommit(q) \/ RotateRollback(q)
  PROVE  TokenInv'
<1> DEFINE t == q.token
           rows == [tokens EXCEPT ![t].status = "rotated"]
           next == [tokens[t] EXCEPT !.status = "live"]
<1>0. /\ tokens \in Seq(Row) /\ t \in DOMAIN tokens /\ tokens[t] \in Row /\ tokens[t].family \in 0..Len(tokens)
      /\ tokens[t].status = "live"
      /\ \A r \in rotating : Holds(r)
      /\ granting \subseteq Grant /\ \A s \in sweeps : s.status \in {"revoked", "deleted"}
  BY DEF TokenInv, TokensSound, Holds
<1>1. CASE RotateRollback(q)
  BY <1>0, <1>1, SameRowsKeep DEF RotateRollback
<1>2. CASE RotateCommit(q)
  <2>1. /\ tokens' = Append(rows, next)
        /\ rotating' = rotating \ {q} /\ granting' = granting /\ sweeps' = sweeps
    BY <1>2 DEF RotateCommit
  <2>2. next \in Row /\ next.family = tokens[t].family
    BY <1>0 DEF Row, TokenStatus
  <2>3. Ageing(rows) /\ (\A u \in DOMAIN tokens \ {t} : rows[u] = tokens[u]) /\ rows[t].status = "rotated"
    <3>1. TokensSound /\ "rotated" \in Spent \cup {"expired"} /\ "rotated" # "expired"
      BY DEF TokenInv, Spent
    <3> HIDE DEF t
    <3> QED BY <1>0, <3>1, AgedRows
  <2>4. \A p \in rotating' : p.token \in DOMAIN tokens \ {t} /\ tokens[p.token].status = "live"
    <3>0. rotating' = rotating \ {q}
      BY <2>1
    <3> SUFFICES ASSUME NEW p \in rotating, p # q
                 PROVE  p.token \in DOMAIN tokens \ {t} /\ tokens[p.token].status = "live"
      BY <3>0
    <3>1. Holds(p) /\ Holds(q)
      BY <1>0
    <3>2. p.token # q.token
      BY <3>1 DEF Holds
    <3> QED BY <3>1, <3>2 DEF Holds
  <2> HIDE DEF rows, next, t
  <2>5. \A p \in rotating' : rows[p.token].status = "live"
    BY <2>3, <2>4
  <2>6. ASSUME NEW u \in DOMAIN tokens, rows[u].family = next.family
        PROVE  rows[u].status \in Spent
    <3>1. CASE u = t
      BY <2>3, <3>1 DEF Spent
    <3>2. CASE u # t
      <4>1. tokens[u].status \in Spent \/ tokens[t].status \in Spent
        BY <1>0, <2>2, <2>3, <2>6, <3>2, OneIsSpent DEF TokenInv
      <4> QED BY <1>0, <2>3, <3>2, <4>1 DEF Spent
    <3> QED BY <3>1, <3>2
  <2>7. Len(tokens) \in Nat /\ next.family \in 0..Len(tokens) + 1
    BY <1>0, <2>2
  <2> QED BY <1>0, <2>1, <2>2, <2>3, <2>5, <2>6, <2>7, AppendKeeps
<1> QED BY <1>1, <1>2

LEMMA InsertKeeps ==
  ASSUME TokenInv, NEW g \in granting, InsertSession(g)
  PROVE  TokenInv'
<1>0. /\ tokens \in Seq(Row) /\ granting \subseteq Grant /\ granting' \subseteq Grant
      /\ rotating' = rotating /\ sweeps' = sweeps
      /\ \A q \in rotating : Holds(q)
      /\ \A s \in sweeps : s.status \in {"revoked", "deleted"}
  BY DEF TokenInv, TokensSound, InsertSession
<1>1. CASE tokens' = tokens
  BY <1>0, <1>1, SameRowsKeep
<1>2. CASE tokens' # tokens
  <2> DEFINE row == [family |-> Len(tokens) + 1, user |-> g.user, space |-> g.space, status |-> "live"]
  <2>1. tokens' = Append(tokens, row)
    BY <1>2 DEF InsertSession
  <2>2. Len(tokens) \in Nat /\ row \in Row /\ row.family = Len(tokens) + 1
    <3>1. Len(tokens) \in Nat /\ g.user \in User /\ g.space \in User
      BY <1>0 DEF Grant
    <3> QED BY <3>1 DEF Row, TokenStatus
  <2> HIDE DEF row
  <2>3. Ageing(tokens)
    BY <1>0 DEF Ageing, Spent
  <2>4. \A t \in DOMAIN tokens : tokens[t].family # row.family
    BY <2>2 DEF TokenInv, TokensSound
  <2>5. row.family \in 0..Len(tokens) + 1 /\ \A q \in rotating' : tokens[q.token].status = "live"
    BY <1>0, <2>2 DEF Holds
  <2> QED BY <1>0, <2>1, <2>2, <2>3, <2>4, <2>5, AppendKeeps
<1> QED BY <1>1, <1>2

LEMMA SweepEndKeeps ==
  ASSUME TokenInv, NEW s \in sweeps, SweepEnd(s)
  PROVE  TokenInv'
<1>0. /\ tokens \in Seq(Row) /\ granting' \subseteq Grant /\ rotating' = rotating
      /\ \A q \in rotating : Holds(q)
      /\ s.status \in {"revoked", "deleted"} /\ s.seen \cap Locked = {}
      /\ \A r \in sweeps' : r.status \in {"revoked", "deleted"}
  BY DEF TokenInv, TokensSound, SweepEnd
<1>1. tokens' = [t \in DOMAIN tokens |-> IF t \in s.seen /\ tokens[t].status # "deleted"
                                         THEN [tokens[t] EXCEPT !.status = s.status] ELSE tokens[t]]
  BY DEF SweepEnd
<1>2. \A t \in DOMAIN tokens : [tokens[t] EXCEPT !.status = s.status] \in Row
          /\ [tokens[t] EXCEPT !.status = s.status].family = tokens[t].family
          /\ [tokens[t] EXCEPT !.status = s.status].status = s.status
  <2> TAKE t \in DOMAIN tokens
  <2>1. tokens[t] \in Row /\ s.status \in TokenStatus
    BY <1>0 DEF TokenStatus
  <2> QED BY <2>1 DEF Row
<1>3. DOMAIN tokens = 1..Len(tokens) /\ Len(tokens) \in Nat /\ \A t \in DOMAIN tokens : tokens[t] \in Row
  BY <1>0
<1>4. \A t \in DOMAIN tokens : tokens'[t] \in Row /\ tokens'[t].family = tokens[t].family
          /\ tokens'[t].status \in Spent \cup {tokens[t].status}
  <2> TAKE t \in DOMAIN tokens
  <2>1. tokens'[t] = tokens[t] \/ tokens'[t] = [tokens[t] EXCEPT !.status = s.status]
    BY <1>1
  <2> QED BY <1>0, <1>2, <1>3, <2>1 DEF Spent
<1>5. tokens' \in Seq(Row) /\ Len(tokens') = Len(tokens)
  <2>1. tokens' \in [1..Len(tokens) -> Row]
    BY <1>1, <1>3, <1>4
  <2> QED BY <1>3, <2>1
<1>6. Ageing(tokens')
  BY <1>4, <1>5 DEF Ageing
<1>7. \A q \in rotating' : tokens'[q.token].status = "live"
  <2> SUFFICES ASSUME NEW q \in rotating PROVE tokens'[q.token] = tokens[q.token]
    BY <1>0 DEF Holds
  <2>1. q.token \in DOMAIN tokens /\ q.token \notin s.seen
    BY <1>0 DEF Locked, Holds
  <2> QED BY <1>1, <2>1
<1> QED BY <1>0, <1>6, <1>7, AgeingKeeps

\* The other operations start revocations and sessions, or do nothing to either.
LEMMA NextTokens == TokenInv /\ [AccountsNext]_accountVars => TokenInv'
<1> SUFFICES ASSUME TokenInv, [AccountsNext]_accountVars PROVE TokenInv'
  OBVIOUS
<1>0. granting \subseteq Grant /\ \A s \in sweeps : s.status \in {"revoked", "deleted"}
  BY DEF TokenInv, TokensSound
<1>1. ASSUME tokens' = tokens, rotating' = rotating, granting' = granting, sweeps' = sweeps
      PROVE  TokenInv'
  BY <1>0, <1>1, SameRowsKeep
<1>2. ASSUME NEW u \in User, SignUp(u) PROVE TokenInv'
  <2>1. [user : {u} \cap Client, space : {u}] \subseteq Grant
    BY DEF Grant
  <2> QED BY <1>0, <1>2, <2>1, SameRowsKeep DEF SignUp
<1>3. ASSUME NEW u \in User, NEW w \in User, CreateSession(u, w), tokens' = tokens,
             rotating' = rotating, sweeps' = sweeps
      PROVE  TokenInv'
  <2>1. [user |-> u, space |-> w] \in Grant
    BY DEF Grant
  <2> QED BY <1>0, <1>3, <2>1, SameRowsKeep DEF CreateSession
<1>4. ASSUME NEW u \in User, Login(u) PROVE TokenInv'
  BY <1>3, <1>4 DEF Login
<1>5. ASSUME NEW u \in User, DeletePasskey(u) PROVE TokenInv'
  BY <1>1, <1>5 DEF DeletePasskey, Rest
<1>6. ASSUME NEW u \in User, RevokeSessions(u) \/ DeleteWorkspaces(u) PROVE TokenInv'
  <2>1. \A s \in sweeps' : s.status \in {"revoked", "deleted"}
    BY <1>6, SweepsAreSound DEF RevokeSessions, DeleteWorkspaces
  <2> QED BY <1>0, <1>6, <2>1, SameRowsKeep DEF RevokeSessions, DeleteWorkspaces
<1>14. ASSUME NEW u \in User, DeleteAccount(u) \/ KeepAccount(u) PROVE TokenInv'
  BY <1>1, <1>14 DEF DeleteAccount, KeepAccount
<1>7. ASSUME NEW c \in Challenge, OfferChallenge(c) \/ DropChallenge(c) \/ RegisterPasskey(c)
      PROVE  TokenInv'
  BY <1>1, <1>7 DEF OfferChallenge, DropChallenge, RegisterPasskey, Rest
<1>8. ASSUME NEW c \in Challenge, PasskeyLogin(c) PROVE TokenInv'
  <2>1. c.user \in User /\ Home(c.user) \subseteq User
    BY AccountsAssumption DEF Challenge, Home
  <2> QED BY <1>3, <1>8, <2>1 DEF PasskeyLogin
<1>9. ASSUME NEW w \in Shared, NEW u \in User, NEW r, ChangeMember(w, u, r) PROVE TokenInv'
  <2>1. \A s \in sweeps' : s.status \in {"revoked", "deleted"}
    BY <1>9, SweepsAreSound DEF ChangeMember
  <2> QED BY <1>0, <1>9, <2>1, SameRowsKeep DEF ChangeMember
<1>10. ASSUME NEW w \in Shared, NEW u \in User, NEW r, AddBegin(w, u, r) PROVE TokenInv'
  BY <1>1, <1>10 DEF AddBegin
<1>11. ASSUME NEW a \in adding, AddCommit(a) PROVE TokenInv'
  BY <1>1, <1>11 DEF AddCommit
<1>12. ASSUME NEW w \in Shared, NEW p \in Plan, AssignPlan(w, p) PROVE TokenInv'
  BY <1>1, <1>12 DEF AssignPlan, Rest
<1>13. CASE UNCHANGED accountVars
  BY <1>1, <1>13 DEF accountVars
<1> QED BY <1>2, <1>4, <1>5, <1>6, <1>7, <1>8, <1>9, <1>10, <1>11, <1>12, <1>13, <1>14,
           TokenSteps, RotationEnds, InsertKeeps, SweepEndKeeps DEF AccountsNext

\* Whatever logins, refreshes of one token, replays, revocations and account deletions
\* run at once, and however many tokens there are: a family never has two tokens that could still
\* be rotated (auth/session.ts:177, the row lock of rotateSession).
THEOREM OneLiveToken == AccountsSpec => []OneLiveTokenPerFamily
<1>1. TokenInv => OneLiveTokenPerFamily
  BY DEF TokenInv
<1> QED BY <1>1, InitTokens, NextTokens, PTL DEF AccountsSpec

-----------------------------------------------------------------------------
(* Members.                                                                 *)

MemberTypes ==
    /\ users \in [User -> {"absent", "active", "deleted"}]
    /\ members \in [User -> [User -> Role \cup {"none"}]]
    /\ plan \in [User -> Plan] /\ peakSeats \in [User -> Nat]

\* What the owner's row relies on: only the founder owns a workspace, a workspace
\* with members has that row and an active owner, and no addition makes an owner.
OwnersOwn ==
    /\ \A w \in User : /\ \A u \in User : members[w][u] = "owner" => u = w
                       /\ Team(w) # {} => members[w][w] = "owner" /\ users[w] = "active"
    /\ adding \subseteq [space : User, user : User, role : {"admin", "viewer"}]

\* What the advisory lock is for: an addition under way has a seat, and is the only
\* one of its workspace.
SeatsReserved ==
    /\ \A w \in User : users[w] = "active" => Seats[plan[w]] <= peakSeats[w]
    /\ \A a \in adding : /\ Cardinality(Team(a.space)) < peakSeats[a.space]
                         /\ users[a.space] # "absent"
                         /\ \A b \in adding : b.space = a.space => b = a

\* The invariant of the members.
MemberInv == MemberTypes /\ OwnersOwn /\ SeatsReserved /\ SeatsWithinPlan

LEMMA TeamsAreFinite ==
  \A w : IsFiniteSet(Team(w)) /\ Cardinality(Team(w)) \in Nat
<1> SUFFICES ASSUME NEW w PROVE IsFiniteSet(Team(w)) /\ Cardinality(Team(w)) \in Nat
  OBVIOUS
<1>1. Team(w) \in SUBSET User /\ IsFiniteSet(User)
  BY AccountsAssumption DEF Team
<1>2. IsFiniteSet(Team(w))
  BY <1>1, FS_Subset
<1> QED BY <1>2, FS_CardinalityType

\* A team from which members may have gone is no larger.
LEMMA SmallerTeams ==
  ASSUME NEW w, Team(w)' \subseteq Team(w)
  PROVE  Cardinality(Team(w)') \in Nat /\ Cardinality(Team(w)') <= Cardinality(Team(w))
<1>1. IsFiniteSet(Team(w)) /\ Team(w)' \in SUBSET Team(w)
  BY TeamsAreFinite
<1>2. IsFiniteSet(Team(w)') /\ Cardinality(Team(w)') <= Cardinality(Team(w))
  BY <1>1, FS_Subset
<1> QED BY <1>2, FS_CardinalityType

LEMMA InitMembers == AccountsInit => MemberInv
<1> SUFFICES ASSUME AccountsInit PROVE MemberInv
  OBVIOUS
<1>1. MemberTypes
  BY AccountsAssumption DEF AccountsInit, MemberTypes
<1>2. \A w \in User : Team(w) = {} /\ peakSeats[w] = 0 /\ users[w] = "absent"
  BY DEF AccountsInit, Team
<1>3. OwnersOwn /\ SeatsReserved
  BY <1>2 DEF AccountsInit, OwnersOwn, SeatsReserved
<1>4. SeatsWithinPlan
  BY <1>2, FS_EmptySet DEF SeatsWithinPlan
<1> QED BY <1>1, <1>3, <1>4 DEF MemberInv

LEMMA SignUpKeeps ==
  ASSUME MemberInv, NEW u \in User, SignUp(u)
  PROVE  MemberInv'
<1> USE DEF MemberInv
<1>0. /\ users[u] = "absent" /\ users' = [users EXCEPT ![u] = "active"]
      /\ members' = [members EXCEPT ![u][u] = "owner"]
      /\ plan' = [plan EXCEPT ![u] = FirstPlan]
      /\ peakSeats' = [peakSeats EXCEPT ![u] = Seats[FirstPlan]] /\ adding' = adding
  BY DEF SignUp
<1>1. Seats[FirstPlan] \in Nat \ {0}
  BY AccountsAssumption
<1>2. MemberTypes'
  <2>1. users' \in [User -> {"absent", "active", "deleted"}] /\ plan' \in [User -> Plan]
        /\ peakSeats' \in [User -> Nat]
    BY <1>0, <1>1, AccountsAssumption DEF MemberTypes
  <2>2. members' \in [User -> [User -> Role \cup {"none"}]]
    BY <1>0 DEF MemberTypes, Role
  <2> QED BY <2>1, <2>2 DEF MemberTypes
<1>3. Team(u) = {} /\ \A a \in adding : a.space # u
  BY <1>0 DEF OwnersOwn, SeatsReserved
<1>4. Team(u)' = {u} /\ \A w \in User \ {u} : Team(w)' = Team(w)
  <2>1. \A v \in User : members[u][v] = "none"
    BY <1>3 DEF Team
  <2> QED BY <1>0, <2>1 DEF Team, MemberTypes
<1>5. OwnersOwn'
  <2>1. \A w \in User \ {u} : members'[w] = members[w] /\ users'[w] = users[w]
    BY <1>0 DEF MemberTypes
  <2>2. members'[u][u] = "owner" /\ users'[u] = "active"
        /\ \A v \in User \ {u} : members'[u][v] = members[u][v]
    BY <1>0 DEF MemberTypes
  <2> QED BY <1>0, <1>4, <2>1, <2>2 DEF OwnersOwn
<1>6. /\ \A w \in User \ {u} : users'[w] = users[w] /\ plan'[w] = plan[w] /\ peakSeats'[w] = peakSeats[w]
      /\ plan'[u] = FirstPlan /\ peakSeats'[u] = Seats[FirstPlan]
  BY <1>0 DEF MemberTypes
<1>7. SeatsReserved'
  <2>1. \A a \in adding : a.space \in User \ {u}
    BY <1>3 DEF OwnersOwn
  <2>2. \A w \in User : users'[w] = "active" => Seats[plan'[w]] <= peakSeats'[w]
    BY <1>1, <1>6 DEF SeatsReserved
  <2>3. \A a \in adding : Cardinality(Team(a.space)') < peakSeats'[a.space] /\ users'[a.space] # "absent"
    BY <1>4, <1>6, <2>1 DEF SeatsReserved
  <2> QED BY <1>0, <2>2, <2>3 DEF SeatsReserved
<1>8. SeatsWithinPlan'
  <2>1. Cardinality(Team(u)') = 1
    BY <1>4, FS_Singleton
  <2> QED BY <1>1, <1>4, <1>6, <2>1 DEF SeatsWithinPlan
<1> QED BY <1>2, <1>5, <1>7, <1>8

\* An addition takes a seat and the lock.
LEMMA AddBeginKeeps ==
  ASSUME MemberInv, NEW w \in User, NEW u \in User, NEW r \in {"admin", "viewer"}, AddBegin(w, u, r)
  PROVE  MemberInv'
<1> USE DEF MemberInv
<1> DEFINE new == [space |-> w, user |-> u, role |-> r]
<1>0. /\ UNCHANGED memberVars /\ adding' = adding \cup {new}
      /\ w \in Spaces /\ (\A a \in adding : a.space # w) /\ Cardinality(Team(w)) < Seats[plan[w]]
  BY DEF AddBegin, SeatLock
<1>1. MemberTypes' /\ SeatsWithinPlan' /\ \A v : Team(v)' = Team(v)
  BY <1>0 DEF memberVars, MemberTypes, SeatsWithinPlan, Team
<1>2. OwnersOwn'
  BY <1>0, <1>1 DEF memberVars, OwnersOwn
<1>3. users[w] = "active" /\ Cardinality(Team(w)) < peakSeats[w]
  <2>1. Team(w) # {}
    BY <1>0 DEF Spaces, Team
  <2>2. users[w] = "active"
    BY <2>1 DEF OwnersOwn
  <2>3. Seats[plan[w]] \in Nat /\ peakSeats[w] \in Nat /\ Cardinality(Team(w)) \in Nat
    BY AccountsAssumption, TeamsAreFinite DEF MemberTypes
  <2> QED BY <1>0, <2>2, <2>3 DEF SeatsReserved
<1>4. new.space = w
  OBVIOUS
<1> HIDE DEF new
<1>5. SeatsReserved'
  BY <1>0, <1>1, <1>3, <1>4 DEF memberVars, SeatsReserved
<1> QED BY <1>1, <1>2, <1>5

LEMMA AddCommitKeeps ==
  ASSUME MemberInv, NEW a \in adding, AddCommit(a)
  PROVE  MemberInv'
<1> USE DEF MemberInv
<1>0. /\ adding' = adding \ {a} /\ users' = users /\ plan' = plan /\ peakSeats' = peakSeats
      /\ a.space \in User /\ a.user \in User /\ a.role \in {"admin", "viewer"}
  BY DEF AddCommit, OwnersOwn
<1>1. CASE members' = members
  <2>1. \A w : Team(w)' = Team(w)
    BY <1>1 DEF Team
  <2> QED BY <1>0, <1>1, <2>1 DEF MemberTypes, OwnersOwn, SeatsReserved, SeatsWithinPlan
<1>2. CASE members' # members
  <2>1. /\ members[a.space][a.user] = "none" /\ a.space \in Spaces
        /\ members' = [members EXCEPT ![a.space][a.user] = a.role]
    BY <1>2 DEF AddCommit
  <2>2. members' \in [User -> [User -> Role \cup {"none"}]]
    BY <1>0, <2>1 DEF MemberTypes, Role
  <2>3. /\ members'[a.space][a.user] = a.role
        /\ \A w, u \in User : w # a.space \/ u # a.user => members'[w][u] = members[w][u]
    BY <1>0, <2>1 DEF MemberTypes
  <2>4. Team(a.space)' = Team(a.space) \cup {a.user} /\ \A w \in User \ {a.space} : Team(w)' = Team(w)
    BY <1>0, <2>1, <2>3 DEF Team
  <2>5. Team(a.space) # {}
    BY <2>1 DEF Spaces, Team
  <2>6. OwnersOwn'
    <3>1. \A w \in User : \A u \in User : members'[w][u] = "owner" => u = w
      BY <1>0, <2>3 DEF OwnersOwn
    <3>2. ASSUME NEW w \in User, Team(w)' # {} PROVE members'[w][w] = "owner" /\ users'[w] = "active"
      <4>1. Team(w) # {}
        BY <2>4, <2>5, <3>2
      <4>2. members[w][w] = "owner" /\ users[w] = "active"
        BY <4>1 DEF OwnersOwn
      <4> QED BY <1>0, <2>1, <2>3, <4>2
    <3> QED BY <1>0, <3>1, <3>2 DEF OwnersOwn
  <2>7. /\ Cardinality(Team(a.space)) \in Nat /\ Cardinality(Team(a.space)') \in Nat
        /\ Cardinality(Team(a.space)') <= Cardinality(Team(a.space)) + 1
    <3> DEFINE team == Team(a.space)
               grown == team \cup {a.user}
    <3>1. IsFiniteSet(team) /\ Cardinality(team) \in Nat
      BY TeamsAreFinite
    <3>2. Team(a.space)' = grown
      BY <2>4
    <3> HIDE DEF team
    <3>3. IsFiniteSet(grown) /\ Cardinality(grown) = IF a.user \in team THEN Cardinality(team) ELSE Cardinality(team) + 1
      BY <3>1, FS_AddElement
    <3>4. Cardinality(grown) \in Nat /\ Cardinality(grown) <= Cardinality(team) + 1
      BY <3>1, <3>3
    <3> QED BY <3>1, <3>2, <3>4 DEF team
  <2>8. SeatsReserved'
    <3>1. \A b \in adding' : b.space \in User \ {a.space}
      BY <1>0 DEF SeatsReserved, OwnersOwn
    <3> QED BY <1>0, <2>4, <3>1 DEF SeatsReserved
  <2>9. SeatsWithinPlan'
    <3>1. Cardinality(Team(a.space)) < peakSeats[a.space] /\ peakSeats[a.space] \in Nat
      BY <1>0 DEF SeatsReserved, MemberTypes
    <3>2. Cardinality(Team(a.space)') <= peakSeats'[a.space]
      BY <1>0, <2>7, <3>1
    <3> QED BY <1>0, <2>4, <3>2 DEF SeatsWithinPlan
  <2> QED BY <1>0, <2>2, <2>6, <2>8, <2>9 DEF MemberTypes
<1> QED BY <1>1, <1>2

\* Members change or go, workspaces close: no team grows.
LEMMA LeavingKeeps ==
  ASSUME MemberInv, NEW gone \in SUBSET User,
         users' = [u \in User |-> IF u \in gone THEN "deleted" ELSE users[u]],
         members' \in [User -> [User -> Role \cup {"none"}]],
         \A w, u \in User : members'[w][u] = "owner" => members[w][u] = "owner",
         \A w, u \in User : members[w][u] = "none" => members'[w][u] = "none",
         \A w \in User \ gone : members[w][w] = "owner" => members'[w][w] = "owner",
         \A w \in gone, u \in User : members'[w][u] = "none",
         plan' = plan, peakSeats' = peakSeats, adding' = adding
  PROVE  MemberInv'
<1> USE DEF MemberInv
<1>1. \A w \in User : Team(w)' \subseteq Team(w) /\ (w \in gone => Team(w)' = {})
  BY DEF Team
<1>2. MemberTypes' /\ \A u \in User : users'[u] = IF u \in gone THEN "deleted" ELSE users[u]
  BY DEF MemberTypes
<1>3. OwnersOwn'
  BY <1>1, <1>2 DEF OwnersOwn
<1>4. \A w \in User : /\ Cardinality(Team(w)') \in Nat /\ Cardinality(Team(w)) \in Nat
                      /\ Cardinality(Team(w)') <= Cardinality(Team(w)) /\ peakSeats[w] \in Nat
  BY <1>1, SmallerTeams, TeamsAreFinite DEF MemberTypes
<1>5. SeatsReserved'
  <2>1. \A a \in adding : a.space \in User
    BY DEF OwnersOwn
  <2>2. \A w \in User : users'[w] = "absent" <=> users[w] = "absent" /\ w \notin gone
    BY <1>2
  <2>3. ASSUME NEW a \in adding
        PROVE  Cardinality(Team(a.space)') < peakSeats[a.space] /\ users'[a.space] # "absent"
    <3>1. Cardinality(Team(a.space)) < peakSeats[a.space] /\ users[a.space] # "absent"
      BY DEF SeatsReserved
    <3> QED BY <1>4, <2>1, <2>2, <3>1
  <2>4. \A w \in User : users'[w] = "active" => Seats[plan[w]] <= peakSeats[w]
    BY <1>2 DEF SeatsReserved
  <2> QED BY <2>3, <2>4 DEF SeatsReserved
<1>6. SeatsWithinPlan'
  BY <1>4 DEF SeatsWithinPlan
<1> QED BY <1>2, <1>3, <1>5, <1>6

LEMMA MemberSteps ==
  ASSUME MemberInv, NEW w \in User, NEW u \in User, NEW r \in {"admin", "viewer", "none"}, ChangeMember(w, u, r)
  PROVE  MemberInv'
<1>0. /\ members[w][u] \in {"admin", "viewer"} /\ members' = [members EXCEPT ![w][u] = r]
      /\ users' = users /\ plan' = plan /\ peakSeats' = peakSeats /\ adding' = adding
      /\ users \in [User -> {"absent", "active", "deleted"}]
      /\ members \in [User -> [User -> Role \cup {"none"}]]
  BY DEF ChangeMember, Changeable, MemberInv, MemberTypes
<1> DEFINE gone == {}
<1>1. users' = [v \in User |-> IF v \in gone THEN "deleted" ELSE users[v]]
  BY <1>0
<1>2. members' \in [User -> [User -> Role \cup {"none"}]]
  BY <1>0 DEF Role
<1>3. members'[w][u] = r /\ \A x, v \in User : x # w \/ v # u => members'[x][v] = members[x][v]
  BY <1>0
<1>4. /\ \A x, v \in User : members'[x][v] = "owner" => members[x][v] = "owner"
      /\ \A x, v \in User : members[x][v] = "none" => members'[x][v] = "none"
      /\ \A x \in User \ gone : members[x][x] = "owner" => members'[x][x] = "owner"
  BY <1>0, <1>3
<1>5. gone \in SUBSET User /\ \A x \in gone, v \in User : members'[x][v] = "none"
  OBVIOUS
<1> HIDE DEF gone
<1> QED BY <1>0, <1>1, <1>2, <1>4, <1>5, LeavingKeeps

LEMMA ClosingKeeps ==
  ASSUME MemberInv, NEW s \in sweeps, SweepEnd(s)
  PROVE  MemberInv'
<1> DEFINE gone == s.closes \cap User
<1>0. /\ users' = [u \in User |-> IF u \in s.closes THEN "deleted" ELSE users[u]]
      /\ members' = [w \in User |-> [u \in User |-> IF w \in s.closes \/ u \in s.closes THEN "none" ELSE members[w][u]]]
      /\ plan' = plan /\ peakSeats' = peakSeats /\ adding' = adding
      /\ members \in [User -> [User -> Role \cup {"none"}]]
  BY DEF SweepEnd, MemberInv, MemberTypes
<1>1. users' = [u \in User |-> IF u \in gone THEN "deleted" ELSE users[u]]
  BY <1>0
<1>2. members' \in [User -> [User -> Role \cup {"none"}]]
  BY <1>0
<1>3. \A w, u \in User : members'[w][u] = IF w \in gone \/ u \in gone THEN "none" ELSE members[w][u]
  BY <1>0
<1>4. gone \in SUBSET User
  OBVIOUS
<1> HIDE DEF gone
<1>5. /\ \A w, u \in User : members'[w][u] = "owner" => members[w][u] = "owner"
      /\ \A w, u \in User : members[w][u] = "none" => members'[w][u] = "none"
      /\ \A w \in User \ gone : members[w][w] = "owner" => members'[w][w] = "owner"
      /\ \A w \in gone, u \in User : members'[w][u] = "none"
  BY <1>3, <1>4
<1> QED BY <1>0, <1>1, <1>2, <1>4, <1>5, LeavingKeeps

LEMMA AssignKeeps ==
  ASSUME MemberInv, NEW w \in User, NEW p \in Plan, AssignPlan(w, p)
  PROVE  MemberInv'
<1>0. /\ users' = users /\ members' = members /\ adding' = adding
      /\ plan' = [plan EXCEPT ![w] = p] /\ Seats[p] \in Nat
      /\ peakSeats' = [peakSeats EXCEPT ![w] = IF Seats[p] > peakSeats[w] THEN Seats[p] ELSE peakSeats[w]]
      /\ plan \in [User -> Plan] /\ peakSeats \in [User -> Nat]
  BY AccountsAssumption DEF AssignPlan, Rest, MemberInv, MemberTypes
<1>1. plan' \in [User -> Plan] /\ peakSeats' \in [User -> Nat]
  BY <1>0
<1>2. \A v \in User : peakSeats'[v] >= peakSeats[v] /\ (v # w => plan'[v] = plan[v])
  BY <1>0
<1>3. plan'[w] = p /\ Seats[p] <= peakSeats'[w]
  BY <1>0
<1>4. \A v : Team(v)' = Team(v)
  BY <1>0 DEF Team
<1>5. \A v \in User : Cardinality(Team(v)) \in Nat /\ peakSeats[v] \in Nat /\ peakSeats'[v] \in Nat
                      /\ Seats[plan[v]] \in Nat
  BY <1>0, <1>1, TeamsAreFinite, AccountsAssumption
<1>6. MemberTypes' /\ OwnersOwn'
  BY <1>0, <1>1, <1>4 DEF MemberInv, MemberTypes, OwnersOwn
<1>7. SeatsReserved'
  <2>1. \A a \in adding : a.space \in User
    BY DEF MemberInv, OwnersOwn
  <2>2. \A a \in adding : Cardinality(Team(a.space)) < peakSeats'[a.space]
    BY <1>2, <1>5, <2>1 DEF MemberInv, SeatsReserved
  <2>3. \A v \in User : users[v] = "active" => Seats[plan'[v]] <= peakSeats'[v]
    BY <1>2, <1>3, <1>5 DEF MemberInv, SeatsReserved
  <2> QED BY <1>0, <1>4, <2>2, <2>3 DEF MemberInv, SeatsReserved
<1>8. SeatsWithinPlan'
  BY <1>2, <1>4, <1>5 DEF MemberInv, SeatsWithinPlan
<1> QED BY <1>6, <1>7, <1>8 DEF MemberInv

LEMMA NextMembers == MemberInv /\ [AccountsNext]_accountVars => MemberInv'
<1> SUFFICES ASSUME MemberInv, [AccountsNext]_accountVars PROVE MemberInv'
  OBVIOUS
<1>1. ASSUME UNCHANGED <<memberVars, adding>> PROVE MemberInv'
  BY <1>1 DEF MemberInv, memberVars, MemberTypes, OwnersOwn, SeatsReserved, SeatsWithinPlan, Team
<1>2. ASSUME NEW u \in User, Login(u) \/ DeletePasskey(u) \/ RevokeSessions(u) \/ DeleteAccount(u)
                               \/ DeleteWorkspaces(u) \/ KeepAccount(u)
      PROVE  MemberInv'
  BY <1>1, <1>2 DEF Login, DeletePasskey, RevokeSessions, DeleteAccount, DeleteWorkspaces, KeepAccount, Rest
<1>3. ASSUME NEW c \in Challenge, OfferChallenge(c) \/ DropChallenge(c) \/ RegisterPasskey(c) \/ PasskeyLogin(c)
      PROVE  MemberInv'
  BY <1>1, <1>3 DEF OfferChallenge, DropChallenge, RegisterPasskey, PasskeyLogin, Rest
<1>4. ASSUME NEW g \in granting, InsertSession(g) PROVE MemberInv'
  BY <1>1, <1>4 DEF InsertSession
<1>5. ASSUME NEW t \in DOMAIN tokens,
             Expire(t) \/ RotateBegin(t) \/ RotateExpired(t) \/ RevokeToken(t) \/ ReuseToken(t)
      PROVE  MemberInv'
  BY <1>1, <1>5 DEF Expire, RotateBegin, RotateExpired, RevokeToken, ReuseToken
<1>8. ASSUME NEW q \in rotating, RotateCommit(q) \/ RotateRollback(q)
      PROVE  MemberInv'
  BY <1>1, <1>8 DEF RotateCommit, RotateRollback
<1>6. CASE UNCHANGED accountVars
  BY <1>1, <1>6 DEF accountVars
<1>7. Shared \subseteq User
  BY AccountsAssumption
<1> QED BY <1>2, <1>3, <1>4, <1>5, <1>6, <1>7, <1>8, SignUpKeeps, AddBeginKeeps, AddCommitKeeps, MemberSteps,
           ClosingKeeps, AssignKeeps DEF AccountsNext

\* An account whose workspaces were counted has them alone, until somebody joins.
ClosingInv ==
    /\ closing \in [User -> {"no", "counted", "joined", "deleting"}]
    /\ \A u \in User : closing[u] = "counted" => Team(u) \subseteq {u}
    /\ evicted = {}

\* A step after which no team has grown and no account is newly counted.
LEMMA NoTeamGrows ==
  ASSUME ClosingInv, evicted' = evicted,
         closing' \in [User -> {"no", "counted", "joined", "deleting"}],
         \A u \in User : closing'[u] = "counted" => closing[u] = "counted" /\ Team(u)' \subseteq Team(u)
  PROVE  ClosingInv'
BY DEF ClosingInv

LEMMA NextClosing ==
  ASSUME MemberInv, ClosingInv, [AccountsNext]_accountVars
  PROVE  ClosingInv'
<1>0. /\ members \in [User -> [User -> Role \cup {"none"}]]
      /\ closing \in [User -> {"no", "counted", "joined", "deleting"}]
  BY DEF MemberInv, MemberTypes, ClosingInv
<1>1. ASSUME members' = members, UNCHANGED closingVars PROVE ClosingInv'
  BY <1>1 DEF ClosingInv, closingVars, Team
<1>2. ASSUME NEW u \in User, SignUp(u) PROVE ClosingInv'
  <2>1. members' = [members EXCEPT ![u][u] = "owner"] /\ UNCHANGED closingVars
    BY <1>2 DEF SignUp
  <2>2. \A w \in User : Team(w)' \subseteq Team(w) \cup ({u} \cap {w})
    BY <1>0, <2>1 DEF Team
  <2> QED BY <2>1, <2>2 DEF ClosingInv, closingVars
<1>3. ASSUME NEW u \in User, Login(u) \/ DeletePasskey(u) \/ RevokeSessions(u) PROVE ClosingInv'
  BY <1>1, <1>3 DEF Login, DeletePasskey, RevokeSessions, Rest, memberVars
<1>4. ASSUME NEW u \in User, DeleteAccount(u) PROVE ClosingInv'
  <2>1. /\ closing' = [closing EXCEPT ![u] = "counted"] /\ Team(u) \subseteq {u}
        /\ members' = members /\ evicted' = evicted
    BY <1>4 DEF DeleteAccount, memberVars
  <2> QED BY <1>0, <2>1 DEF ClosingInv, Team
<1>5. ASSUME NEW u \in User, DeleteWorkspaces(u) PROVE ClosingInv'
  <2>1. closing' = [closing EXCEPT ![u] = "deleting"] /\ members' = members
    BY <1>5 DEF DeleteWorkspaces, memberVars
  <2>2. evicted' = evicted
    BY <1>5 DEF DeleteWorkspaces, ClosingInv
  <2> QED BY <1>0, <2>1, <2>2 DEF ClosingInv, Team
<1>6. ASSUME NEW u \in User, KeepAccount(u) PROVE ClosingInv'
  <2>1. closing' = [closing EXCEPT ![u] = "no"] /\ members' = members /\ evicted' = evicted
    BY <1>6 DEF KeepAccount, memberVars
  <2> QED BY <1>0, <2>1 DEF ClosingInv, Team
<1>7. ASSUME NEW c \in Challenge, OfferChallenge(c) \/ DropChallenge(c) \/ RegisterPasskey(c) \/ PasskeyLogin(c)
      PROVE  ClosingInv'
  BY <1>1, <1>7 DEF OfferChallenge, DropChallenge, RegisterPasskey, PasskeyLogin, Rest, memberVars
<1>8. ASSUME NEW g \in granting, InsertSession(g) PROVE ClosingInv'
  BY <1>1, <1>8 DEF InsertSession, memberVars
<1>9. ASSUME NEW t \in DOMAIN tokens,
             Expire(t) \/ RotateBegin(t) \/ RotateExpired(t) \/ RevokeToken(t) \/ ReuseToken(t)
      PROVE  ClosingInv'
  BY <1>1, <1>9 DEF Expire, RotateBegin, RotateExpired, RevokeToken, ReuseToken, memberVars
<1>10. ASSUME NEW q \in rotating, RotateCommit(q) \/ RotateRollback(q) PROVE ClosingInv'
  BY <1>1, <1>10 DEF RotateCommit, RotateRollback, memberVars
<1>11. ASSUME NEW s \in sweeps, SweepEnd(s) PROVE ClosingInv'
  <2>1. /\ members' = [w \in User |-> [u \in User |->
                         IF w \in s.closes \/ u \in s.closes THEN "none" ELSE members[w][u]]]
        /\ closing' = [u \in User |-> IF u \in s.closes THEN "no" ELSE closing[u]]
        /\ evicted' = evicted
    BY <1>11 DEF SweepEnd
  <2>2. \A u \in User : Team(u)' \subseteq Team(u)
    BY <2>1 DEF Team
  <2>3. \A u \in User : closing'[u] \in {"no", closing[u]}
    BY <2>1
  <2>4. closing' \in [User -> {"no", "counted", "joined", "deleting"}]
    BY <1>0, <2>1
  <2>5. \A u \in User : closing'[u] = "counted" => closing[u] = "counted"
    BY <2>3
  <2> QED BY <2>1, <2>2, <2>4, <2>5, NoTeamGrows
<1>12. ASSUME NEW w \in User, NEW u \in User, NEW r, AddBegin(w, u, r) PROVE ClosingInv'
  BY <1>1, <1>12 DEF AddBegin, memberVars
<1>13. ASSUME NEW a \in adding, AddCommit(a) PROVE ClosingInv'
  <2>1. a.space \in User /\ a.user \in User /\ a.role \in {"admin", "viewer"}
    BY DEF MemberInv, OwnersOwn
  <2>2. CASE members[a.space][a.user] = "none" /\ a.space \in Spaces
    <3>1. /\ members' = [members EXCEPT ![a.space][a.user] = a.role]
          /\ closing' = IF closing[a.space] = "counted" THEN [closing EXCEPT ![a.space] = "joined"] ELSE closing
          /\ evicted' = evicted
      BY <1>13, <2>2 DEF AddCommit
    <3>2. \A w \in User \ {a.space} : Team(w)' = Team(w)
      BY <1>0, <2>1, <3>1 DEF Team
    <3>3. /\ closing' \in [User -> {"no", "counted", "joined", "deleting"}]
          /\ closing'[a.space] # "counted"
          /\ \A w \in User \ {a.space} : closing'[w] = closing[w]
      BY <1>0, <2>1, <3>1
    <3> QED BY <3>1, <3>2, <3>3, NoTeamGrows
  <2>3. CASE ~(members[a.space][a.user] = "none" /\ a.space \in Spaces)
    <3>1. members' = members /\ UNCHANGED closingVars
      BY <1>13, <2>3 DEF AddCommit, closingVars
    <3> QED BY <1>1, <3>1
  <2> QED BY <2>2, <2>3
<1>14. ASSUME NEW w \in User, NEW u \in User, NEW r \in {"admin", "viewer", "none"}, ChangeMember(w, u, r)
       PROVE  ClosingInv'
  <2>1. /\ members[w][u] \in {"admin", "viewer"} /\ members' = [members EXCEPT ![w][u] = r]
        /\ UNCHANGED closingVars
    BY <1>14 DEF ChangeMember, Changeable
  <2>2. \A x \in User : Team(x)' \subseteq Team(x)
    BY <1>0, <2>1 DEF Team
  <2> QED BY <1>0, <2>1, <2>2, NoTeamGrows DEF closingVars
<1>15. ASSUME NEW w \in User, NEW p \in Plan, AssignPlan(w, p) PROVE ClosingInv'
  BY <1>1, <1>15 DEF AssignPlan, Rest
<1>16. CASE UNCHANGED accountVars
  BY <1>1, <1>16 DEF accountVars, memberVars
<1>17. Shared \subseteq User
  BY AccountsAssumption
<1> QED BY <1>2, <1>3, <1>4, <1>5, <1>6, <1>7, <1>8, <1>9, <1>10, <1>11, <1>12, <1>13, <1>14, <1>15, <1>16, <1>17
        DEF AccountsNext

LEMMA InitClosing == AccountsInit => ClosingInv
BY DEF AccountsInit, ClosingInv

\* Whatever additions, removals, changes of role and plan, and deletions of accounts
\* run at once: a workspace that has members has an active owner, and no more members
\* than the best plan it had allows (routes/workspace.ts, auth.ts, the advisory lock);
\* and closing an account deletes no workspace under a member who was there when its
\* members were counted (mobile-auth.ts:429-444).
THEOREM MembershipsStaySound == AccountsSpec => []MembershipsAreSound
<1>1. MemberInv /\ ClosingInv => MembershipsAreSound
  BY DEF MemberInv, OwnersOwn, ClosingInv, MembershipsAreSound, WorkspaceHasOwner, NobodyIsEvicted
<1> QED BY <1>1, InitMembers, NextMembers, InitClosing, NextClosing, PTL DEF AccountsSpec

-----------------------------------------------------------------------------
(* Types.                                                                   *)

\* What the invariants of the tokens and of the members leave to say: an update of
\* many rows works on rows that there are.
SweepTypes ==
    /\ sweeps \subseteq [seen : SUBSET DOMAIN tokens, status : {"revoked", "deleted"}, closes : SUBSET User]
    /\ passkeys \subseteq User /\ challenges \subseteq Challenge

AccountsInv == TokenInv /\ MemberInv /\ ClosingInv /\ SweepTypes

\* No row is taken away: what an update has seen stays there.
LEMMA RowsStayThere ==
  ASSUME TokenInv, [AccountsNext]_accountVars
  PROVE  DOMAIN tokens \subseteq DOMAIN tokens'
<1>1. tokens \in Seq(Row) /\ Len(tokens) \in Nat /\ DOMAIN tokens = 1..Len(tokens)
  BY DEF TokenInv, TokensSound
<1>2. ASSUME NEW row, tokens' = Append(tokens, row) PROVE DOMAIN tokens \subseteq DOMAIN tokens'
  <2>1. DOMAIN tokens' = 1..Len(tokens) + 1
    BY <1>1, <1>2
  <2> QED BY <1>1, <2>1
<1>3. ASSUME NEW g \in granting, InsertSession(g) PROVE DOMAIN tokens \subseteq DOMAIN tokens'
  <2>1. CASE tokens' = tokens
    BY <2>1
  <2> QED BY <1>2, <1>3, <2>1 DEF InsertSession
<1>4. ASSUME NEW q \in rotating, RotateCommit(q) PROVE DOMAIN tokens \subseteq DOMAIN tokens'
  <2> DEFINE t == q.token
             rows == [tokens EXCEPT ![t].status = "rotated"]
             row == [tokens[t] EXCEPT !.status = "live"]
  <2>1. tokens' = Append(rows, row)
    BY <1>4 DEF RotateCommit
  <2>2. rows \in Seq(Row) /\ Len(rows) = Len(tokens)
    <3>1. t \in DOMAIN tokens /\ "rotated" \in Spent \cup {"expired"}
      BY DEF TokenInv, TokensSound, Holds, Spent
    <3> HIDE DEF t
    <3> QED BY <3>1, AgedRows DEF TokenInv, Spent, Ageing
  <2> HIDE DEF rows, row
  <2>3. DOMAIN tokens' = 1..Len(tokens) + 1
    BY <1>1, <2>1, <2>2
  <2> QED BY <1>1, <2>3
<1>5. ASSUME NEW t \in DOMAIN tokens,
             Expire(t) \/ RotateBegin(t) \/ RotateExpired(t) \/ RevokeToken(t) \/ ReuseToken(t)
      PROVE  DOMAIN tokens \subseteq DOMAIN tokens'
  <2>1. tokens' = tokens \/ \E st : tokens' = [tokens EXCEPT ![t].status = st]
    BY <1>5 DEF Expire, RotateBegin, RotateExpired, RevokeToken, ReuseToken
  <2> QED BY <2>1
<1>6. ASSUME NEW s \in sweeps, SweepEnd(s) PROVE DOMAIN tokens \subseteq DOMAIN tokens'
  BY <1>6 DEF SweepEnd
<1>7. ASSUME NEW u \in User,
             \/ SignUp(u) \/ Login(u) \/ DeletePasskey(u) \/ RevokeSessions(u)
             \/ DeleteAccount(u) \/ DeleteWorkspaces(u) \/ KeepAccount(u)
      PROVE  tokens' = tokens
  BY <1>7 DEF SignUp, Login, DeletePasskey, RevokeSessions, DeleteAccount, DeleteWorkspaces, KeepAccount, Rest
<1>13. ASSUME NEW q \in rotating, RotateRollback(q) PROVE tokens' = tokens
  BY <1>13 DEF RotateRollback
<1>8. ASSUME NEW c \in Challenge, OfferChallenge(c) \/ DropChallenge(c) \/ RegisterPasskey(c) \/ PasskeyLogin(c)
      PROVE  tokens' = tokens
  BY <1>8 DEF OfferChallenge, DropChallenge, RegisterPasskey, PasskeyLogin, Rest
<1>9. ASSUME NEW w \in Shared, NEW u \in User, NEW r, AddBegin(w, u, r) \/ ChangeMember(w, u, r)
      PROVE  tokens' = tokens
  BY <1>9 DEF AddBegin, ChangeMember
<1>10. ASSUME NEW a \in adding, AddCommit(a) PROVE tokens' = tokens
  BY <1>10 DEF AddCommit
<1>11. ASSUME NEW w \in Shared, NEW p \in Plan, AssignPlan(w, p) PROVE tokens' = tokens
  BY <1>11 DEF AssignPlan, Rest
<1>12. CASE UNCHANGED accountVars
  BY <1>12 DEF accountVars
<1> QED BY <1>3, <1>4, <1>5, <1>6, <1>7, <1>8, <1>9, <1>10, <1>11, <1>12, <1>13 DEF AccountsNext

\* An update starts with rows that there are, and with users.
LEMMA SweepsTyped ==
  ASSUME SweepTypes, NEW rows \in SUBSET DOMAIN tokens, NEW st \in {"revoked", "deleted"},
         NEW closes \in SUBSET User, Sweep(rows, st, closes),
         tokens' = tokens, passkeys' = passkeys, challenges' = challenges
  PROVE  SweepTypes'
<1>1. [seen |-> rows, status |-> st, closes |-> closes]
        \in [seen : SUBSET DOMAIN tokens, status : {"revoked", "deleted"}, closes : SUBSET User]
  OBVIOUS
<1> QED BY <1>1 DEF Sweep, SweepTypes

\* Steps that start no update.
LEMMA NoSweepTyped ==
  ASSUME SweepTypes, DOMAIN tokens \subseteq DOMAIN tokens', sweeps' \subseteq sweeps,
         passkeys' \subseteq User, challenges' \subseteq Challenge
  PROVE  SweepTypes'
<1>1. [seen : SUBSET DOMAIN tokens, status : {"revoked", "deleted"}, closes : SUBSET User]
        \subseteq [seen : SUBSET DOMAIN tokens', status : {"revoked", "deleted"}, closes : SUBSET User]
  <2> SUFFICES ASSUME NEW s \in [seen : SUBSET DOMAIN tokens, status : {"revoked", "deleted"}, closes : SUBSET User]
               PROVE  s \in [seen : SUBSET DOMAIN tokens', status : {"revoked", "deleted"}, closes : SUBSET User]
    OBVIOUS
  <2>1. s.seen \subseteq DOMAIN tokens /\ s = [seen |-> s.seen, status |-> s.status, closes |-> s.closes]
    OBVIOUS
  <2>2. s.seen \subseteq DOMAIN tokens'
    BY <2>1
  <2> QED BY <2>1, <2>2
<1> QED BY <1>1 DEF SweepTypes

LEMMA NextSweepTypes ==
  ASSUME TokenInv, SweepTypes, [AccountsNext]_accountVars
  PROVE  SweepTypes'
<1>0. DOMAIN tokens \subseteq DOMAIN tokens' /\ passkeys \subseteq User /\ challenges \subseteq Challenge
  BY RowsStayThere DEF SweepTypes
<1>1. ASSUME UNCHANGED <<sweeps, passkeys, challenges>> PROVE SweepTypes'
  BY <1>0, <1>1, NoSweepTyped
<1>2. ASSUME NEW u \in User, SignUp(u) \/ Login(u) PROVE SweepTypes'
  BY <1>1, <1>2 DEF SignUp, Login, proofVars
<1>3. ASSUME NEW u \in User, DeletePasskey(u) PROVE SweepTypes'
  <2>1. passkeys' \subseteq User /\ sweeps' = sweeps /\ challenges' = challenges
    BY <1>0, <1>3 DEF DeletePasskey, Rest
  <2> QED BY <1>0, <2>1, NoSweepTyped
<1>4. ASSUME NEW u \in User, RevokeSessions(u) PROVE SweepTypes'
  <2> DEFINE own == {t \in DOMAIN tokens : tokens[t].user = u}
  <2>1. PICK kept : Sweep(own \ kept, "revoked", {})
    BY <1>4 DEF RevokeSessions, Rows
  <2>2. tokens' = tokens /\ passkeys' = passkeys /\ challenges' = challenges
    BY <1>4 DEF RevokeSessions, proofVars
  <2> QED BY <2>1, <2>2, SweepsTyped
<1>16. ASSUME NEW u \in User, DeleteAccount(u) \/ KeepAccount(u) PROVE SweepTypes'
  BY <1>1, <1>16 DEF DeleteAccount, KeepAccount, proofVars
<1>5. ASSUME NEW u \in User, DeleteWorkspaces(u) PROVE SweepTypes'
  <2> DEFINE gone == {t \in DOMAIN tokens : u \in {tokens[t].user, tokens[t].space}}
  <2>1. Sweep(gone, "deleted", {u})
    BY <1>5 DEF DeleteWorkspaces, Rows
  <2>2. tokens' = tokens /\ passkeys' = passkeys /\ challenges' = challenges
    BY <1>5 DEF DeleteWorkspaces, proofVars
  <2> QED BY <2>1, <2>2, SweepsTyped
<1>6. ASSUME NEW c \in Challenge, OfferChallenge(c) \/ DropChallenge(c) \/ RegisterPasskey(c) \/ PasskeyLogin(c)
      PROVE  SweepTypes'
  <2>1. c.user \in User
    BY AccountsAssumption DEF Challenge
  <2>2. passkeys' \subseteq User /\ challenges' \subseteq Challenge /\ sweeps' = sweeps
    BY <1>0, <1>6, <2>1 DEF OfferChallenge, DropChallenge, RegisterPasskey, PasskeyLogin, Rest
  <2> QED BY <1>0, <2>2, NoSweepTyped
<1>7. ASSUME NEW g \in granting, InsertSession(g) PROVE SweepTypes'
  BY <1>1, <1>7 DEF InsertSession, proofVars
<1>8. ASSUME NEW t \in DOMAIN tokens,
             Expire(t) \/ RotateBegin(t) \/ RotateExpired(t) \/ RevokeToken(t)
      PROVE  SweepTypes'
  BY <1>1, <1>8 DEF Expire, RotateBegin, RotateExpired, RevokeToken, proofVars
<1>17. ASSUME NEW q \in rotating, RotateCommit(q) \/ RotateRollback(q) PROVE SweepTypes'
  BY <1>1, <1>17 DEF RotateCommit, RotateRollback, proofVars
<1>9. ASSUME NEW t \in DOMAIN tokens, ReuseToken(t) PROVE SweepTypes'
  <2> DEFINE family == {r \in DOMAIN tokens : tokens[r].family = tokens[t].family}
  <2>1. Sweep(family, "revoked", {})
    BY <1>9 DEF ReuseToken, Rows
  <2>2. tokens' = tokens /\ passkeys' = passkeys /\ challenges' = challenges
    BY <1>9 DEF ReuseToken, proofVars
  <2>3. family \in SUBSET DOMAIN tokens
    OBVIOUS
  <2> HIDE DEF family
  <2> QED BY <2>1, <2>2, <2>3, SweepsTyped
<1>10. ASSUME NEW s \in sweeps, SweepEnd(s) PROVE SweepTypes'
  <2>1. sweeps' \subseteq sweeps /\ passkeys' \subseteq User /\ challenges' = challenges
    BY <1>0, <1>10 DEF SweepEnd
  <2> QED BY <1>0, <2>1, NoSweepTyped
<1>11. ASSUME NEW w \in Shared, NEW u \in User, NEW r, AddBegin(w, u, r) PROVE SweepTypes'
  BY <1>1, <1>11 DEF AddBegin, proofVars
<1>12. ASSUME NEW w \in Shared, NEW u \in User, NEW r, ChangeMember(w, u, r) PROVE SweepTypes'
  <2> DEFINE there == {t \in DOMAIN tokens : tokens[t].user = u /\ tokens[t].space = w}
  <2>1. Sweep(there, "revoked", {})
    BY <1>12 DEF ChangeMember, Rows
  <2>2. tokens' = tokens /\ passkeys' = passkeys /\ challenges' = challenges
    BY <1>12 DEF ChangeMember, proofVars
  <2> QED BY <2>1, <2>2, SweepsTyped
<1>13. ASSUME NEW a \in adding, AddCommit(a) PROVE SweepTypes'
  BY <1>1, <1>13 DEF AddCommit, proofVars
<1>14. ASSUME NEW w \in Shared, NEW p \in Plan, AssignPlan(w, p) PROVE SweepTypes'
  BY <1>1, <1>14 DEF AssignPlan, Rest, proofVars
<1>15. CASE UNCHANGED accountVars
  BY <1>1, <1>15 DEF accountVars, proofVars
<1> QED BY <1>2, <1>3, <1>4, <1>5, <1>6, <1>7, <1>8, <1>9, <1>10, <1>11, <1>12, <1>13, <1>14, <1>15,
           <1>16, <1>17 DEF AccountsNext

\* Users, memberships, tokens, sessions and the updates of many rows stay within their
\* types, for any users, plans, tokens and requests at once; the rows that an update
\* has seen are still there when it ends (auth/session.ts, routes/auth.ts).
THEOREM AccountsTypeCorrect == AccountsSpec => []AccountsTypeOK
<1>1. AccountsInit => AccountsInv
  BY InitTokens, InitMembers, InitClosing DEF AccountsInv, AccountsInit, SweepTypes
<1>2. AccountsInv /\ [AccountsNext]_accountVars => AccountsInv'
  BY NextTokens, NextMembers, NextClosing, NextSweepTypes DEF AccountsInv
<1>3. AccountsInv => AccountsTypeOK
  <2> SUFFICES ASSUME AccountsInv PROVE AccountsTypeOK
    OBVIOUS
  <2>1. adding \subseteq [space : User, user : User, role : Role]
    BY DEF AccountsInv, MemberInv, OwnersOwn, Role
  <2>2. tokens \in Seq([family : Nat, user : User, space : User, status : TokenStatus])
        /\ rotating \subseteq [token : DOMAIN tokens, second : BOOLEAN] /\ granting \subseteq Grant
    <3>1. ASSUME NEW q \in rotating PROVE q \in [token : DOMAIN tokens, second : BOOLEAN]
      <4>1. Holds(q)
        BY DEF AccountsInv, TokenInv, TokensSound
      <4> DEFINE token == q.token
      <4>2. q = [token |-> token, second |-> FALSE] /\ token \in DOMAIN tokens
        BY <4>1 DEF Holds
      <4> HIDE DEF token
      <4> QED BY <4>2
    <3> QED BY <3>1 DEF AccountsInv, TokenInv, TokensSound, Row
  <2> QED BY <2>1, <2>2 DEF AccountsInv, MemberInv, MemberTypes, ClosingInv, SweepTypes, AccountsTypeOK
<1> QED BY <1>1, <1>2, <1>3, PTL DEF AccountsSpec
=============================================================================
