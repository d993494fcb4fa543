---------------------------- MODULE PlatformAccounts ----------------------------
(***************************************************************************)
(* Accounts, workspaces and refresh sessions of the platform API           *)
(* (src/platform/apps/api/src/routes/auth.ts, mobile-auth.ts, workspace.ts *)
(* and auth/session.ts).  The API keeps everything in PostgreSQL (read     *)
(* committed) and several processes serve requests at once, so a handler   *)
(* that reads, waits and then writes is two actions, and a row lock or an  *)
(* advisory lock is a guard.                                               *)
(*                                                                         *)
(* A workspace is named after the user who founded it when signing up.  A  *)
(* caller's scopes come from an access token that outlives a change of     *)
(* role, so an operation on members is offered at any time.                *)
(***************************************************************************)
EXTENDS Integers, Sequences, FiniteSets

CONSTANTS
    User,        \* addresses somebody signs up with
    Shared,      \* the workspaces to which the model adds members
    Client,      \* the users whose sessions and credentials it follows
    Plan,        \* subscription plans
    FirstPlan,   \* the plan of a new workspace
    Seats,       \* the number of members each plan allows
    MaxTokens,   \* bound: refresh tokens ever stored
    MaxPending   \* bound: requests under way at once

ASSUME AccountsAssumption ==
    /\ IsFiniteSet(User) /\ Shared \subseteq User /\ Client \subseteq User
    /\ FirstPlan \in Plan
    /\ Seats \in [Plan -> Nat \ {0}]
    /\ MaxTokens \in Nat
    /\ MaxPending \in Nat

VARIABLES
    users,       \* user -> "absent", "active" or "deleted" (disabled and erased)
    members,     \* workspace -> user -> role
    plan,        \* workspace -> plan of its subscription
    peakSeats,   \* history: the most seats a plan of the workspace has allowed
    adding,      \* additions between their seat check and their commit
    tokens,      \* rows of refresh_sessions, in order of insertion
    rotating,    \* rotations under way; `second` is one beside another of the same token
    granting,    \* sessions checked and not yet inserted
    sweeps,      \* updates of many token rows, with the rows they have seen
    closing,     \* user -> how far DELETE /account has come: "no", "counted" (its workspaces
                 \*   have no other member), "joined" (one has by now), "deleting"
    evicted,     \* history: workspaces deleted over members who were there when counted
    passkeys,    \* users with a passkey
    challenges   \* passkey challenges that Redis keeps

memberVars == <<users, members, plan, peakSeats>>
proofVars == <<passkeys, challenges>>
closingVars == <<closing, evicted>>
accountVars == <<memberVars, adding, tokens, rotating, granting, sweeps, closingVars, proofVars>>

Role == {"owner", "admin", "viewer"}
TokenStatus == {"live", "expired", "rotated", "revoked", "deleted"}
Grant == [user : User, space : User]
Challenge == [kind : {"register", "authenticate"}, user : Client]

Spaces == {w \in User : \E u \in User : members[w][u] = "owner"}
Team(w) == {u \in User : members[w][u] # "none"}
Closing(u) == closing[u] # "no"
Undecided == {u \in User : closing[u] \in {"counted", "joined"}}
Locked == {r.token : r \in rotating}
Rows(Test(_)) == {t \in DOMAIN tokens : Test(tokens[t])}
Rest == <<adding, tokens, rotating, granting, sweeps, closingVars>>

\* loadSessionSubject: an active user who is a member of the workspace.
Subject(u, w) == users[u] = "active" /\ members[w][u] # "none"

\* Without a workspace, loadSessionSubject takes the oldest membership: the
\* user's own workspace, which came first.
Home(u) == IF u \in Spaces THEN {u} ELSE {w \in User : Subject(u, w)}

\* Bound: requests under way, and at most one of a kind but rotations.
RoomForRequest ==
    Cardinality(granting) + Cardinality(challenges) + Cardinality(rotating)
        + Cardinality(sweeps) + Cardinality(adding) + Cardinality(Undecided) < MaxPending
Admits == granting = {} /\ challenges = {} /\ RoomForRequest

\* createSession: the subject has been loaded; the row is inserted later.
CreateSession(u, w) ==
    /\ Subject(u, w) /\ u \in Client
    /\ granting' = granting \cup {[user |-> u, space |-> w]}

-----------------------------------------------------------------------------
(* Signing up, logging in and the other ways to a session.                  *)

\* register, createPasswordAccount and findOrCreateFederatedAccount commit the
\* user, the workspace, the owner and the subscription in one transaction; an
\* address that exists is refused (the unique index decides a race).
SignUp(u) ==
    /\ users[u] = "absent"
    /\ u \in Client => Admits
    /\ users' = [users EXCEPT ![u] = "active"]
    /\ members' = [members EXCEPT ![u][u] = "owner"]
    /\ plan' = [plan EXCEPT ![u] = FirstPlan]
    /\ peakSeats' = [peakSeats EXCEPT ![u] = Seats[FirstPlan]]
    /\ granting' = granting \cup [user : {u} \cap Client, space : {u}]
    /\ UNCHANGED <<adding, tokens, rotating, sweeps, proofVars, closingVars>>

\* A password login goes to the user's first workspace, switch-workspace to
\* any workspace the user is a member of.
Login(u) ==
    /\ Admits
    /\ \E w \in User : CreateSession(u, w)
    /\ UNCHANGED <<memberVars, adding, tokens, rotating, sweeps, proofVars, closingVars>>

\* Passkey options: a challenge is stored for the flow.
OfferChallenge(c) ==
    /\ c \notin challenges /\ Admits
    /\ c.kind = "register" => \E w \in User : Subject(c.user, w)
    /\ challenges' = challenges \cup {c}
    /\ UNCHANGED <<memberVars, Rest, passkeys>>

\* getChallenge takes the challenge away (GETDEL), whatever the verification
\* then says; a challenge that expires goes the same way.
DropChallenge(c) ==
    /\ c \in challenges
    /\ challenges' = challenges \ {c}
    /\ UNCHANGED <<memberVars, Rest, passkeys>>

RegisterPasskey(c) ==
    /\ c \in challenges /\ c.kind = "register"
    /\ challenges' = challenges \ {c}
    /\ passkeys' = passkeys \cup {c.user}
    /\ UNCHANGED <<memberVars, Rest>>

PasskeyLogin(c) ==
    /\ c \in challenges /\ c.kind = "authenticate" /\ c.user \in passkeys
    /\ challenges' = challenges \ {c}
    /\ \E w \in Home(c.user) : CreateSession(c.user, w)
    /\ UNCHANGED <<memberVars, adding, tokens, rotating, sweeps, passkeys, closingVars>>

DeletePasskey(u) ==
    /\ u \in passkeys
    /\ passkeys' = passkeys \ {u}
    /\ UNCHANGED <<memberVars, Rest, challenges>>

\* The insert of createSession: the first token of a new family.  The foreign
\* key refuses it when the workspace has been deleted meanwhile.
InsertSession(g) ==
    /\ g \in granting
    /\ granting' = granting \ {g}
    /\ IF g.space \in Spaces
       THEN /\ Len(tokens) < MaxTokens
            /\ tokens' = Append(tokens, [family |-> Len(tokens) + 1, user |-> g.user,
                                         space |-> g.space, status |-> "live"])
       ELSE UNCHANGED tokens
    /\ UNCHANGED <<memberVars, adding, rotating, sweeps, proofVars, closingVars>>

-----------------------------------------------------------------------------
(* Refresh tokens.                                                          *)

Expire(t) ==
    /\ tokens[t].status = "live" /\ t \notin Locked
    /\ tokens' = [tokens EXCEPT ![t].status = "expired"]
    /\ UNCHANGED <<memberVars, adding, rotating, granting, sweeps, proofVars, closingVars>>

\* (A SELECT without FOR UPDATE.)
ReadRow(t) == TRUE

\* SELECT ... FOR UPDATE waits for the row; these are the tests behind it.
LockRow(t) == t \notin Locked

\* rotateSession up to its last read: the row is locked until the commit.
RotateBegin(t) ==
    /\ LockRow(t) /\ RoomForRequest
    /\ tokens[t].status = "live"
    /\ Subject(tokens[t].user, tokens[t].space)
    /\ Len(tokens) < MaxTokens
    /\ rotating' = rotating \cup {[token |-> t, second |-> t \in Locked]}
    /\ UNCHANGED <<memberVars, adding, tokens, granting, sweeps, proofVars, closingVars>>

RotateExpired(t) ==
    /\ LockRow(t)
    /\ tokens[t].status = "expired"
    /\ tokens' = [tokens EXCEPT ![t].status = "revoked"]
    /\ UNCHANGED <<memberVars, adding, rotating, granting, sweeps, proofVars, closingVars>>

\* The next token of the family is inserted and the old one marked rotated.
RotateCommit(r) ==
    /\ r \in rotating
    /\ Len(tokens) < MaxTokens
    /\ tokens' = Append([tokens EXCEPT ![r.token].status = "rotated"], [tokens[r.token] EXCEPT !.status = "live"])
    /\ rotating' = rotating \ {r}
    /\ UNCHANGED <<memberVars, adding, granting, sweeps, proofVars, closingVars>>

\* The request, or its process, dies: the transaction is rolled back.
RotateRollback(r) ==
    /\ r \in rotating
    /\ rotating' = rotating \ {r}
    /\ UNCHANGED <<memberVars, adding, tokens, granting, sweeps, proofVars, closingVars>>

\* Logging out, and ending one session on the sessions page.
RevokeToken(t) ==
    /\ LockRow(t)
    /\ tokens[t].status \in {"live", "expired", "rotated"}
    /\ tokens' = [tokens EXCEPT ![t].status = "revoked"]
    /\ UNCHANGED <<memberVars, adding, rotating, granting, sweeps, proofVars, closingVars>>

\* An UPDATE or DELETE of many rows works on the rows that exist when it
\* starts and waits for those that a rotation holds.
Sweep(rows, status, closes) ==
    /\ sweeps = {}
    /\ sweeps' = sweeps \cup {[seen |-> rows, status |-> status, closes |-> closes]}

\* rotateSession with a token that was rotated or revoked: the whole family.
ReuseToken(t) ==
    /\ LockRow(t) /\ RoomForRequest
    /\ tokens[t].status \in {"rotated", "revoked"}
    /\ LET Family(r) == r.family = tokens[t].family IN Sweep(Rows(Family), "revoked", {})
    /\ UNCHANGED <<memberVars, adding, tokens, rotating, granting, proofVars, closingVars>>

\* Changing the password ends every session, revoke-others all but one.
RevokeSessions(u) ==
    /\ users[u] = "active" /\ RoomForRequest
    /\ LET Own(r) == r.user = u IN
       \E kept \in {{}} \cup {{t} : t \in Rows(Own)} : Sweep(Rows(Own) \ kept, "revoked", {})
    /\ UNCHANGED <<memberVars, adding, tokens, rotating, granting, proofVars, closingVars>>

\* The end of a sweep, and with it the commit of an account's deletion: its
\* own workspaces, its memberships and its credentials go, and the user is
\* disabled.
SweepEnd(s) ==
    /\ s \in sweeps
    /\ s.seen \cap Locked = {}
    /\ sweeps' = sweeps \ {s}
    /\ tokens' = [t \in DOMAIN tokens |->
                    IF t \in s.seen /\ tokens[t].status # "deleted"
                    THEN [tokens[t] EXCEPT !.status = s.status] ELSE tokens[t]]
    /\ users' = [u \in User |-> IF u \in s.closes THEN "deleted" ELSE users[u]]
    /\ members' = [w \in User |-> [u \in User |->
                    IF w \in s.closes \/ u \in s.closes THEN "none" ELSE members[w][u]]]
    /\ passkeys' = passkeys \ s.closes
    /\ closing' = [u \in User |-> IF u \in s.closes THEN "no" ELSE closing[u]]
    /\ UNCHANGED <<plan, peakSeats, adding, rotating, granting, challenges, evicted>>

-----------------------------------------------------------------------------
(* Members and plans.                                                       *)

\* DELETE /account up to its count: refused while a workspace of the user has other
\* members.  The rows of the user's own memberships stay locked until the end, but
\* nothing is locked that an addition waits for.
DeleteAccount(u) ==
    /\ users[u] = "active" /\ ~Closing(u) /\ RoomForRequest
    /\ Team(u) \subseteq {u}
    /\ closing' = [closing EXCEPT ![u] = "counted"]
    /\ UNCHANGED <<memberVars, adding, tokens, rotating, granting, sweeps, proofVars, evicted>>

\* The deletes begin with the workspaces, whoever is a member by now.
DeleteWorkspaces(u) ==
    /\ u \in Undecided
    /\ closing' = [closing EXCEPT ![u] = "deleting"]
    /\ evicted' = IF closing[u] = "counted" /\ ~(Team(u) \subseteq {u}) THEN evicted \cup {u} ELSE evicted
    /\ LET Gone(r) == u \in {r.user, r.space} IN Sweep(Rows(Gone), "deleted", {u})
    /\ UNCHANGED <<memberVars, adding, tokens, rotating, granting, proofVars>>

\* The request, or its process, dies before it.
KeepAccount(u) ==
    /\ u \in Undecided
    /\ closing' = [closing EXCEPT ![u] = "no"]
    /\ UNCHANGED <<memberVars, adding, tokens, rotating, granting, sweeps, proofVars, evicted>>

\* pg_advisory_xact_lock: one addition to a workspace at a time.
SeatLock(w) == \A a \in adding : a.space # w

\* POST /current/members up to its insert: the seats are counted and the
\* account looked up.
AddBegin(w, u, r) ==
    /\ w \in Spaces /\ RoomForRequest
    /\ SeatLock(w)
    /\ Cardinality(Team(w)) < Seats[plan[w]]
    /\ users[u] = "active"
    /\ adding' = adding \cup {[space |-> w, user |-> u, role |-> r]}
    /\ UNCHANGED <<memberVars, tokens, rotating, granting, sweeps, proofVars, closingVars>>

\* The insert (ON CONFLICT DO NOTHING) and the commit, which ends the lock.  The
\* foreign key makes it wait for a workspace that is being deleted, and refuses it
\* when that is gone.
AddCommit(a) ==
    /\ a \in adding /\ closing[a.space] # "deleting"
    /\ adding' = adding \ {a}
    /\ LET joins == members[a.space][a.user] = "none" /\ a.space \in Spaces IN
       /\ members' = IF joins THEN [members EXCEPT ![a.space][a.user] = a.role] ELSE members
       /\ closing' = IF joins /\ closing[a.space] = "counted"
                     THEN [closing EXCEPT ![a.space] = "joined"] ELSE closing
    /\ UNCHANGED <<users, plan, peakSeats, tokens, rotating, granting, sweeps, proofVars, evicted>>

\* (The condition role <> 'owner' forgotten.)
AnyMember(w, u) == members[w][u] # "none" /\ ~Closing(u)

\* The rows PATCH and DELETE of a member may touch: never an owner's.
Changeable(w, u) == members[w][u] \in {"admin", "viewer"} /\ ~Closing(u)

\* Changing a role or removing a member; the member's sessions in the
\* workspace are revoked in a statement of its own.
ChangeMember(w, u, r) ==
    /\ Changeable(w, u) /\ RoomForRequest
    /\ members[w][u] # r
    /\ members' = [members EXCEPT ![w][u] = r]
    /\ LET There(t) == t.user = u /\ t.space = w IN Sweep(Rows(There), "revoked", {})
    /\ UNCHANGED <<users, plan, peakSeats, adding, tokens, rotating, granting, proofVars, closingVars>>

\* An administrator assigns a plan; members beyond its seats stay.
AssignPlan(w, p) ==
    /\ w \in Spaces /\ plan[w] # p
    /\ plan' = [plan EXCEPT ![w] = p]
    /\ peakSeats' = [peakSeats EXCEPT ![w] = IF Seats[p] > @ THEN Seats[p] ELSE @]
    /\ UNCHANGED <<users, members, Rest, proofVars>>

-----------------------------------------------------------------------------
AccountsInit ==
    /\ users = [u \in User |-> "absent"]
    /\ members = [w \in User |-> [u \in User |-> "none"]]
    /\ plan = [w \in User |-> FirstPlan]
    /\ peakSeats = [w \in User |-> 0]
    /\ adding = {} /\ tokens = <<>> /\ rotating = {} /\ granting = {} /\ sweeps = {}
    /\ closing = [u \in User |-> "no"] /\ evicted = {}
    /\ passkeys = {} /\ challenges = {}

AccountsNext ==
    \/ \E u \in User : \/ SignUp(u) \/ Login(u) \/ DeletePasskey(u)
                       \/ RevokeSessions(u)
                       \/ DeleteAccount(u) \/ DeleteWorkspaces(u) \/ KeepAccount(u)
    \/ \E c \in Challenge : \/ OfferChallenge(c) \/ DropChallenge(c)
                            \/ RegisterPasskey(c) \/ PasskeyLogin(c)
    \/ \E g \in granting : InsertSession(g)
    \/ \E t \in DOMAIN tokens : \/ Expire(t) \/ RotateBegin(t) \/ RotateExpired(t)
                                \/ RevokeToken(t) \/ ReuseToken(t)
    \/ \E r \in rotating : RotateCommit(r) \/ RotateRollback(r)
    \/ \E s \in sweeps : SweepEnd(s)
    \/ \E w \in Shared, u \in User :
          \/ \E r \in {"admin", "viewer"} : AddBegin(w, u, r)
          \/ \E r \in {"admin", "viewer", "none"} : ChangeMember(w, u, r)
    \/ \E a \in adding : AddCommit(a)
    \/ \E w \in Shared, p \in Plan : AssignPlan(w, p)

AccountsSpec == AccountsInit /\ [][AccountsNext]_accountVars

-----------------------------------------------------------------------------
\* The state stays within its types, whatever requests run at once.
AccountsTypeOK ==
    /\ users \in [User -> {"absent", "active", "deleted"}]
    /\ members \in [User -> [User -> Role \cup {"none"}]]
    /\ plan \in [User -> Plan] /\ peakSeats \in [User -> Nat]
    /\ adding \subseteq [space : User, user : User, role : Role]
    /\ tokens \in Seq([family : Nat, user : User, space : User, status : TokenStatus])
    /\ rotating \subseteq [token : DOMAIN tokens, second : BOOLEAN]
    /\ granting \subseteq Grant
    /\ sweeps \subseteq [seen : SUBSET DOMAIN tokens, status : {"revoked", "deleted"}, closes : SUBSET User]
    /\ closing \in [User -> {"no", "counted", "joined", "deleting"}] /\ evicted \subseteq User
    /\ passkeys \subseteq User /\ challenges \subseteq Challenge

\* A chain of rotations is held by one client: whatever logins, refreshes of the
\* same token, revocations and replays run at once, a family never has two tokens
\* that could still be rotated (rotateSession's row lock).  (It may have one after a
\* replay: a rotation that was under way inserts a token the replay's update has
\* not seen.)
OneLiveTokenPerFamily ==
    \A s, t \in DOMAIN tokens :
        /\ s # t
        /\ tokens[s].family = tokens[t].family
        => {tokens[s].status, tokens[t].status} \cap {"rotated", "revoked", "deleted"} # {}

\* A workspace is never left without an active owner: roles change, members
\* come and go and accounts are deleted around its owner.
WorkspaceHasOwner ==
    \A w \in User : Team(w) # {} => \E u \in User : members[w][u] = "owner" /\ users[u] = "active"

\* No workspace has more members than the best plan it ever had allows, with
\* several additions at once and the plan changing under them (the advisory
\* lock around count and insert).
SeatsWithinPlan == \A w \in User : Cardinality(Team(w)) <= peakSeats[w]

\* An account is closed only over workspaces that nobody else was in when DELETE
\* /account counted them (mobile-auth.ts:429-436).  A member who is added between
\* that count and the delete (444) does lose the workspace: the deletion does not
\* take the lock that additions take.
NobodyIsEvicted == evicted = {}

\* A workspace always has an owner (WorkspaceHasOwner), never more members than its
\* plan has seats (SeatsWithinPlan), and is not deleted under members who were there
\* when its owner's account was closed (NobodyIsEvicted), whatever requests run at
\* once.
MembershipsAreSound == WorkspaceHasOwner /\ SeatsWithinPlan /\ NobodyIsEvicted
=============================================================================
