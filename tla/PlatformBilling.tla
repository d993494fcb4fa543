---------------------------- MODULE PlatformBilling ----------------------------
(***************************************************************************)
(* App Store billing of one account (routes/mobile-billing.ts,             *)
(* services/apple-billing.ts, services/billing-state.ts) beside the plans  *)
(* that an administrator assigns (routes/admin.ts).                        *)
(*                                                                         *)
(* The store sends a notification of every change, again while it gets no  *)
(* good answer, and in any order; the owner's application also submits     *)
(* transactions.  The owner of a transaction is the account whose token    *)
(* it carries, so purchases do not move between accounts.  A signature     *)
(* that does not verify changes nothing and is left out.  The rows carry   *)
(* no time of the store's: what is written last stands.                    *)
(***************************************************************************)
EXTENDS Integers, FiniteSets

CONSTANTS
    Txn,             \* App Store transactions
    Purchase,        \* what they belong to (originalTransactionId)
    Bought,          \* transaction -> purchase
    HostedPlan,      \* hosted purchase -> plan; the others are mobile licences
    Event,           \* notifications (notificationUUID)
    ReportedState,   \* bound: what notifications say of a transaction
    AdminPlan,       \* plans an administrator assigns
    MaxBillingFaults \* bound: failed or interrupted attempts, and second submissions

ASSUME BillingAssumption ==
    /\ Bought \in [Txn -> Purchase]
    /\ DOMAIN HostedPlan \subseteq Purchase
    /\ ReportedState \subseteq {"active", "expired", "refunded"}
    /\ MaxBillingFaults \in Nat

VARIABLES
    sent,           \* notification -> what it says, Unsent at first
    eventStatus,    \* billing_webhook_events
    processing,     \* handlers at work: notification and next step
    txns,           \* billing_transactions: transaction -> state
    submitting,     \* open transactions of submissions: the row they hold, and its state
    latestTxn,      \* history: purchase -> its transaction committed last
    subscription,   \* the row of the workspace in subscriptions
    license,        \* the row of the user in mobile_licenses
    persisted,      \* history: notifications whose state was committed
    answered,       \* history: notifications answered as received well
    early,          \* history: those so answered while another delivery was at work, or dead
    billingFaults   \* counter for the bound

rowVars == <<txns, latestTxn, subscription, license>>
answerVars == <<answered, early>>
billingVars == <<sent, eventStatus, processing, submitting, rowVars, persisted, answerVars,
                 billingFaults>>

\* grace_period, billing_retry and revoked, stored and passed on as they are, stand
\* with expired.
BillingState == {"active", "expired", "refunded"}

\* (The state as the store names it.)
AsReported(state) == state

\* entitlementState
Entitled(state) == IF state = "refunded" THEN "revoked" ELSE state

\* The states verifyAppleTransaction and billingState find without a
\* subscription status: from the revocation and expiry dates.
SubmittedState == {"active", "expired", "refunded"}

HandlerStep == {"resolve", "persist", "write", "mark"}
NoTxn == "none"
Unsent == [txn |-> NoTxn, state |-> "unsent"]
Manual(p) == [source |-> "manual", plan |-> p, status |-> "active", purchase |-> "none"]
Bound == billingFaults < MaxBillingFaults /\ billingFaults' = billingFaults + 1

-----------------------------------------------------------------------------
\* (The protection of a scale plan left out of the upsert.)
AlwaysWritable == TRUE

\* The WHERE clause of the upsert into subscriptions.
Writable == subscription.source # "manual" \/ subscription.plan # "scale"

\* The upsert of a transaction holds its row until the commit.
Held == {sent[j.event].txn : j \in {k \in processing : k.step = "write"}}
            \cup {s.txn : s \in submitting}

\* The transaction's row, which becomes the last of its purchase.
StoreTransaction(t, state) ==
    /\ txns' = [txns EXCEPT ![t] = state]
    /\ latestTxn' = [latestTxn EXCEPT ![Bought[t]] = t]

\* The subscription of the workspace, or the mobile licence of the user.
Entitle(t, state) ==
    IF Bought[t] \in DOMAIN HostedPlan
    THEN /\ UNCHANGED license
         /\ subscription' =
              IF Writable
              THEN [source |-> "apple_store", plan |-> HostedPlan[Bought[t]],
                    status |-> Entitled(state), purchase |-> Bought[t]]
              ELSE subscription
    ELSE /\ UNCHANGED subscription
         /\ license' = [txn |-> t, status |-> Entitled(state)]

\* (Two transactions, between which the process may stop.)
PersistInTwo(t, state) ==
    /\ StoreTransaction(t, state)
    /\ \/ Entitle(t, state)
       \/ UNCHANGED <<subscription, license>>

\* The end of persistApplePurchase: the second upsert, whose row nobody else writes
\* before the commit that follows, and the commit, which shows both rows at once.
PersistApplePurchase(t, state) ==
    /\ StoreTransaction(t, state)
    /\ Entitle(t, state)

-----------------------------------------------------------------------------
\* The store signs and sends a notification; one without a transaction (a
\* test, a price consent) says NoTxn.
Notify(e) ==
    /\ sent[e] = Unsent
    /\ sent' \in {[sent EXCEPT ![e] = n] : n \in [txn : Txn, state : ReportedState]
                                              \cup [txn : {NoTxn}, state : {"active"}]}
    /\ UNCHANGED <<eventStatus, processing, submitting, rowVars, persisted, answerVars, billingFaults>>

\* processNotification takes an event that is new or has failed.
Receive(e) ==
    /\ sent[e] # Unsent
    /\ eventStatus[e] \in {"none", "failed"}
    /\ eventStatus' = [eventStatus EXCEPT ![e] = "received"]
    /\ processing' = processing \cup {[event |-> e, step |-> "resolve"]}
    /\ UNCHANGED <<sent, submitting, rowVars, persisted, answerVars, billingFaults>>

\* Any other delivery is answered at once, and well, also one that finds the first
\* still "received": at work, or dead.
Redeliver(e) ==
    /\ eventStatus[e] \in {"received", "processed", "ignored"}
    /\ answered' = answered \cup {e}
    /\ early' = IF eventStatus[e] = "received" THEN early \cup {e} ELSE early
    /\ UNCHANGED <<sent, eventStatus, processing, submitting, rowVars, persisted, billingFaults>>

\* resolveNotificationOwner: nothing to do without a transaction, or without
\* an account that owns it.
Resolve(j) ==
    /\ j \in processing /\ j.step = "resolve"
    /\ \/ /\ processing' = processing \ {j}
          /\ eventStatus' = [eventStatus EXCEPT ![j.event] = "ignored"]
          /\ answered' = answered \cup {j.event}
       \/ /\ sent[j.event].txn # NoTxn
          /\ processing' = (processing \ {j}) \cup {[j EXCEPT !.step = "persist"]}
          /\ UNCHANGED <<eventStatus, answered>>
    /\ UNCHANGED <<sent, submitting, rowVars, persisted, early, billingFaults>>

\* persistApplePurchase for a notification: its transaction takes the row ...
Store(j) ==
    /\ j \in processing /\ j.step = "persist"
    /\ sent[j.event].txn \notin Held
    /\ processing' = (processing \ {j}) \cup {[j EXCEPT !.step = "write"]}
    /\ UNCHANGED <<sent, eventStatus, submitting, rowVars, persisted, answerVars, billingFaults>>

\* ... and commits.
Persist(j) ==
    /\ j \in processing /\ j.step = "write"
    /\ PersistApplePurchase(sent[j.event].txn, sent[j.event].state)
    /\ persisted' = persisted \cup {j.event}
    /\ processing' = (processing \ {j}) \cup {[j EXCEPT !.step = "mark"]}
    /\ UNCHANGED <<sent, eventStatus, submitting, answerVars, billingFaults>>

MarkProcessed(j) ==
    /\ j \in processing /\ j.step = "mark"
    /\ eventStatus' = [eventStatus EXCEPT ![j.event] = "processed"]
    /\ processing' = processing \ {j}
    /\ answered' = answered \cup {j.event}
    /\ UNCHANGED <<sent, submitting, rowVars, persisted, early, billingFaults>>

\* A statement fails (an open transaction is rolled back): the event is marked
\* failed, if that update succeeds, and the store is told to try again.  The
\* process may also just stop.
Interrupt(j) ==
    /\ j \in processing
    /\ Bound
    /\ processing' = processing \ {j}
    /\ eventStatus' \in {eventStatus, [eventStatus EXCEPT ![j.event] = "failed"]}
    /\ UNCHANGED <<sent, submitting, rowVars, persisted, answerVars>>

\* POST /apple/transactions by the owner of the purchase: the row is taken ...
SubmitTransaction(t) ==
    /\ Bound
    /\ t \notin Held
    /\ \E state \in SubmittedState : submitting' = submitting \cup {[txn |-> t, state |-> state]}
    /\ UNCHANGED <<sent, eventStatus, processing, rowVars, persisted, answerVars>>

\* ... and the transaction commits, or is rolled back.
EndSubmission(s) ==
    /\ s \in submitting
    /\ submitting' = submitting \ {s}
    /\ PersistApplePurchase(s.txn, s.state) \/ UNCHANGED rowVars
    /\ UNCHANGED <<sent, eventStatus, processing, persisted, answerVars, billingFaults>>

\* PATCH /workspaces/:id/plan: active and manual, whatever the store says.
AssignManualPlan(p) ==
    /\ subscription' = Manual(p)
    /\ UNCHANGED <<sent, eventStatus, processing, submitting, txns, latestTxn, license, persisted,
                   answerVars, billingFaults>>

BillingInit ==
    /\ sent = [e \in Event |-> Unsent] /\ eventStatus = [e \in Event |-> "none"]
    /\ processing = {} /\ submitting = {} /\ persisted = {} /\ billingFaults = 0
    /\ answered = {} /\ early = {}
    /\ txns = [t \in Txn |-> "none"] /\ latestTxn = [p \in Purchase |-> NoTxn]
    /\ subscription = [source |-> "signup", plan |-> "community", status |-> "active", purchase |-> "none"]
    /\ license = [txn |-> NoTxn, status |-> "none"]

BillingNext ==
    \/ \E e \in Event : Notify(e) \/ Receive(e) \/ Redeliver(e)
    \/ \E j \in processing : Resolve(j) \/ Store(j) \/ Persist(j) \/ MarkProcessed(j) \/ Interrupt(j)
    \/ \E t \in Txn : SubmitTransaction(t)
    \/ \E s \in submitting : EndSubmission(s)
    \/ \E p \in AdminPlan : AssignManualPlan(p)

BillingSpec == BillingInit /\ [][BillingNext]_billingVars

-----------------------------------------------------------------------------
\* The rows and the handlers stay within their types.
BillingTypeOK ==
    /\ \A e \in Event : /\ eventStatus[e] \in {"none", "received", "processed", "ignored", "failed"}
                        /\ sent[e] = Unsent => eventStatus[e] = "none"
    /\ processing \subseteq [event : Event, step : HandlerStep]
    /\ submitting \subseteq [txn : Txn, state : SubmittedState]
    /\ txns \in [Txn -> BillingState \cup {"none"}]
    /\ latestTxn \in [Purchase -> Txn \cup {NoTxn}]
    /\ subscription.source \in {"signup", "manual", "apple_store"}
    /\ subscription.status \in {"active", "expired", "revoked"}
    /\ license.txn \in Txn \cup {NoTxn}
    /\ license.status \in {"none", "active", "expired", "revoked"}
    /\ persisted \subseteq Event /\ answered \subseteq Event /\ early \subseteq answered

\* An account is entitled to what the row of a transaction says: the one of the
\* purchase that was committed last.  However transactions that hold different rows
\* interleave, end or are rolled back, the subscription or licence and the row it
\* was written from never disagree (persistApplePurchase's one transaction).  It is
\* the last committed: an older notification that arrives late does put an older
\* state back.
EntitlementFollowsTransaction ==
    /\ subscription.source = "apple_store" =>
         subscription.status = Entitled(txns[latestTxn[subscription.purchase]])
    /\ license.txn # NoTxn => license.status = Entitled(txns[license.txn])

\* A notification the store has been told is received well, and so need not send again,
\* has been written or was nothing to write.  Excepted is one answered by a second
\* delivery that found the first at status "received" (mobile-billing.ts:211): when
\* that one then fails, or had died, nothing was written.
AnsweredIsPersisted ==
    /\ \A e \in answered \ early : e \in persisted \/ eventStatus[e] = "ignored"
    /\ \A e \in Event : eventStatus[e] = "processed" => e \in persisted

\* What an account may do is what the transaction committed last says
\* (EntitlementFollowsTransaction), and a notification answered as a success is one
\* whose effect is stored, unless a second delivery answered for a first one that was
\* not done (AnsweredIsPersisted).
PurchasesAreEntitled == EntitlementFollowsTransaction /\ AnsweredIsPersisted

\* A scale plan that an administrator assigned ends only when an administrator
\* assigns another plan, whatever the store reports of older purchases.
ManualScaleStands ==
    [][subscription = Manual("scale") /\ subscription' # subscription
        => subscription'.source = "manual"]_billingVars
=============================================================================
