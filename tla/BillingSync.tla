------------------------------- MODULE BillingSync -------------------------------
(***************************************************************************)
(* Premium access: RevenueCat's record of a user's subscription, the       *)
(* webhook and the sync request that copy it into the subscriptions table  *)
(* (backend/app/services/billing/webhooks.py, revenuecat.py,               *)
(* subscriptions.py) and the entitlements derived from it                  *)
(* (entitlements.py).  One user, one product, two providers: RevenueCat    *)
(* and the manual override of development environments.                    *)
(*                                                                         *)
(* A request handler awaits only RevenueCat's answer, so a step is what it *)
(* commits between two awaits or two commits.  RevenueCat's clock and the  *)
(* backend's are the same.                                                 *)
(***************************************************************************)
EXTENDS Naturals

CONSTANTS
    Events,     \* webhook event ids
    Handlers,   \* concurrent requests of the API
    None,       \* no event, no change
    Period,     \* how long a purchase lasts
    MaxTime,    \* bound on the clock
    MaxFaults,  \* bound: crashes, failed syncs and lost responses
    MaxOverrides \* bound: manual overrides

ASSUME PeriodAssumption == Period \in Nat \ {0}
ASSUME MaxTimeAssumption == MaxTime \in Nat
ASSUME NoneAssumption == None \notin Events \cup Nat

VARIABLES
    now,           \* the time
    store,         \* the subscription RevenueCat has on record
    changes,       \* how often that record has changed
    outbox,        \* events RevenueCat has not seen answered with a 2xx
    tests,         \* events of type TEST
    sent,          \* events emitted so far
    known,         \* the user has a local row
    eventStatus,   \* billing_webhook_events.status, ABSENT without a row
    processed,     \* events whose processed_at is set
    subscription,  \* the subscriptions row of each provider
    entitlement,   \* the entitlements derived from it
    handler,       \* what each request is doing, for which event
    payload,       \* the subscriber record each request fetched
    seen,          \* history: the change the RevenueCat row shows, None if overridden
    newest,        \* history: the newest change ever applied
    overtaken,     \* history: an older record was applied after a newer one
    ignored,       \* history: an event found no local user
    spent,         \* number of faults so far
    overrides      \* number of manual overrides so far

storeVars   == <<store, changes, outbox, tests, sent>>
eventVars   == <<eventStatus, processed>>
bookVars    == <<subscription, entitlement, seen, newest, overtaken, overrides>>
requestVars == <<handler, payload>>
vars == <<now, storeVars, known, eventVars, bookVars, requestVars, ignored, spent>>

-----------------------------------------------------------------------------
Providers == {"REVENUECAT", "MANUAL"}
Granting == {"ACTIVE", "GRACE_PERIOD", "CANCELLED"}
SubscriptionStatus == Granting \cup {"EXPIRED", "REVOKED"}
EventStatus == {"received", "processing", "processed", "failed", "ignored", "test"}

\* A subscriber record: expires = 0 when RevenueCat knows of no purchase.
Record == [expires : Nat, issue : {"none", "billing", "unsubscribed"}]

Subscription == [status : SubscriptionStatus \cup {"ABSENT"}, expires : Nat]
Entitlement == [status : {"ABSENT", "ACTIVE", "EXPIRED", "REVOKED"}, expires : Nat]

Row(status, expires) == [status |-> status, expires |-> expires]
Absent == Row("ABSENT", 0)

\* What a request that has no answer of RevenueCat holds.
Nothing == [record |-> [expires |-> 0, issue |-> "none"], at |-> 0, change |-> 0]

ForEvent == {"accepted", "applied", "failing"}
HandlerPc == {"idle", "fetching", "fetched"} \cup ForEvent
Idle == [pc |-> "idle", event |-> None]

TypeOK ==
    /\ now \in 0..MaxTime
    /\ store \in Record
    /\ changes \in Nat
    /\ outbox \subseteq sent /\ tests \subseteq sent /\ sent \subseteq Events
    /\ known \in BOOLEAN
    /\ eventStatus \in [Events -> EventStatus \cup {"ABSENT"}]
    /\ processed \subseteq sent
    /\ subscription \in [Providers -> Subscription]
    /\ entitlement \in [Providers -> Entitlement]
    /\ handler \in [Handlers -> [pc : HandlerPc, event : sent \cup {None}]]
    /\ \A h \in Handlers : handler[h].pc \in ForEvent => handler[h].event # None
    /\ payload \in [Handlers -> [record : Record, at : Nat, change : Nat]]
    /\ seen \in Nat \cup {None}
    /\ newest \in Nat
    /\ overtaken \in BOOLEAN /\ ignored \in BOOLEAN
    /\ spent \in Nat /\ overrides \in Nat

Init ==
    /\ now = 0
    /\ store = [expires |-> 0, issue |-> "none"] /\ changes = 0
    /\ outbox = {} /\ tests = {} /\ sent = {}
    /\ known = FALSE
    /\ eventStatus = [e \in Events |-> "ABSENT"] /\ processed = {}
    /\ subscription = [p \in Providers |-> Absent]
    /\ entitlement = [p \in Providers |-> Absent]
    /\ handler = [h \in Handlers |-> Idle]
    /\ payload = [h \in Handlers |-> Nothing]
    /\ seen = 0 /\ newest = 0
    /\ overtaken = FALSE /\ ignored = FALSE
    /\ spent = 0 /\ overrides = 0

-----------------------------------------------------------------------------
(* From a subscription row to premium access.                              *)

\* subscription_grants_premium_access, which is also when
\* decide_entitlement_state grants.  Rows of these statuses have an expiry.
Grants(row, t) == row.status \in Granting /\ row.expires > t

\* Slip: an entitlement once granted is never withdrawn.
SyncedNeverWithdrawn(e, row, t) ==
    IF Grants(row, t) THEN Row("ACTIVE", row.expires) ELSE e

\* sync_subscription_entitlements: the entitlement e after row was written.
\* Nobody reads when a terminal one expired, so that is 0.
Synced(e, row, t) ==
    IF Grants(row, t) THEN Row("ACTIVE", row.expires)
    ELSE IF e.status = "ABSENT" THEN e
    ELSE Row(IF row.status = "REVOKED" THEN "REVOKED" ELSE "EXPIRED", 0)

\* resolve_user_entitlements.
Entitled(p, t) == entitlement[p].status = "ACTIVE" /\ entitlement[p].expires > t

\* Slip: an unsubscribed user loses the time already paid for.
ResolvedAtOnce(record, t) ==
    IF record.expires <= t \/ record.issue = "unsubscribed" THEN "EXPIRED"
    ELSE IF record.issue = "billing" THEN "GRACE_PERIOD"
    ELSE "ACTIVE"

\* _resolve_entitlement_status.
Resolved(record, t) ==
    IF record.expires <= t THEN "EXPIRED"
    ELSE IF record.issue = "billing" THEN "GRACE_PERIOD"
    ELSE IF record.issue = "unsubscribed" THEN "CANCELLED"
    ELSE "ACTIVE"

\* The row after _expire_missing_provider_rows or
\* apply_terminal_state_to_other_provider_rows put it in a terminal status.
Terminated(row, status, t) ==
    IF row.status \in {"ABSENT", status} /\ row.expires <= t THEN row
    ELSE Row(status, IF row.expires > t THEN t ELSE row.expires)

\* select_effective_subscription: live rows before dead ones, the later
\* expiry first.
Tier(row, t) == IF Grants(row, t) THEN 3 ELSE IF row.status = "ABSENT" THEN 0 ELSE 1

Effective(t) ==
    CHOOSE p \in Providers : \A q \in Providers :
        \/ Tier(subscription[p], t) > Tier(subscription[q], t)
        \/ /\ Tier(subscription[p], t) = Tier(subscription[q], t)
           /\ subscription[p].expires >= subscription[q].expires

\* Statuses of an event whose next delivery is answered as a duplicate.
Settled == {"processed", "ignored", "test"}

\* A fault, from the bounded budget.
Fault == spent < MaxFaults /\ spent' = spent + 1

\* A 2xx ends the event's deliveries, unless the response is lost.
Acknowledge(e) ==
    \/ outbox' = outbox \ {e} /\ UNCHANGED spent
    \/ Fault /\ UNCHANGED outbox

HandlerAt(h, pc, e) == handler' = [handler EXCEPT ![h] = [pc |-> pc, event |-> e]]
HandlerIdles(h) == handler' = [handler EXCEPT ![h] = Idle]
Forgets(h) == payload' = [payload EXCEPT ![h] = Nothing]
SetStatus(e, status) == eventStatus' = [eventStatus EXCEPT ![e] = status]

-----------------------------------------------------------------------------
(* Slips: what an action below would be with the mistake its comment names. *)
(* The specification uses neither these nor the two slips above.           *)

\* A failed sync answers for an event it does not have.
SyncFailsAsWebhook(h) ==
    /\ handler[h].pc \in {"fetching", "fetched"}
    /\ Fault
    /\ HandlerAt(h, "failing", handler[h].event)
    /\ Forgets(h)
    /\ UNCHANGED <<now, storeVars, known, eventVars, bookVars, ignored>>

\* A duplicate is answered with an error.
RefuseDuplicates(h, e) ==
    /\ handler[h].pc = "idle"
    /\ e \in outbox
    /\ e \notin processed /\ eventStatus[e] \notin Settled
    /\ SetStatus(e, IF eventStatus[e] = "ABSENT" THEN "received" ELSE eventStatus[e])
    /\ HandlerAt(h, "accepted", e)
    /\ UNCHANGED <<now, storeVars, known, processed, bookVars, payload, ignored, spent>>

\* The event is marked and answered before the subscription is fetched.
BeginAnswered(h) ==
    LET e == handler[h].event IN
    /\ handler[h].pc = "accepted"
    /\ known /\ e \notin tests
    /\ SetStatus(e, "processed")
    /\ processed' = processed \cup {e}
    /\ Acknowledge(e)
    /\ HandlerAt(h, "fetching", None)
    /\ UNCHANGED <<now, store, changes, tests, sent, known, bookVars, payload, ignored>>

-----------------------------------------------------------------------------
(* The world outside: time, the store, and the user's first login.         *)

Tick ==
    /\ now < MaxTime
    /\ now' = now + 1
    /\ UNCHANGED <<storeVars, known, eventVars, bookVars, requestVars, ignored, spent>>

\* What the store can make of the subscription: a purchase or renewal, a
\* failed payment, an unsubscription, a refund, a transfer to another user.
Becomes ==
    {[expires |-> now + Period, issue |-> "none"]}
    \cup (IF store.expires > now
          THEN {[store EXCEPT !.issue = "billing"],
                [store EXCEPT !.issue = "unsubscribed"],
                [store EXCEPT !.expires = now],
                [expires |-> 0, issue |-> "none"]}
          ELSE {})

\* Every change is announced by an event of its own.
StoreChanges(e, record) ==
    /\ e \notin sent
    /\ record # store
    /\ store' = record
    /\ changes' = changes + 1
    /\ sent' = sent \cup {e}
    /\ outbox' = outbox \cup {e}
    /\ UNCHANGED <<now, tests, known, eventVars, bookVars, requestVars, ignored, spent>>

SendTest(e) ==
    /\ e \notin sent
    /\ sent' = sent \cup {e} /\ tests' = tests \cup {e} /\ outbox' = outbox \cup {e}
    /\ UNCHANGED <<now, store, changes, known, eventVars, bookVars, requestVars, ignored,
                   spent>>

FirstLogin ==
    /\ ~known
    /\ known' = TRUE
    /\ UNCHANGED <<now, storeVars, eventVars, bookVars, requestVars, ignored, spent>>

-----------------------------------------------------------------------------
(* POST /v1/billing/revenuecat/webhook: process_revenuecat_webhook.        *)

\* The event's row is created or counted another delivery; a settled event
\* is answered as a duplicate.
Receive(h, e) ==
    /\ handler[h].pc = "idle"
    /\ e \in outbox
    /\ IF e \in processed \/ eventStatus[e] \in Settled
       THEN Acknowledge(e) /\ UNCHANGED <<eventStatus, handler>>
       ELSE /\ SetStatus(e, IF eventStatus[e] = "ABSENT" THEN "received"
                            ELSE eventStatus[e])
            /\ HandlerAt(h, "accepted", e)
            /\ UNCHANGED <<outbox, spent>>
    /\ UNCHANGED <<now, store, changes, tests, sent, known, processed, bookVars, payload,
                   ignored>>

\* A test, or no local user: there is nothing to synchronize.
SettleAtOnce(h) ==
    LET e == handler[h].event IN
    /\ handler[h].pc = "accepted"
    /\ e \in tests \/ ~known
    /\ SetStatus(e, IF e \in tests THEN "test" ELSE "ignored")
    /\ ignored' = (ignored \/ e \notin tests)
    /\ processed' = processed \cup {e}
    /\ Acknowledge(e)
    /\ HandlerIdles(h)
    /\ UNCHANGED <<now, store, changes, tests, sent, known, bookVars, payload>>

Begin(h) ==
    LET e == handler[h].event IN
    /\ handler[h].pc = "accepted"
    /\ known /\ e \notin tests
    /\ SetStatus(e, "processing")
    /\ HandlerAt(h, "fetching", e)
    /\ UNCHANGED <<now, storeVars, known, processed, bookVars, payload, ignored, spent>>

MarkProcessed(h) ==
    LET e == handler[h].event IN
    /\ handler[h].pc = "applied"
    /\ SetStatus(e, "processed")
    /\ processed' = processed \cup {e}
    /\ Acknowledge(e)
    /\ HandlerIdles(h)
    /\ UNCHANGED <<now, store, changes, tests, sent, known, bookVars, payload, ignored>>

\* The error is recorded, whatever another delivery of the event has done,
\* and answered with a status that makes RevenueCat try again.
MarkFailed(h) ==
    /\ handler[h].pc = "failing"
    /\ SetStatus(handler[h].event, "failed")
    /\ HandlerIdles(h)
    /\ UNCHANGED <<now, storeVars, known, processed, bookVars, payload, ignored, spent>>

-----------------------------------------------------------------------------
(* sync_revenuecat_subscription, for the webhook and for                   *)
(* POST /v1/billing/revenuecat/sync.                                       *)

StartSync(h) ==
    /\ handler[h].pc = "idle"
    /\ known
    /\ HandlerAt(h, "fetching", None)
    /\ UNCHANGED <<now, storeVars, known, eventVars, bookVars, payload, ignored, spent>>

\* RevenueCat answers with the record it has at this moment.
Fetch(h) ==
    /\ handler[h].pc = "fetching"
    /\ payload' = [payload EXCEPT ![h] = [record |-> store, at |-> now, change |-> changes]]
    /\ HandlerAt(h, "fetched", handler[h].event)
    /\ UNCHANGED <<now, storeVars, known, eventVars, bookVars, ignored, spent>>

\* RevenueCat cannot be reached, or the database refuses the update.
SyncFails(h) ==
    /\ handler[h].pc \in {"fetching", "fetched"}
    /\ Fault
    /\ IF handler[h].event = None
       THEN HandlerIdles(h) ELSE HandlerAt(h, "failing", handler[h].event)
    /\ Forgets(h)
    /\ UNCHANGED <<now, storeVars, known, eventVars, bookVars, ignored>>

\* The row a record is written as; without a purchase the old row expires.
Written(record) ==
    IF record.expires = 0 THEN Terminated(subscription["REVENUECAT"], "EXPIRED", now)
    ELSE Row(Resolved(record, now), record.expires)

\* handle_provider_event: the answer overwrites the row.
Apply(h) ==
    LET p == "REVENUECAT"
        got == payload[h]
        missing == got.record.expires = 0
        row == Written(got.record) IN
    /\ handler[h].pc = "fetched"
    /\ subscription' = [subscription EXCEPT ![p] = row]
    /\ entitlement' =
          IF missing /\ row = subscription[p] THEN entitlement
          ELSE [entitlement EXCEPT ![p] =
                    Synced(entitlement[p], row, IF missing THEN now ELSE got.at)]
    /\ seen' = got.change
    /\ newest' = IF got.change > newest THEN got.change ELSE newest
    /\ overtaken' = (overtaken \/ got.change < newest)
    /\ IF handler[h].event = None
       THEN HandlerIdles(h) ELSE HandlerAt(h, "applied", handler[h].event)
    /\ Forgets(h)
    /\ UNCHANGED <<now, storeVars, known, eventVars, ignored, spent, overrides>>

\* The process dies and answers nothing.
HandlerDies(h) ==
    /\ handler[h].pc # "idle"
    /\ Fault
    /\ HandlerIdles(h)
    /\ Forgets(h)
    /\ UNCHANGED <<now, storeVars, known, eventVars, bookVars, ignored>>

-----------------------------------------------------------------------------
(* POST /internal/dev/billing/subscriptions/manual.  The handler awaits    *)
(* nothing between its two commits, and development runs a single process. *)

ManualStatus == [activate |-> "ACTIVE", expire |-> "EXPIRED", revoke |-> "REVOKED"]

ManualAction(action, expires) ==
    LET row == Row(ManualStatus[action], expires)
        other == Terminated(subscription["REVENUECAT"], row.status, expires)
        override == action # "activate" /\ other # subscription["REVENUECAT"] IN
    /\ known
    /\ overrides < MaxOverrides /\ overrides' = overrides + 1
    /\ action = "revoke" => expires = now
    /\ subscription' = [subscription EXCEPT !["MANUAL"] = row, !["REVENUECAT"] =
                            IF override THEN other ELSE @]
    /\ entitlement' = [entitlement EXCEPT
          !["MANUAL"] = Synced(@, row, now),
          !["REVENUECAT"] = IF override THEN Synced(@, other, now) ELSE @]
    /\ seen' = IF override THEN None ELSE seen
    /\ UNCHANGED <<now, storeVars, known, eventVars, newest, overtaken, requestVars,
                   ignored, spent>>

-----------------------------------------------------------------------------
HandlerStep(h) ==
    \/ SettleAtOnce(h)
    \/ Begin(h)
    \/ Fetch(h)
    \/ SyncFails(h)
    \/ Apply(h)
    \/ MarkProcessed(h)
    \/ MarkFailed(h)

Next ==
    \/ Tick
    \/ FirstLogin
    \/ \E e \in Events :
        \/ \E record \in Becomes : StoreChanges(e, record)
        \/ SendTest(e)
        \/ \E h \in Handlers : Receive(h, e)
    \/ \E h \in Handlers : StartSync(h) \/ HandlerStep(h) \/ HandlerDies(h)
    \/ \E action \in DOMAIN ManualStatus, expires \in {now, now + Period} :
          ManualAction(action, expires)

Spec == Init /\ [][Next]_vars

\* A request that has begun goes on, and RevenueCat goes on delivering an
\* event until it is answered.  How many requests the API can have open is a
\* bound of the model, so a delivery that finds one free now and then is
\* made.
FairSpec ==
    /\ Spec
    /\ \A h \in Handlers : WF_vars(HandlerStep(h))
    /\ \A e \in Events : SF_vars(\E h \in Handlers : Receive(h, e))

-----------------------------------------------------------------------------
(* Properties.                                                             *)

\* GET /me/subscription and GET /me/entitlements agree at every moment: the
\* user is entitled to premium features exactly while the effective
\* subscription grants premium access, whichever provider it is of, and
\* although the one is decided when it is read and the other was decided when
\* the row was written, at the time of RevenueCat's answer.
AccessAgrees ==
    (\E p \in Providers : Entitled(p, now)) <=> Grants(subscription[Effective(now)], now)

\* A change of the store that the backend does not show is announced by an
\* event that RevenueCat will still deliver, whatever was delivered twice,
\* failed or crashed.  The exceptions: an event that found no local user, and
\* an older answer of RevenueCat that was applied after a newer one.
SyncOwed == overtaken \/ ignored \/ seen \in {changes, None} \/ outbox # {}

\* Once the row shows the store's last change, premium features follow the
\* store from then on: they end when the time paid for ends, a cancelled or
\* failing subscription keeps them till then, and a refund or transfer ends
\* them at once.
PremiumMatchesStore == seen = changes => (Entitled("REVENUECAT", now) <=> store.expires > now)

\* Every event is answered with a 2xx in the end.
EventsAreAcknowledged == \A e \in Events : e \in outbox ~> e \notin outbox

\* The subscriptions table holds the current state of the subscription, or an
\* event is on its way: what the model's docstring says of it, with no order
\* of answers excepted.
SubscriptionIsCurrent == ignored \/ seen \in {changes, None} \/ outbox # {}

=============================================================================
