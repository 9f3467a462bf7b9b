---------------------------- MODULE BillingSyncProofs ----------------------------
(***************************************************************************)
(* Proofs about the synchronization of subscriptions, for any events,      *)
(* requests, purchase period and numbers of faults and overrides.          *)
(***************************************************************************)
EXTENDS BillingSync, TLAPS

-----------------------------------------------------------------------------
(* The inductive invariants.                                               *)

\* No answer comes from the future.
AnswersArePast == \A h \in Handlers : payload[h].at <= now

\* From now on the entitlement of each provider is in force exactly while its
\* row grants premium access.
RowsAgree ==
    \A p \in Providers, t \in Nat :
        t >= now => (Entitled(p, t) <=> Grants(subscription[p], t))

AccessInv == TypeOK /\ AnswersArePast /\ RowsAgree

\* The history counters: what was fetched or applied is not newer than the
\* store, an answer of the newest change is the store's record, and the row
\* shows the newest change applied unless it was overridden or overtaken.
History ==
    /\ newest <= changes
    /\ \A h \in Handlers : payload[h].change <= changes
    /\ \A h \in Handlers :
          handler[h].pc = "fetched" /\ payload[h].change = changes
          => payload[h].record = store
    /\ seen \in {newest, None} \/ overtaken
    /\ seen \in Nat => seen <= changes

\* Event e is not answered for, and whoever has fetched the subscription for
\* it has fetched the newest record.
Owed(e) ==
    /\ e \in outbox \ (tests \cup processed)
    /\ eventStatus[e] \notin Settled
    /\ \A h \in Handlers :
          handler[h].event = e =>
              /\ handler[h].pc # "applied"
              /\ handler[h].pc = "fetched" => payload[h].change = changes

\* An event that was not sent has no row.
UnsentIsAbsent == \A e \in Events \ sent : eventStatus[e] = "ABSENT"

\* The newest change was applied, or ignored, or its event is owed.
NewestIsOwed == newest = changes \/ ignored \/ \E e \in Events : Owed(e)

SyncInv == TypeOK /\ History /\ UnsentIsAbsent /\ NewestIsOwed

\* While the row shows the newest change, the entitlement follows the store at
\* every later moment.
FollowsStore ==
    seen = changes =>
        \A t \in Nat : t >= now => (Entitled("REVENUECAT", t) <=> store.expires > t)


-----------------------------------------------------------------------------
\* What is written into the table is a row.
LEMMA WrittenRow ==
    ASSUME TypeOK, NEW record \in Record PROVE Written(record) \in Subscription
<1>1. now \in Nat
  BY MaxTimeAssumption DEF TypeOK
<1>2. subscription["REVENUECAT"] \in Subscription
  BY DEF TypeOK, Providers
<1>3. QED
  BY <1>1, <1>2 DEF Written, Record, Subscription, SubscriptionStatus, Granting, Row,
                   Resolved, Terminated

\* Requests, events, rows and entitlements stay well formed.
THEOREM TypeCorrect == Spec => []TypeOK
<1>1. Init => TypeOK
  <2> SUFFICES ASSUME Init PROVE TypeOK
    OBVIOUS
  <2>1. [expires |-> 0, issue |-> "none"] \in Record
    BY DEF Record
  <2>2. /\ store \in Record
        /\ payload \in [Handlers -> [record : Record, at : Nat, change : Nat]]
    BY <2>1 DEF Init, Nothing
  <2>3. /\ subscription \in [Providers -> Subscription]
        /\ entitlement \in [Providers -> Entitlement]
    BY DEF Init, Absent, Row, Subscription, Entitlement
  <2>4. /\ handler \in [Handlers -> [pc : HandlerPc, event : sent \cup {None}]]
        /\ \A h \in Handlers : handler[h].pc \notin ForEvent
    BY DEF Init, Idle, HandlerPc, ForEvent
  <2>5. /\ now \in 0..MaxTime
        /\ changes \in Nat /\ newest \in Nat /\ spent \in Nat /\ overrides \in Nat
        /\ seen \in Nat \cup {None}
    BY MaxTimeAssumption DEF Init
  <2>6. /\ outbox \subseteq sent /\ tests \subseteq sent /\ sent \subseteq Events
        /\ processed \subseteq sent
        /\ known \in BOOLEAN /\ overtaken \in BOOLEAN /\ ignored \in BOOLEAN
        /\ eventStatus \in [Events -> EventStatus \cup {"ABSENT"}]
    BY DEF Init
  <2>7. QED
    BY <2>2, <2>3, <2>4, <2>5, <2>6 DEF TypeOK
<1>2. TypeOK /\ [Next]_vars => TypeOK'
  <2> SUFFICES ASSUME TypeOK, [Next]_vars PROVE TypeOK'
    OBVIOUS
  <2> USE MaxTimeAssumption, NoneAssumption DEF TypeOK, Record, Row, Nothing,
       Idle, HandlerPc, ForEvent, Subscription, Entitlement, SubscriptionStatus, Granting, Absent, EventStatus,
       Providers, storeVars, eventVars, bookVars, requestVars
  <2>1. ASSUME Tick
        PROVE  TypeOK'
    BY <2>1 DEF Tick, Fault, Acknowledge, HandlerAt, HandlerIdles, Forgets, SetStatus
  <2>2. ASSUME FirstLogin
        PROVE  TypeOK'
    BY <2>2 DEF FirstLogin, Fault, Acknowledge, HandlerAt, HandlerIdles, Forgets, SetStatus
  <2>3. ASSUME NEW e \in Events, NEW record \in Becomes, StoreChanges(e, record)
        PROVE  TypeOK'
    BY <2>3, PeriodAssumption DEF StoreChanges, Becomes
  <2>4. ASSUME NEW e \in Events, SendTest(e)
        PROVE  TypeOK'
    BY <2>4 DEF SendTest, Fault, Acknowledge, HandlerAt, HandlerIdles, Forgets, SetStatus
  <2>5. ASSUME NEW h \in Handlers, NEW e \in Events, Receive(h, e)
        PROVE  TypeOK'
    <3>1. CASE Acknowledge(e) /\ UNCHANGED <<eventStatus, handler>>
      BY <2>5, <3>1 DEF Receive, Acknowledge, Fault
    <3>2. CASE /\ SetStatus(e, IF eventStatus[e] = "ABSENT" THEN "received" ELSE eventStatus[e])
               /\ HandlerAt(h, "accepted", e) /\ UNCHANGED <<outbox, spent>>
      BY <2>5, <3>2 DEF Receive, SetStatus, HandlerAt
    <3>3. QED
      BY <2>5, <3>1, <3>2 DEF Receive
  <2>6. ASSUME NEW h \in Handlers, StartSync(h)
        PROVE  TypeOK'
    BY <2>6 DEF StartSync, Fault, Acknowledge, HandlerAt, HandlerIdles, Forgets, SetStatus
  <2>7. ASSUME NEW h \in Handlers, SettleAtOnce(h)
        PROVE  TypeOK'
    BY <2>7 DEF SettleAtOnce, Fault, Acknowledge, HandlerAt, HandlerIdles, Forgets, SetStatus
  <2>8. ASSUME NEW h \in Handlers, Begin(h)
        PROVE  TypeOK'
    BY <2>8 DEF Begin, Fault, Acknowledge, HandlerAt, HandlerIdles, Forgets, SetStatus
  <2>9. ASSUME NEW h \in Handlers, Fetch(h)
        PROVE  TypeOK'
    BY <2>9 DEF Fetch, Fault, Acknowledge, HandlerAt, HandlerIdles, Forgets, SetStatus
  <2>10. ASSUME NEW h \in Handlers, SyncFails(h)
        PROVE  TypeOK'
    <3>1. CASE HandlerIdles(h)
      BY <2>10, <3>1 DEF SyncFails, Fault, HandlerIdles, Forgets
    <3>2. CASE handler[h].event # None /\ HandlerAt(h, "failing", handler[h].event)
      BY <2>10, <3>2 DEF SyncFails, Fault, HandlerAt, Forgets
    <3>3. QED
      BY <2>10, <3>1, <3>2 DEF SyncFails
  <2>11. ASSUME NEW h \in Handlers, Apply(h)
        PROVE  TypeOK'
    <3>1. /\ payload' \in [Handlers -> [record : Record, at : Nat, change : Nat]]
          /\ seen' \in Nat \cup {None} /\ newest' \in Nat /\ overtaken' \in BOOLEAN
      BY <2>11 DEF Apply, Forgets
    <3>2. /\ handler' \in [Handlers -> [pc : HandlerPc, event : sent \cup {None}]]
          /\ \A g \in Handlers : handler'[g].pc \in ForEvent => handler'[g].event # None
      <4>1. CASE HandlerIdles(h)
        BY <4>1 DEF HandlerIdles
      <4>2. CASE handler[h].event # None /\ HandlerAt(h, "applied", handler[h].event)
        BY <4>2 DEF HandlerAt
      <4>3. QED
        BY <2>11, <4>1, <4>2 DEF Apply
    <3>3. PICK row \in Subscription, t \in Nat :
              /\ subscription' = [subscription EXCEPT !["REVENUECAT"] = row]
              /\ \/ UNCHANGED entitlement
                 \/ entitlement' = [entitlement EXCEPT !["REVENUECAT"] =
                                         Synced(entitlement["REVENUECAT"], row, t)]
      <4>1. now \in Nat /\ payload[h].at \in Nat /\ payload[h].record \in Record
        BY DEF TypeOK
      <4>2. QED
        BY <2>11, <4>1, WrittenRow DEF Apply
    <3>4. /\ subscription' \in [Providers -> Subscription]
          /\ entitlement' \in [Providers -> Entitlement]
      BY <3>3 DEF Synced
    <3>5. QED
      BY <2>11, <3>1, <3>2, <3>4 DEF Apply
  <2>12. ASSUME NEW h \in Handlers, MarkProcessed(h)
        PROVE  TypeOK'
    BY <2>12 DEF MarkProcessed, Fault, Acknowledge, HandlerAt, HandlerIdles, Forgets, SetStatus
  <2>13. ASSUME NEW h \in Handlers, MarkFailed(h)
        PROVE  TypeOK'
    BY <2>13 DEF MarkFailed, Fault, Acknowledge, HandlerAt, HandlerIdles, Forgets, SetStatus
  <2>14. ASSUME NEW h \in Handlers, HandlerDies(h)
        PROVE  TypeOK'
    BY <2>14 DEF HandlerDies, Fault, Acknowledge, HandlerAt, HandlerIdles, Forgets, SetStatus
  <2>15. ASSUME NEW action \in DOMAIN ManualStatus, NEW expires \in {now, now + Period}, ManualAction(action, expires)
        PROVE  TypeOK'
    <3>1. expires \in Nat
      BY <2>15, PeriodAssumption
    <3>2. Row(ManualStatus[action], expires) \in Subscription
      BY <3>1 DEF ManualStatus
    <3>3. Terminated(subscription["REVENUECAT"], ManualStatus[action], expires) \in Subscription
      BY <3>1 DEF ManualStatus, Terminated
    <3>4. subscription' \in [Providers -> Subscription]
      BY <2>15, <3>2, <3>3 DEF ManualAction
    <3>5. entitlement' \in [Providers -> Entitlement]
      BY <2>15, <3>1, <3>2, <3>3 DEF ManualAction, Synced
    <3>6. seen' \in Nat \cup {None}
      BY <2>15 DEF ManualAction
    <3>7. QED
      BY <2>15, <3>4, <3>5, <3>6 DEF ManualAction
  <2>16. CASE UNCHANGED vars
    BY <2>16 DEF vars
  <2>17. QED
    BY <2>1, <2>2, <2>3, <2>4, <2>5, <2>6, <2>7, <2>8, <2>9, <2>10, <2>11, <2>12, <2>13, <2>14, <2>15, <2>16 DEF Next, HandlerStep
<1>3. QED
  BY <1>1, <1>2, PTL DEF Spec

-----------------------------------------------------------------------------
(* Both reads of premium access agree.                                     *)

\* A synchronized entitlement is in force exactly while its row grants access,
\* at any time after the one it was decided for.
LEMMA SyncedFollows ==
    ASSUME NEW e \in Entitlement, NEW row \in Subscription,
           NEW t0 \in Nat, NEW t \in Nat, t >= t0
    PROVE  LET s == Synced(e, row, t0) IN
           s.status = "ACTIVE" /\ s.expires > t <=> Grants(row, t)
<1>1. CASE Grants(row, t0)
  BY <1>1 DEF Synced, Row, Grants, Subscription
<1>2. CASE ~Grants(row, t0)
  <2>1. ~Grants(row, t)
    BY <1>2 DEF Grants, Subscription
  <2>2. Synced(e, row, t0).status # "ACTIVE"
    BY <1>2 DEF Synced, Row, Entitlement
  <2>3. QED
    BY <2>1, <2>2
<1>3. QED
  BY <1>1, <1>2

\* The agreement of rows and entitlements is kept by every step.
LEMMA AccessKept == Spec => []AccessInv
<1>1. Init => AnswersArePast /\ RowsAgree
  BY DEF Init, AnswersArePast, RowsAgree, Entitled, Grants, Granting, Absent, Row, Nothing,
         Providers
<1>2. TypeOK /\ AnswersArePast /\ RowsAgree /\ [Next]_vars => (AnswersArePast /\ RowsAgree)'
  <2> SUFFICES ASSUME TypeOK, AnswersArePast, RowsAgree, [Next]_vars
               PROVE  (AnswersArePast /\ RowsAgree)'
    OBVIOUS
  <2> USE MaxTimeAssumption DEF TypeOK, AnswersArePast, RowsAgree, Entitled, Providers,
       Subscription, SubscriptionStatus, Granting, storeVars, eventVars, bookVars, requestVars
  <2>1. ASSUME Tick
        PROVE  (AnswersArePast /\ RowsAgree)'
    BY <2>1 DEF Tick
  <2>2. ASSUME FirstLogin
        PROVE  (AnswersArePast /\ RowsAgree)'
    BY <2>2 DEF FirstLogin, Forgets, Nothing
  <2>3. ASSUME NEW e \in Events, NEW record \in Becomes, StoreChanges(e, record)
        PROVE  (AnswersArePast /\ RowsAgree)'
    BY <2>3 DEF StoreChanges, Forgets, Nothing
  <2>4. ASSUME NEW e \in Events, SendTest(e)
        PROVE  (AnswersArePast /\ RowsAgree)'
    BY <2>4 DEF SendTest, Forgets, Nothing
  <2>5. ASSUME NEW h \in Handlers, NEW e \in Events, Receive(h, e)
        PROVE  (AnswersArePast /\ RowsAgree)'
    BY <2>5 DEF Receive, Forgets, Nothing
  <2>6. ASSUME NEW h \in Handlers, StartSync(h)
        PROVE  (AnswersArePast /\ RowsAgree)'
    BY <2>6 DEF StartSync, Forgets, Nothing
  <2>7. ASSUME NEW h \in Handlers, SettleAtOnce(h)
        PROVE  (AnswersArePast /\ RowsAgree)'
    BY <2>7 DEF SettleAtOnce, Forgets, Nothing
  <2>8. ASSUME NEW h \in Handlers, Begin(h)
        PROVE  (AnswersArePast /\ RowsAgree)'
    BY <2>8 DEF Begin, Forgets, Nothing
  <2>9. ASSUME NEW h \in Handlers, Fetch(h)
        PROVE  (AnswersArePast /\ RowsAgree)'
    BY <2>9 DEF Fetch
  <2>10. ASSUME NEW h \in Handlers, SyncFails(h)
        PROVE  (AnswersArePast /\ RowsAgree)'
    BY <2>10 DEF SyncFails, Forgets, Nothing
  <2>11. ASSUME NEW h \in Handlers, Apply(h)
        PROVE  (AnswersArePast /\ RowsAgree)'
    <3>1. AnswersArePast'
      BY <2>11 DEF Apply, Forgets, Nothing
    <3>2. PICK row \in Subscription, t0 \in Nat :
              /\ t0 <= now
              /\ subscription' = [subscription EXCEPT !["REVENUECAT"] = row]
              /\ \/ UNCHANGED entitlement /\ row = subscription["REVENUECAT"]
                 \/ entitlement' = [entitlement EXCEPT !["REVENUECAT"] =
                                        Synced(entitlement["REVENUECAT"], row, t0)]
      <4>1. now \in Nat /\ payload[h].at \in Nat /\ payload[h].record \in Record
        OBVIOUS
      <4>2. Written(payload[h].record) \in Subscription
        BY <4>1, WrittenRow
      <4>3. PICK t0 \in {now, payload[h].at} :
                \/ UNCHANGED entitlement
                   /\ Written(payload[h].record) = subscription["REVENUECAT"]
                \/ entitlement' = [entitlement EXCEPT !["REVENUECAT"] =
                      Synced(entitlement["REVENUECAT"], Written(payload[h].record), t0)]
        BY <2>11 DEF Apply
      <4>4. t0 \in Nat /\ t0 <= now
        BY <4>1
      <4>5. subscription' = [subscription EXCEPT !["REVENUECAT"] = Written(payload[h].record)]
        BY <2>11 DEF Apply
      <4>6. QED
        BY <4>2, <4>3, <4>4, <4>5
    <3>3. ASSUME NEW p \in Providers, NEW t \in Nat, t >= now
          PROVE  Entitled(p, t)' <=> Grants(subscription'[p], t)
      <4>1. CASE p # "REVENUECAT" \/ UNCHANGED <<entitlement, subscription>>
        BY <3>2, <3>3, <4>1
      <4>2. CASE p = "REVENUECAT" /\ entitlement'[p] = Synced(entitlement[p], subscription'[p], t0)
        <5>1. subscription'[p] \in Subscription /\ entitlement[p] \in Entitlement
          BY <3>2, <4>2
        <5>2. t >= t0
          BY <3>2, <3>3
        <5>3. QED
          BY <4>2, <5>1, <5>2, SyncedFollows DEF Entitled
      <4>3. QED
        BY <3>2, <4>1, <4>2
    <3>4. QED
      BY <2>11, <3>1, <3>3 DEF Apply
  <2>12. ASSUME NEW h \in Handlers, MarkProcessed(h)
        PROVE  (AnswersArePast /\ RowsAgree)'
    BY <2>12 DEF MarkProcessed, Forgets, Nothing
  <2>13. ASSUME NEW h \in Handlers, MarkFailed(h)
        PROVE  (AnswersArePast /\ RowsAgree)'
    BY <2>13 DEF MarkFailed, Forgets, Nothing
  <2>14. ASSUME NEW h \in Handlers, HandlerDies(h)
        PROVE  (AnswersArePast /\ RowsAgree)'
    BY <2>14 DEF HandlerDies, Forgets, Nothing
  <2>15. ASSUME NEW action \in DOMAIN ManualStatus, NEW expires \in {now, now + Period}, ManualAction(action, expires)
        PROVE  (AnswersArePast /\ RowsAgree)'
    <3>1. expires \in Nat /\ now \in Nat
      BY <2>15, PeriodAssumption
    <3>2. PICK row \in Subscription :
              /\ subscription'["MANUAL"] = row
              /\ entitlement'["MANUAL"] = Synced(entitlement["MANUAL"], row, now)
      BY <2>15, <3>1 DEF ManualAction, Row, ManualStatus
    <3>3. PICK other \in Subscription :
              \/ /\ subscription'["REVENUECAT"] = other
                 /\ entitlement'["REVENUECAT"] = Synced(entitlement["REVENUECAT"], other, now)
              \/ /\ subscription'["REVENUECAT"] = subscription["REVENUECAT"]
                 /\ entitlement'["REVENUECAT"] = entitlement["REVENUECAT"]
      <4>1. Terminated(subscription["REVENUECAT"], ManualStatus[action], expires) \in Subscription
        BY <3>1 DEF ManualStatus, Terminated, Row
      <4>2. QED
        BY <2>15, <4>1 DEF ManualAction, Row
    <3>4. ASSUME NEW p \in Providers, NEW t \in Nat, t >= now
          PROVE  Entitled(p, t)' <=> Grants(subscription'[p], t)
      <4>1. CASE /\ subscription'[p] = subscription[p] /\ entitlement'[p] = entitlement[p]
        BY <3>4, <4>1 DEF Entitled
      <4>2. CASE /\ subscription'[p] \in Subscription
                 /\ entitlement'[p] = Synced(entitlement[p], subscription'[p], now)
        <5>1. entitlement[p] \in Entitlement
          OBVIOUS
        <5>2. QED
          BY <3>1, <3>4, <4>2, <5>1, SyncedFollows DEF Entitled
      <4>3. QED
        BY <3>2, <3>3, <4>1, <4>2
    <3>5. QED
      BY <2>15, <3>4 DEF ManualAction
  <2>16. CASE UNCHANGED vars
    BY <2>16 DEF vars
  <2>17. QED
    BY <2>1, <2>2, <2>3, <2>4, <2>5, <2>6, <2>7, <2>8, <2>9, <2>10, <2>11, <2>12, <2>13, <2>14, <2>15, <2>16 DEF Next, HandlerStep
<1>3. QED
  BY TypeCorrect, <1>1, <1>2, PTL DEF Spec, AccessInv

\* The effective subscription grants access if any does.
LEMMA EffectiveGrants ==
    ASSUME TypeOK
    PROVE  Grants(subscription[Effective(now)], now) <=>
               \E p \in Providers : Grants(subscription[p], now)
<1> DEFINE Better(p, q) ==
               \/ Tier(subscription[p], now) > Tier(subscription[q], now)
               \/ /\ Tier(subscription[p], now) = Tier(subscription[q], now)
                  /\ subscription[p].expires >= subscription[q].expires
<1>1. \A p \in Providers : Tier(subscription[p], now) \in {0, 1, 3}
  BY DEF Tier
<1>2. \A p \in Providers : subscription[p].expires \in Nat
  BY DEF TypeOK, Subscription
<1>3. \E p \in Providers : \A q \in Providers : Better(p, q)
  BY <1>1, <1>2 DEF Providers
<1>4. /\ Effective(now) \in Providers
      /\ \A q \in Providers : Better(Effective(now), q)
  BY <1>3 DEF Effective
<1>5. \A p \in Providers : Grants(subscription[p], now) <=> Tier(subscription[p], now) = 3
  BY DEF Tier
<1>6. QED
  BY <1>1, <1>4, <1>5

\* GET /me/entitlements and GET /me/subscription give the same answer, however
\* long ago RevenueCat's record was fetched and whoever wrote last.
THEOREM AccessTheorem == Spec => []AccessAgrees
<1>1. AccessInv => AccessAgrees
  <2> SUFFICES ASSUME AccessInv PROVE AccessAgrees
    OBVIOUS
  <2>1. now \in Nat
    BY MaxTimeAssumption DEF AccessInv, TypeOK
  <2>2. \A p \in Providers : Entitled(p, now) <=> Grants(subscription[p], now)
    BY <2>1 DEF AccessInv, RowsAgree
  <2>3. QED
    BY <2>2, EffectiveGrants DEF AccessInv, AccessAgrees
<1>2. QED
  BY AccessKept, <1>1, PTL

-----------------------------------------------------------------------------
(* No change of the store is lost.                                         *)

\* The history counters are kept by every step.
LEMMA HistoryKept == Spec => [](TypeOK /\ History)
<1>1. Init => History
  BY DEF Init, History, Nothing, Idle
<1>2. TypeOK /\ History /\ [Next]_vars => History'
  <2> SUFFICES ASSUME TypeOK, History, [Next]_vars PROVE History'
    OBVIOUS
  <2> USE NoneAssumption DEF TypeOK, History, storeVars, eventVars, bookVars, requestVars
  <2>1. ASSUME Tick
        PROVE  History'
    BY <2>1 DEF Tick, Fault, Forgets, Nothing, HandlerAt, HandlerIdles, Idle
  <2>2. ASSUME FirstLogin
        PROVE  History'
    BY <2>2 DEF FirstLogin, Fault, Forgets, Nothing, HandlerAt, HandlerIdles, Idle
  <2>3. ASSUME NEW e \in Events, NEW record \in Becomes, StoreChanges(e, record)
        PROVE  History'
    BY <2>3 DEF StoreChanges
  <2>4. ASSUME NEW e \in Events, SendTest(e)
        PROVE  History'
    BY <2>4 DEF SendTest, Fault, Forgets, Nothing, HandlerAt, HandlerIdles, Idle
  <2>5. ASSUME NEW h \in Handlers, NEW e \in Events, Receive(h, e)
        PROVE  History'
    BY <2>5 DEF Receive, Fault, Forgets, Nothing, HandlerAt, HandlerIdles, Idle
  <2>6. ASSUME NEW h \in Handlers, StartSync(h)
        PROVE  History'
    BY <2>6 DEF StartSync, Fault, Forgets, Nothing, HandlerAt, HandlerIdles, Idle
  <2>7. ASSUME NEW h \in Handlers, SettleAtOnce(h)
        PROVE  History'
    BY <2>7 DEF SettleAtOnce, Fault, Forgets, Nothing, HandlerAt, HandlerIdles, Idle
  <2>8. ASSUME NEW h \in Handlers, Begin(h)
        PROVE  History'
    BY <2>8 DEF Begin, Fault, Forgets, Nothing, HandlerAt, HandlerIdles, Idle
  <2>9. ASSUME NEW h \in Handlers, Fetch(h)
        PROVE  History'
    BY <2>9 DEF Fetch, HandlerAt
  <2>10. ASSUME NEW h \in Handlers, SyncFails(h)
        PROVE  History'
    <3>1. CASE HandlerIdles(h)
      BY <2>10, <3>1 DEF SyncFails, Forgets, Nothing, HandlerIdles, Idle
    <3>2. CASE HandlerAt(h, "failing", handler[h].event)
      BY <2>10, <3>2 DEF SyncFails, Forgets, Nothing, HandlerAt
    <3>3. QED
      BY <2>10, <3>1, <3>2 DEF SyncFails
  <2>11. ASSUME NEW h \in Handlers, Apply(h)
        PROVE  History'
    <3>1. payload[h].change \in Nat /\ payload[h].change <= changes
      OBVIOUS
    <3>2. /\ newest' <= changes'
          /\ seen' \in {newest', None} \/ overtaken'
          /\ seen' <= changes'
      <4> DEFINE c == payload[h].change
      <4>1. /\ seen' = c /\ changes' = changes
            /\ newest' = IF c > newest THEN c ELSE newest
            /\ overtaken' = (overtaken \/ c < newest)
        BY <2>11 DEF Apply
      <4>2. newest \in Nat /\ newest <= changes /\ changes \in Nat /\ c \in Nat /\ c <= changes
        BY <3>1
      <4> HIDE DEF c
      <4>3. newest' <= changes' /\ seen' <= changes'
        BY <4>1, <4>2
      <4>4. c < newest \/ seen' = newest'
        BY <4>1, <4>2
      <4>5. c < newest => overtaken'
        BY <4>1
      <4>6. QED
        BY <4>3, <4>4, <4>5
    <3>3. \A g \in Handlers : payload'[g] = Nothing \/ payload'[g] = payload[g]
      BY <2>11 DEF Apply, Forgets
    <3>4. \A g \in Handlers :
              handler'[g].pc = "fetched" => handler[g].pc = "fetched" /\ payload'[g] = payload[g]
      <4>1. CASE HandlerIdles(h)
        BY <2>11, <4>1 DEF Apply, HandlerIdles, Idle, Forgets
      <4>2. CASE HandlerAt(h, "applied", handler[h].event)
        BY <2>11, <4>2 DEF Apply, HandlerAt, Forgets
      <4>3. QED
        BY <2>11, <4>1, <4>2 DEF Apply
    <3>5. UNCHANGED <<store, changes>>
      BY <2>11 DEF Apply
    <3>6. \A g \in Handlers : payload'[g].change <= changes'
      BY <3>3, <3>5 DEF Nothing
    <3>7. QED
      BY <3>2, <3>4, <3>5, <3>6
  <2>12. ASSUME NEW h \in Handlers, MarkProcessed(h)
        PROVE  History'
    BY <2>12 DEF MarkProcessed, Fault, Forgets, Nothing, HandlerAt, HandlerIdles, Idle
  <2>13. ASSUME NEW h \in Handlers, MarkFailed(h)
        PROVE  History'
    BY <2>13 DEF MarkFailed, Fault, Forgets, Nothing, HandlerAt, HandlerIdles, Idle
  <2>14. ASSUME NEW h \in Handlers, HandlerDies(h)
        PROVE  History'
    BY <2>14 DEF HandlerDies, Fault, Forgets, Nothing, HandlerAt, HandlerIdles, Idle
  <2>15. ASSUME NEW action \in DOMAIN ManualStatus, NEW expires \in {now, now + Period}, ManualAction(action, expires)
        PROVE  History'
    BY <2>15 DEF ManualAction
  <2>16. CASE UNCHANGED vars
    BY <2>16 DEF vars
  <2>17. QED
    BY <2>1, <2>2, <2>3, <2>4, <2>5, <2>6, <2>7, <2>8, <2>9, <2>10, <2>11, <2>12, <2>13, <2>14, <2>15, <2>16 DEF Next, HandlerStep
<1>3. QED
  BY TypeCorrect, <1>1, <1>2, PTL DEF Spec

\* An event leaves the state ABSENT only when it is delivered.
LEMMA UnsentKept == Spec => []UnsentIsAbsent
<1>1. Init => UnsentIsAbsent
  BY DEF Init, UnsentIsAbsent
<1>2. TypeOK /\ UnsentIsAbsent /\ [Next]_vars => UnsentIsAbsent'
  <2> SUFFICES ASSUME TypeOK, UnsentIsAbsent, [Next]_vars PROVE UnsentIsAbsent'
    OBVIOUS
  <2> USE NoneAssumption DEF TypeOK, UnsentIsAbsent, ForEvent, storeVars, eventVars
  <2>1. ASSUME Tick
        PROVE  UnsentIsAbsent'
    BY <2>1 DEF Tick
  <2>2. ASSUME FirstLogin
        PROVE  UnsentIsAbsent'
    BY <2>2 DEF FirstLogin, SetStatus, HandlerAt
  <2>3. ASSUME NEW e \in Events, NEW record \in Becomes, StoreChanges(e, record)
        PROVE  UnsentIsAbsent'
    BY <2>3 DEF StoreChanges, SetStatus, HandlerAt
  <2>4. ASSUME NEW e \in Events, SendTest(e)
        PROVE  UnsentIsAbsent'
    BY <2>4 DEF SendTest, SetStatus, HandlerAt
  <2>5. ASSUME NEW h \in Handlers, NEW e \in Events, Receive(h, e)
        PROVE  UnsentIsAbsent'
    BY <2>5 DEF Receive, SetStatus, HandlerAt
  <2>6. ASSUME NEW h \in Handlers, StartSync(h)
        PROVE  UnsentIsAbsent'
    BY <2>6 DEF StartSync, SetStatus, HandlerAt
  <2>7. ASSUME NEW h \in Handlers, SettleAtOnce(h)
        PROVE  UnsentIsAbsent'
    BY <2>7 DEF SettleAtOnce, SetStatus, HandlerAt
  <2>8. ASSUME NEW h \in Handlers, Begin(h)
        PROVE  UnsentIsAbsent'
    BY <2>8 DEF Begin, SetStatus, HandlerAt
  <2>9. ASSUME NEW h \in Handlers, Fetch(h)
        PROVE  UnsentIsAbsent'
    BY <2>9 DEF Fetch, SetStatus, HandlerAt
  <2>10. ASSUME NEW h \in Handlers, SyncFails(h)
        PROVE  UnsentIsAbsent'
    BY <2>10 DEF SyncFails, SetStatus, HandlerAt
  <2>11. ASSUME NEW h \in Handlers, Apply(h)
        PROVE  UnsentIsAbsent'
    BY <2>11 DEF Apply, SetStatus, HandlerAt
  <2>12. ASSUME NEW h \in Handlers, MarkProcessed(h)
        PROVE  UnsentIsAbsent'
    BY <2>12 DEF MarkProcessed, SetStatus, HandlerAt
  <2>13. ASSUME NEW h \in Handlers, MarkFailed(h)
        PROVE  UnsentIsAbsent'
    BY <2>13 DEF MarkFailed, SetStatus, HandlerAt
  <2>14. ASSUME NEW h \in Handlers, HandlerDies(h)
        PROVE  UnsentIsAbsent'
    BY <2>14 DEF HandlerDies, SetStatus, HandlerAt
  <2>15. ASSUME NEW action \in DOMAIN ManualStatus, NEW expires \in {now, now + Period}, ManualAction(action, expires)
        PROVE  UnsentIsAbsent'
    BY <2>15 DEF ManualAction, SetStatus, HandlerAt
  <2>16. CASE UNCHANGED vars
    BY <2>16 DEF vars
  <2>17. QED
    BY <2>1, <2>2, <2>3, <2>4, <2>5, <2>6, <2>7, <2>8, <2>9, <2>10, <2>11, <2>12, <2>13, <2>14, <2>15, <2>16 DEF Next, HandlerStep
<1>3. QED
  BY TypeCorrect, <1>1, <1>2, PTL DEF Spec

\* Until it is applied or ignored, the newest change has an event that is owed.
LEMMA NewestKept == Spec => []SyncInv
<1>1. Init => NewestIsOwed
  BY DEF Init, NewestIsOwed
<1>2. SyncInv /\ [Next]_vars => NewestIsOwed'
  <2> SUFFICES ASSUME TypeOK, History, UnsentIsAbsent, NewestIsOwed, [Next]_vars
               PROVE  NewestIsOwed'
    BY DEF SyncInv
  <2> USE NoneAssumption DEF TypeOK, UnsentIsAbsent, NewestIsOwed, Owed, Settled, storeVars,
       eventVars, bookVars, requestVars
  <2>1. ASSUME Tick
        PROVE  NewestIsOwed'
    <3>1. \A e0 \in Events : Owed(e0) => Owed(e0)'
      BY <2>1 DEF Tick, HandlerAt, HandlerIdles, Idle, SetStatus, Forgets
    <3>2. newest' = newest /\ changes' = changes /\ ignored' = ignored
      BY <2>1 DEF Tick
    <3>3. QED
      BY <3>1, <3>2
  <2>2. ASSUME FirstLogin
        PROVE  NewestIsOwed'
    <3>1. \A e0 \in Events : Owed(e0) => Owed(e0)'
      BY <2>2 DEF FirstLogin, HandlerAt, HandlerIdles, Idle, SetStatus, Forgets
    <3>2. newest' = newest /\ changes' = changes /\ ignored' = ignored
      BY <2>2 DEF FirstLogin
    <3>3. QED
      BY <3>1, <3>2
  <2>3. ASSUME NEW e \in Events, NEW record \in Becomes, StoreChanges(e, record)
        PROVE  NewestIsOwed'
    <3>1. Owed(e)'
      BY <2>3 DEF StoreChanges
    <3>2. QED
      BY <3>1
  <2>4. ASSUME NEW e \in Events, SendTest(e)
        PROVE  NewestIsOwed'
    <3>1. \A e0 \in Events : Owed(e0) => Owed(e0)'
      BY <2>4 DEF SendTest, HandlerAt, HandlerIdles, Idle, SetStatus, Forgets
    <3>2. newest' = newest /\ changes' = changes /\ ignored' = ignored
      BY <2>4 DEF SendTest
    <3>3. QED
      BY <3>1, <3>2
  <2>5. ASSUME NEW h \in Handlers, NEW e \in Events, Receive(h, e)
        PROVE  NewestIsOwed'
    <3>1. \A e0 \in Events : Owed(e0) => Owed(e0)'
      <4>1. CASE /\ e \in processed \/ eventStatus[e] \in Settled
                 /\ Acknowledge(e) /\ UNCHANGED <<eventStatus, handler>>
        BY <2>5, <4>1 DEF Receive, Acknowledge
      <4>2. CASE /\ HandlerAt(h, "accepted", e) /\ UNCHANGED outbox
                 /\ SetStatus(e, IF eventStatus[e] = "ABSENT" THEN "received" ELSE eventStatus[e])
        BY <2>5, <4>2 DEF Receive, HandlerAt, SetStatus
      <4>3. QED
        BY <2>5, <4>1, <4>2 DEF Receive
    <3>2. newest' = newest /\ changes' = changes /\ ignored' = ignored
      BY <2>5 DEF Receive
    <3>3. QED
      BY <3>1, <3>2
  <2>6. ASSUME NEW h \in Handlers, StartSync(h)
        PROVE  NewestIsOwed'
    <3>1. \A e0 \in Events : Owed(e0) => Owed(e0)'
      BY <2>6 DEF StartSync, HandlerAt, HandlerIdles, Idle, SetStatus, Forgets
    <3>2. newest' = newest /\ changes' = changes /\ ignored' = ignored
      BY <2>6 DEF StartSync
    <3>3. QED
      BY <3>1, <3>2
  <2>7. ASSUME NEW h \in Handlers, SettleAtOnce(h)
        PROVE  NewestIsOwed'
    <3>1. CASE handler[h].event \notin tests
      BY <2>7, <3>1 DEF SettleAtOnce
    <3>2. CASE handler[h].event \in tests
      <4>1. \A e0 \in Events : Owed(e0) => Owed(e0)'
        BY <2>7, <3>2 DEF SettleAtOnce, SetStatus, Acknowledge, HandlerIdles, Idle
      <4>2. newest' = newest /\ changes' = changes /\ ignored => ignored'
        BY <2>7 DEF SettleAtOnce
      <4>3. QED
        BY <4>1, <4>2, <2>7 DEF SettleAtOnce
    <3>3. QED
      BY <3>1, <3>2
  <2>8. ASSUME NEW h \in Handlers, Begin(h)
        PROVE  NewestIsOwed'
    <3>1. \A e0 \in Events : Owed(e0) => Owed(e0)'
      BY <2>8 DEF Begin, HandlerAt, HandlerIdles, Idle, SetStatus, Forgets
    <3>2. newest' = newest /\ changes' = changes /\ ignored' = ignored
      BY <2>8 DEF Begin
    <3>3. QED
      BY <3>1, <3>2
  <2>9. ASSUME NEW h \in Handlers, Fetch(h)
        PROVE  NewestIsOwed'
    <3>1. \A e0 \in Events : Owed(e0) => Owed(e0)'
      BY <2>9 DEF Fetch, HandlerAt, HandlerIdles, Idle, SetStatus, Forgets
    <3>2. newest' = newest /\ changes' = changes /\ ignored' = ignored
      BY <2>9 DEF Fetch
    <3>3. QED
      BY <3>1, <3>2
  <2>10. ASSUME NEW h \in Handlers, SyncFails(h)
        PROVE  NewestIsOwed'
    <3>1. \A e0 \in Events : Owed(e0) => Owed(e0)'
      <4>1. CASE HandlerIdles(h)
        BY <2>10, <4>1 DEF SyncFails, Forgets, HandlerIdles, Idle
      <4>2. CASE HandlerAt(h, "failing", handler[h].event)
        BY <2>10, <4>2 DEF SyncFails, Forgets, HandlerAt
      <4>3. QED
        BY <2>10, <4>1, <4>2 DEF SyncFails
    <3>2. newest' = newest /\ changes' = changes /\ ignored' = ignored
      BY <2>10 DEF SyncFails
    <3>3. QED
      BY <3>1, <3>2
  <2>11. ASSUME NEW h \in Handlers, Apply(h)
        PROVE  NewestIsOwed'
    <3> DEFINE c == payload[h].change
    <3>1. /\ changes' = changes /\ ignored' = ignored
          /\ newest' = IF c > newest THEN c ELSE newest
      BY <2>11 DEF Apply
    <3>2. c \in Nat /\ newest \in Nat /\ changes \in Nat /\ c <= changes /\ newest <= changes
      BY DEF History
    <3>3. newest = changes \/ c = changes => newest' = changes'
      <4> HIDE DEF c
      <4>1. QED
        BY <3>1, <3>2
    <3>4. ASSUME NEW e0 \in Events, Owed(e0), handler[h].event # e0 PROVE Owed(e0)'
      <4>1. CASE HandlerIdles(h)
        BY <2>11, <3>4, <4>1 DEF Apply, Forgets, HandlerIdles, Idle
      <4>2. CASE HandlerAt(h, "applied", handler[h].event)
        BY <2>11, <3>4, <4>2 DEF Apply, Forgets, HandlerAt
      <4>3. QED
        BY <2>11, <4>1, <4>2 DEF Apply
    <3>5. ASSUME NEW e0 \in Events, Owed(e0), handler[h].event = e0 PROVE c = changes
      BY <2>11, <3>5 DEF Apply
    <3>6. QED
      BY <3>1, <3>3, <3>4, <3>5
  <2>12. ASSUME NEW h \in Handlers, MarkProcessed(h)
        PROVE  NewestIsOwed'
    <3>1. \A e0 \in Events : Owed(e0) => Owed(e0)'
      BY <2>12 DEF MarkProcessed, HandlerAt, HandlerIdles, Idle, SetStatus, Acknowledge
    <3>2. newest' = newest /\ changes' = changes /\ ignored' = ignored
      BY <2>12 DEF MarkProcessed
    <3>3. QED
      BY <3>1, <3>2
  <2>13. ASSUME NEW h \in Handlers, MarkFailed(h)
        PROVE  NewestIsOwed'
    <3>1. \A e0 \in Events : Owed(e0) => Owed(e0)'
      BY <2>13 DEF MarkFailed, HandlerAt, HandlerIdles, Idle, SetStatus, Forgets
    <3>2. newest' = newest /\ changes' = changes /\ ignored' = ignored
      BY <2>13 DEF MarkFailed
    <3>3. QED
      BY <3>1, <3>2
  <2>14. ASSUME NEW h \in Handlers, HandlerDies(h)
        PROVE  NewestIsOwed'
    <3>1. \A e0 \in Events : Owed(e0) => Owed(e0)'
      BY <2>14 DEF HandlerDies, HandlerAt, HandlerIdles, Idle, SetStatus, Forgets
    <3>2. newest' = newest /\ changes' = changes /\ ignored' = ignored
      BY <2>14 DEF HandlerDies
    <3>3. QED
      BY <3>1, <3>2
  <2>15. ASSUME NEW action \in DOMAIN ManualStatus, NEW expires \in {now, now + Period}, ManualAction(action, expires)
        PROVE  NewestIsOwed'
    <3>1. \A e0 \in Events : Owed(e0) => Owed(e0)'
      BY <2>15 DEF ManualAction, HandlerAt, HandlerIdles, Idle, SetStatus, Forgets
    <3>2. newest' = newest /\ changes' = changes /\ ignored' = ignored
      BY <2>15 DEF ManualAction
    <3>3. QED
      BY <3>1, <3>2
  <2>16. CASE UNCHANGED vars
    BY <2>16 DEF vars
  <2>17. QED
    BY <2>1, <2>2, <2>3, <2>4, <2>5, <2>6, <2>7, <2>8, <2>9, <2>10, <2>11, <2>12, <2>13, <2>14, <2>15, <2>16 DEF Next, HandlerStep
<1>3. QED
  BY HistoryKept, UnsentKept, <1>1, <1>2, PTL DEF Spec, SyncInv

\* Whatever RevenueCat delivers twice, and whatever fails or crashes, a change
\* that the subscriptions table does not show is still to be delivered; unless
\* an event was ignored or an older answer applied after a newer one.
THEOREM SyncTheorem == Spec => []SyncOwed
<1>1. SyncInv => SyncOwed
  BY DEF SyncInv, History, NewestIsOwed, Owed, SyncOwed
<1>2. QED
  BY NewestKept, <1>1, PTL

-----------------------------------------------------------------------------
(* Premium access follows the store.                                       *)

\* Every step keeps a row that shows the newest change in force as long as the
\* store's record is.
LEMMA FollowsKept == Spec => []FollowsStore
<1>1. Init => FollowsStore
  BY DEF Init, FollowsStore, Entitled, Absent, Row, Providers
<1>2. TypeOK /\ RowsAgree' /\ History /\ FollowsStore /\ [Next]_vars => FollowsStore'
  <2> SUFFICES ASSUME TypeOK, RowsAgree', History, FollowsStore, [Next]_vars
               PROVE  FollowsStore'
    OBVIOUS
  <2> USE MaxTimeAssumption, NoneAssumption DEF TypeOK, FollowsStore, storeVars, eventVars,
       bookVars, requestVars
  <2>1. ASSUME Tick
        PROVE  FollowsStore'
    BY <2>1 DEF Tick, Entitled
  <2>2. ASSUME FirstLogin
        PROVE  FollowsStore'
    BY <2>2 DEF FirstLogin, Entitled
  <2>3. ASSUME NEW e \in Events, NEW record \in Becomes, StoreChanges(e, record)
        PROVE  FollowsStore'
    <3>1. changes' = changes + 1 /\ seen' = seen
      BY <2>3 DEF StoreChanges
    <3>2. seen # changes + 1
      BY DEF History
    <3>3. QED
      BY <3>1, <3>2
  <2>4. ASSUME NEW e \in Events, SendTest(e)
        PROVE  FollowsStore'
    BY <2>4 DEF SendTest, Entitled
  <2>5. ASSUME NEW h \in Handlers, NEW e \in Events, Receive(h, e)
        PROVE  FollowsStore'
    BY <2>5 DEF Receive, Entitled
  <2>6. ASSUME NEW h \in Handlers, StartSync(h)
        PROVE  FollowsStore'
    BY <2>6 DEF StartSync, Entitled
  <2>7. ASSUME NEW h \in Handlers, SettleAtOnce(h)
        PROVE  FollowsStore'
    BY <2>7 DEF SettleAtOnce, Entitled
  <2>8. ASSUME NEW h \in Handlers, Begin(h)
        PROVE  FollowsStore'
    BY <2>8 DEF Begin, Entitled
  <2>9. ASSUME NEW h \in Handlers, Fetch(h)
        PROVE  FollowsStore'
    BY <2>9 DEF Fetch, Entitled
  <2>10. ASSUME NEW h \in Handlers, SyncFails(h)
        PROVE  FollowsStore'
    BY <2>10 DEF SyncFails, Entitled
  <2>11. ASSUME NEW h \in Handlers, Apply(h)
        PROVE  FollowsStore'
    <3> DEFINE row == Written(payload[h].record)
    <3>1. UNCHANGED <<now, store, changes>> /\ seen' = payload[h].change
      BY <2>11 DEF Apply
    <3>2. SUFFICES ASSUME payload[h].change = changes, NEW t \in Nat, t >= now
                   PROVE  Entitled("REVENUECAT", t)' <=> store.expires > t
      BY <3>1
    <3>3. payload[h].record = store
      BY <2>11, <3>2 DEF Apply, History
    <3>4. now \in Nat /\ store \in Record
      OBVIOUS
    <3>5. Grants(row, t) <=> store.expires > t
      <4>1. CASE store.expires = 0
        BY <3>2, <3>3, <3>4, <4>1
           DEF Written, Terminated, Row, Grants, Granting, Record
      <4>2. CASE store.expires # 0
        BY <3>2, <3>3, <3>4, <4>2 DEF Written, Resolved, Row, Grants, Granting, Record
      <4>3. QED
        BY <4>1, <4>2
    <3>6. row = subscription'["REVENUECAT"]
      BY <2>11 DEF Apply, Providers
    <3>7. Entitled("REVENUECAT", t)' <=> Grants(subscription'["REVENUECAT"], t)
      BY <3>1, <3>2 DEF RowsAgree, Providers
    <3>8. QED
      BY <3>5, <3>6, <3>7
  <2>12. ASSUME NEW h \in Handlers, MarkProcessed(h)
        PROVE  FollowsStore'
    BY <2>12 DEF MarkProcessed, Entitled
  <2>13. ASSUME NEW h \in Handlers, MarkFailed(h)
        PROVE  FollowsStore'
    BY <2>13 DEF MarkFailed, Entitled
  <2>14. ASSUME NEW h \in Handlers, HandlerDies(h)
        PROVE  FollowsStore'
    BY <2>14 DEF HandlerDies, Entitled
  <2>15. ASSUME NEW action \in DOMAIN ManualStatus, NEW expires \in {now, now + Period}, ManualAction(action, expires)
        PROVE  FollowsStore'
    <3>1. seen' = None \/ (seen' = seen /\ entitlement'["REVENUECAT"] = entitlement["REVENUECAT"])
      BY <2>15 DEF ManualAction, Providers
    <3>2. UNCHANGED <<now, store, changes>>
      BY <2>15 DEF ManualAction
    <3>3. None # changes
      OBVIOUS
    <3>4. QED
      BY <3>1, <3>2, <3>3 DEF Entitled
  <2>16. CASE UNCHANGED vars
    BY <2>16 DEF vars, Entitled
  <2>17. QED
    BY <2>1, <2>2, <2>3, <2>4, <2>5, <2>6, <2>7, <2>8, <2>9, <2>10, <2>11, <2>12, <2>13, <2>14, <2>15, <2>16 DEF Next, HandlerStep
<1>3. AccessInv => RowsAgree
  BY DEF AccessInv
<1>4. QED
  BY TypeCorrect, AccessKept, HistoryKept, <1>1, <1>2, <1>3, PTL DEF Spec

\* While the row shows the store's newest change, premium features are in force
\* exactly until the time the store says.
THEOREM PremiumTheorem == Spec => []PremiumMatchesStore
<1>1. TypeOK /\ FollowsStore => PremiumMatchesStore
  BY MaxTimeAssumption DEF TypeOK, FollowsStore, PremiumMatchesStore
<1>2. QED
  BY TypeCorrect, FollowsKept, <1>1, PTL
=============================================================================
