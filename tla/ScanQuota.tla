-------------------------------- MODULE ScanQuota --------------------------------
(***************************************************************************)
(* The free plan's limit on receipt scans: how confirm_upload              *)
(* (backend/app/api/routers/receipts.py) counts a user's scans in the      *)
(* rolling window (backend/app/services/billing/usage.py) and charges one, *)
(* while other requests of that user do the same in other API processes.   *)
(* One user.  ReceiptPipeline takes lock, count and charge as one step;    *)
(* here every lock and every read is a step of its own.                    *)
(*                                                                         *)
(* A step is one statement that locks, reads or commits, or one call to    *)
(* the object store or the broker.  The processes' clocks are the same.    *)
(***************************************************************************)
EXTENDS Integers, FiniteSets

CONSTANTS
    Receipts,  \* receipt ids of the user
    Handlers,  \* concurrent confirm-upload requests
    None,      \* no receipt, no request
    Limit,     \* FREE_PLAN_RECEIPT_SCAN_LIMIT
    Window,    \* length of the rolling window
    MaxTime    \* bound on the clock

ASSUME LimitAssumption == Limit \in Nat
ASSUME WindowAssumption == Window \in Nat \ {0}
ASSUME MaxTimeAssumption == MaxTime \in Nat
ASSUME NoneAssumption == None \notin Receipts \cup Handlers
ASSUME ReceiptsAssumption == IsFiniteSet(Receipts)

VARIABLES
    now,          \* the time
    premium,      \* the user has unlimited receipt scans
    status,       \* receipts.status: CREATED, HANDED (any later one) or DELETED
    uploadedAt,   \* receipts.uploaded_at, NotUploaded if null
    object,       \* receipts whose image is in the object store
    deleting,     \* receipts whose deletion has begun
    receiptLock,  \* the request that holds the row lock of a receipt
    userLock,     \* the request that holds the row lock of the user
    handler,      \* what each request is doing, for which receipt
    charged,      \* history: receipts charged while the user was on the free plan
    scans         \* history: when the scans that the broker confirmed were charged

rowVars  == <<status, uploadedAt>>
lockVars == <<receiptLock, userLock>>
vars == <<now, premium, rowVars, object, deleting, lockVars, handler, charged, scans>>

-----------------------------------------------------------------------------
NotUploaded == -1

\* A request holds its receipt's row from "receipt" on and the user's from
\* "user" on, until it has committed and is "publishing".  In between it has
\* a verdict on the quota.
Verdict == {"unlimited", "within", "reached"}
HandlerPc == {"idle", "receipt", "verified", "user", "publishing", "reverting"} \cup Verdict
Idle == [pc |-> "idle", receipt |-> None]

TypeOK ==
    /\ now \in 0..MaxTime
    /\ premium \in BOOLEAN
    /\ status \in [Receipts -> {"CREATED", "HANDED", "DELETED"}]
    /\ uploadedAt \in [Receipts -> Nat \cup {NotUploaded}]
    /\ \A r \in Receipts : status[r] = "HANDED" <=> uploadedAt[r] # NotUploaded
    /\ object \subseteq Receipts /\ deleting \subseteq Receipts
    /\ receiptLock \in [Receipts -> Handlers \cup {None}]
    /\ userLock \in Handlers \cup {None}
    /\ handler \in [Handlers -> [pc : HandlerPc, receipt : Receipts \cup {None}]]
    /\ \A h \in Handlers : handler[h].pc # "idle" => handler[h].receipt \in Receipts
    /\ charged \subseteq {r \in Receipts : status[r] = "HANDED"}
    /\ scans \subseteq Nat

Init ==
    /\ now = 0
    /\ premium \in BOOLEAN
    /\ status = [r \in Receipts |-> "CREATED"]
    /\ uploadedAt = [r \in Receipts |-> NotUploaded]
    /\ object = {} /\ deleting = {}
    /\ receiptLock = [r \in Receipts |-> None]
    /\ userLock = None
    /\ handler = [h \in Handlers |-> Idle]
    /\ charged = {} /\ scans = {}

-----------------------------------------------------------------------------
(* Helpers.                                                                *)

\* count_user_processed_receipts_in_window for the window that ends at t.
InWindow(t) == {r \in Receipts : uploadedAt[r] >= t - Window /\ uploadedAt[r] \in 0..(t - 1)}

HandlerAt(h, pc) == handler' = [handler EXCEPT ![h].pc = pc]
HandlerIdles(h) == handler' = [handler EXCEPT ![h] = Idle]

\* The request's database transaction ends: its locks are released.
Release(h) ==
    /\ receiptLock' = [r \in Receipts |-> IF receiptLock[r] = h THEN None ELSE receiptLock[r]]
    /\ userLock' = IF userLock = h THEN None ELSE userLock

-----------------------------------------------------------------------------
(* Slips: what an action below would be with the mistake its comment names. *)

\* The user's row is read without FOR UPDATE.
ReadUser(h) ==
    /\ handler[h].pc = "verified"
    /\ HandlerAt(h, "user")
    /\ UNCHANGED <<now, premium, rowVars, object, deleting, lockVars, charged, scans>>

\* The receipt's row is read without FOR UPDATE.
ReadReceipt(h, r) ==
    /\ handler[h].pc = "idle"
    /\ status[r] = "CREATED"
    /\ handler' = [handler EXCEPT ![h] = [pc |-> "receipt", receipt |-> r]]
    /\ UNCHANGED <<now, premium, rowVars, object, deleting, lockVars, charged, scans>>

\* The refusal is answered with the database transaction left open.
RefuseKeepsLocks(h) ==
    /\ handler[h].pc = "reached"
    /\ object' = object \ {handler[h].receipt}
    /\ HandlerIdles(h)
    /\ UNCHANGED <<now, premium, rowVars, deleting, lockVars, charged, scans>>

\* The receipt is made confirmable again, and the scan is not given back.
RevertKeepsCharge(h) ==
    LET r == handler[h].receipt IN
    /\ handler[h].pc = "reverting"
    /\ receiptLock[r] = None
    /\ status' = [status EXCEPT ![r] = IF @ = "DELETED" THEN @ ELSE "CREATED"]
    /\ HandlerIdles(h)
    /\ UNCHANGED <<now, premium, uploadedAt, object, deleting, lockVars, charged, scans>>

-----------------------------------------------------------------------------
(* The world outside.                                                      *)

Tick ==
    /\ now < MaxTime
    /\ now' = now + 1
    /\ UNCHANGED <<premium, rowVars, object, deleting, lockVars, handler, charged, scans>>

\* A subscription begins or ends.
PremiumChanges ==
    /\ premium' = ~premium
    /\ UNCHANGED <<now, rowVars, object, deleting, lockVars, handler, charged, scans>>

\* The client uploads with its presigned URL, which confirming or deleting the
\* receipt does not withdraw.
PutObject(r) ==
    /\ r \notin object
    /\ object' = object \cup {r}
    /\ UNCHANGED <<now, premium, rowVars, deleting, lockVars, handler, charged, scans>>

-----------------------------------------------------------------------------
(* confirm_upload.                                                         *)

\* A receipt that is missing or not CREATED is refused, which changes nothing.
LockReceipt(h, r) ==
    /\ handler[h].pc = "idle"
    /\ receiptLock[r] = None
    /\ status[r] = "CREATED"
    /\ receiptLock' = [receiptLock EXCEPT ![r] = h]
    /\ handler' = [handler EXCEPT ![h] = [pc |-> "receipt", receipt |-> r]]
    /\ UNCHANGED <<now, premium, rowVars, object, deleting, userLock, charged, scans>>

\* The object is missing, unreadable, too large or of another type; the last
\* two remove it.
RejectUpload(h) ==
    /\ handler[h].pc = "receipt"
    /\ object' \in {object, object \ {handler[h].receipt}}
    /\ Release(h)
    /\ HandlerIdles(h)
    /\ UNCHANGED <<now, premium, rowVars, deleting, charged, scans>>

Verify(h) ==
    /\ handler[h].pc = "receipt"
    /\ handler[h].receipt \in object
    /\ HandlerAt(h, "verified")
    /\ UNCHANGED <<now, premium, rowVars, object, deleting, lockVars, charged, scans>>

LockUser(h) ==
    /\ handler[h].pc = "verified"
    /\ userLock = None
    /\ userLock' = h
    /\ HandlerAt(h, "user")
    /\ UNCHANGED <<now, premium, rowVars, object, deleting, receiptLock, charged, scans>>

\* resolve_receipt_scan_usage and receipt_scan_limit_reached.
CountScans(h) ==
    /\ handler[h].pc = "user"
    /\ HandlerAt(h, IF premium THEN "unlimited"
                    ELSE IF Cardinality(InWindow(now)) >= Limit THEN "reached" ELSE "within")
    /\ UNCHANGED <<now, premium, rowVars, object, deleting, lockVars, charged, scans>>

Refuse(h) ==
    /\ handler[h].pc = "reached"
    /\ object' = object \ {handler[h].receipt}
    /\ Release(h)
    /\ HandlerIdles(h)
    /\ UNCHANGED <<now, premium, rowVars, deleting, charged, scans>>

\* There is no connection to the broker.
BrokerMissing(h) ==
    /\ handler[h].pc \in {"unlimited", "within"}
    /\ Release(h)
    /\ HandlerIdles(h)
    /\ UNCHANGED <<now, premium, rowVars, object, deleting, charged, scans>>

\* The scan is charged and committed.  No two scans are charged at the same
\* instant, so the clock moves on.
Charge(h) ==
    LET r == handler[h].receipt IN
    /\ handler[h].pc \in {"unlimited", "within"}
    /\ now < MaxTime
    /\ now' = now + 1
    /\ status' = [status EXCEPT ![r] = "HANDED"]
    /\ uploadedAt' = [uploadedAt EXCEPT ![r] = now]
    /\ charged' = IF handler[h].pc = "within" THEN charged \cup {r} ELSE charged
    /\ Release(h)
    /\ HandlerAt(h, "publishing")
    /\ UNCHANGED <<premium, object, deleting, scans>>

\* The broker confirms the message.
PublishAccepted(h) ==
    /\ handler[h].pc = "publishing"
    /\ scans' = IF handler[h].receipt \in charged
                THEN scans \cup {uploadedAt[handler[h].receipt]} ELSE scans
    /\ HandlerIdles(h)
    /\ UNCHANGED <<now, premium, rowVars, object, deleting, lockVars, charged>>

\* Publishing raises.  What becomes of a message that the broker has all the
\* same is for ReceiptPipeline.
PublishRaises(h) ==
    /\ handler[h].pc = "publishing"
    /\ HandlerAt(h, "reverting")
    /\ UNCHANGED <<now, premium, rowVars, object, deleting, lockVars, charged, scans>>

\* _revert_receipt_after_failed_enqueue: a scan that was not handed over is
\* given back.  A row deleted in the meantime makes the update fail.
Revert(h) ==
    LET r == handler[h].receipt IN
    /\ handler[h].pc = "reverting"
    /\ receiptLock[r] = None
    /\ IF status[r] = "DELETED" THEN UNCHANGED <<rowVars, charged>>
       ELSE /\ status' = [status EXCEPT ![r] = "CREATED"]
            /\ uploadedAt' = [uploadedAt EXCEPT ![r] = NotUploaded]
            /\ charged' = charged \ {r}
    /\ HandlerIdles(h)
    /\ UNCHANGED <<now, premium, object, deleting, lockVars, scans>>

\* The process dies; the database rolls its open transaction back.
HandlerDies(h) ==
    /\ handler[h].pc # "idle"
    /\ Release(h)
    /\ HandlerIdles(h)
    /\ UNCHANGED <<now, premium, rowVars, object, deleting, charged, scans>>

-----------------------------------------------------------------------------
(* delete_receipt removes the object first, and takes the row's lock only  *)
(* to delete it.                                                           *)

DeleteObject(r) ==
    /\ status[r] # "DELETED"
    /\ object' = object \ {r}
    /\ deleting' = deleting \cup {r}
    /\ UNCHANGED <<now, premium, rowVars, lockVars, handler, charged, scans>>

DeleteRow(r) ==
    /\ r \in deleting
    /\ status[r] # "DELETED"
    /\ receiptLock[r] = None
    /\ status' = [status EXCEPT ![r] = "DELETED"]
    /\ uploadedAt' = [uploadedAt EXCEPT ![r] = NotUploaded]
    /\ charged' = charged \ {r}
    /\ UNCHANGED <<now, premium, object, deleting, lockVars, handler, scans>>

-----------------------------------------------------------------------------
\* What a request that holds a lock does next.
Proceed(h) ==
    \/ RejectUpload(h)
    \/ Verify(h)
    \/ LockUser(h)
    \/ CountScans(h)
    \/ Refuse(h)
    \/ BrokerMissing(h)
    \/ Charge(h)

Deliver(h) ==
    \/ PublishAccepted(h)
    \/ PublishRaises(h)
    \/ Revert(h)

Next ==
    \/ Tick
    \/ PremiumChanges
    \/ \E r \in Receipts : PutObject(r) \/ DeleteObject(r) \/ DeleteRow(r)
    \/ \E h \in Handlers :
        \/ \E r \in Receipts : LockReceipt(h, r)
        \/ Proceed(h)
        \/ Deliver(h)
        \/ HandlerDies(h)

Spec == Init /\ [][Next]_vars

\* A request goes on, and gets the locks it waits for: PostgreSQL grants a row
\* lock in the order in which it was asked for.
FairSpec == Spec /\ \A h \in Handlers : SF_vars(Proceed(h)) /\ SF_vars(Deliver(h))

-----------------------------------------------------------------------------
(* Properties.                                                             *)

\* However many requests are at it at once, the scans a user was charged on
\* the free plan, and was not given back by a revert or a deletion, never
\* exceed the limit in any window of its length.
CountedWithinLimit ==
    \A t \in 0..now :
        Cardinality({r \in charged : uploadedAt[r] \in t..(t + Window)}) <= Limit

\* A receipt in the hands of the worker has its image: no other request has
\* removed it as over the limit or unusable.  The exception is a receipt whose
\* deletion has begun.
HandedHasObject == \A r \in Receipts : status[r] = "HANDED" => r \in object \cup deleting

\* Every request finishes: it gets both locks in the end and gives them back.
ConfirmsFinish == \A h \in Handlers : handler[h].pc # "idle" ~> handler[h].pc = "idle"

\* The limit as the refusal words it: that many scans in a rolling window,
\* consumed when processing is requested.
FreeScansWithinLimit ==
    \A t \in 0..now : Cardinality(scans \cap (t..(t + Window))) <= Limit

=============================================================================
