---------------------------- MODULE ReceiptPipeline ----------------------------
(***************************************************************************)
(* The receipt pipeline: the API process that creates, confirms and        *)
(* deletes receipts (backend/app/api/routers/receipts.py), the RabbitMQ    *)
(* queue between it and the worker, and the worker that turns a stored     *)
(* image into a transaction (backend/app/worker/receipt_processor.py).     *)
(*                                                                         *)
(* A step is one committed database transaction, one call to the object    *)
(* store or one exchange with the broker: between two of them every other  *)
(* process may run, and the process may die.  A row read FOR UPDATE and    *)
(* written in the same database transaction is one step.                   *)
(***************************************************************************)
EXTENDS Naturals

CONSTANTS
    Receipts,    \* receipt ids
    Workers,     \* processes (threads) that consume the queue
    Handlers,    \* concurrent HTTP requests of the API
    None,        \* no receipt
    MaxRetries,  \* RECEIPT_PROCESSING_MAX_RETRIES
    MaxFaults    \* bound: crashes, lost connections and unconfirmed publishes

ASSUME MaxRetriesAssumption == MaxRetries \in Nat \ {0}
ASSUME MaxFaultsAssumption == MaxFaults \in Nat
ASSUME NoneAssumption == None \notin Receipts

VARIABLES
    status,      \* receipts.status, ABSENT before creation, DELETED after
    attempt,     \* receipts.processing_attempt
    metered,     \* receipts whose uploaded_at is set: they count as scans
    stale,       \* PROCESSING receipts not updated for PROCESSING_STALE_AFTER
    extraction,  \* receipts that have a ReceiptExtraction row
    tx,          \* receipts that have a Transaction row
    items,       \* receipts whose TransactionItem rows are stored
    object,      \* receipts whose image is in the object store
    ready,       \* number of messages for a receipt waiting in the queue
    worker,      \* what each worker is doing
    unacked,     \* workers whose message the broker still holds for them
    handler,     \* what each HTTP request is doing
    found,       \* the rows a delete request found, for its commit
    spent,       \* number of faults so far
    orphaned,    \* history: receipts that lost a custodian to a fault
    ambiguous    \* history: receipts published by a call that then raised

rowVars     == <<status, attempt, metered, stale>>
bookVars    == <<extraction, tx, items>>
historyVars == <<spent, orphaned, ambiguous>>
workerVars  == <<worker, unacked>>
handlerVars == <<handler, found>>
vars == <<rowVars, bookVars, object, ready, workerVars, handlerVars, historyVars>>

-----------------------------------------------------------------------------
Status == {"ABSENT", "CREATED", "UPLOADED", "PROCESSING", "COMPLETED",
           "FAILED", "DELETED"}

\* The row exists.
Present(r) == status[r] \notin {"ABSENT", "DELETED"}

\* A worker past the commit that marks PROCESSING and before the one that
\* settles the receipt.
Claimed == {"claimed", "downloaded", "saved", "failing"}

WorkerPc  == {"idle", "delivered", "done", "raised"} \cup Claimed
HandlerPc == {"idle", "publishing", "reverting", "objectGone", "removing"}

Row == {"transaction", "items"}

\* What a process does, and for which receipt.
At(pc, r) == [pc |-> pc, receipt |-> r]
Idle == At("idle", None)

TypeOK ==
    /\ status \in [Receipts -> Status]
    /\ attempt \in [Receipts -> Nat]
    /\ metered \subseteq Receipts
    /\ stale \subseteq Receipts
    /\ extraction \subseteq Receipts
    /\ tx \subseteq Receipts
    /\ items \subseteq Receipts
    /\ object \subseteq Receipts
    /\ ready \in [Receipts -> Nat]
    /\ worker \in [Workers -> [pc : WorkerPc, receipt : Receipts \cup {None}]]
    /\ handler \in [Handlers -> [pc : HandlerPc, receipt : Receipts \cup {None}]]
    /\ found \in [Handlers -> SUBSET Row]
    /\ \A w \in Workers : worker[w].pc = "idle" <=> worker[w].receipt = None
    /\ \A h \in Handlers : handler[h].pc = "idle" <=> handler[h].receipt = None
    /\ unacked \subseteq {w \in Workers : worker[w].pc # "idle"}
    /\ spent \in 0..MaxFaults
    /\ orphaned \subseteq Receipts
    /\ ambiguous \subseteq Receipts

Init ==
    /\ status = [r \in Receipts |-> "ABSENT"]
    /\ attempt = [r \in Receipts |-> 0]
    /\ metered = {} /\ stale = {}
    /\ extraction = {} /\ tx = {} /\ items = {}
    /\ object = {}
    /\ ready = [r \in Receipts |-> 0]
    /\ worker = [w \in Workers |-> Idle] /\ unacked = {}
    /\ handler = [h \in Handlers |-> Idle]
    /\ found = [h \in Handlers |-> {}]
    /\ spent = 0 /\ orphaned = {} /\ ambiguous = {}

-----------------------------------------------------------------------------
(* Helpers.                                                                *)

\* Every UPDATE of the row refreshes updated_at.
SetStatus(r, s) ==
    /\ status' = [status EXCEPT ![r] = s]
    /\ stale' = stale \ {r}

\* The process goes on with its receipt, or is done with it.
WorkerAt(w, pc) ==
    /\ worker' = [worker EXCEPT ![w] = At(pc, worker[w].receipt)]
    /\ UNCHANGED unacked
WorkerIdles(w) ==
    /\ worker' = [worker EXCEPT ![w] = Idle]
    /\ unacked' = unacked \ {w}
HandlerAt(h, pc, r) ==
    /\ handler' = [handler EXCEPT ![h] = At(pc, r)]
    /\ UNCHANGED found
HandlerIdles(h) ==
    /\ handler' = [handler EXCEPT ![h] = Idle]
    /\ found' = [found EXCEPT ![h] = {}]

Enqueue(r) == ready' = [ready EXCEPT ![r] = @ + 1]

\* The rows a delete has to remove before the receipt's own.
RowsOf(r) == (IF r \in tx THEN {"transaction"} ELSE {})
             \cup (IF r \in items THEN {"items"} ELSE {})

\* A fault, from the bounded budget.
Fault == spent < MaxFaults /\ spent' = spent + 1

-----------------------------------------------------------------------------
(* Slips: what an action below would be with the mistake its comment names. *)
(* The specification does not use them; each property is tried against one. *)

\* confirm_upload locks the row but does not look at its status.
ConfirmAnyStatus(h, r) ==
    /\ handler[h].pc = "idle"
    /\ Present(r) /\ r \in object
    /\ SetStatus(r, "UPLOADED")
    /\ metered' = metered \cup {r}
    /\ HandlerAt(h, "publishing", r)
    /\ UNCHANGED <<attempt, bookVars, object, ready, workerVars, historyVars>>

\* The delete forgets the extraction row.
DeleteLeavesExtraction(h) ==
    LET r == handler[h].receipt IN
    /\ handler[h].pc = "removing"
    /\ IF Present(r) /\ found[h] = RowsOf(r)
       THEN /\ SetStatus(r, "DELETED")
            /\ metered' = metered \ {r} /\ tx' = tx \ {r} /\ items' = items \ {r}
       ELSE UNCHANGED <<status, stale, metered, tx, items>>
    /\ HandlerIdles(h)
    /\ UNCHANGED <<attempt, extraction, object, ready, workerVars, historyVars>>

\* The guard looks for the status of a finished receipt, not for its rows.
OnlyProcessingIsSkipped(r) == status[r] = "PROCESSING" /\ r \notin stale

\* The guard looks for rows only: a redelivery repeats work in progress.
OnlyBookedIsSkipped(r) == r \in tx \cup extraction

\* The transaction is saved by a merge that ignores the foreign key.
SaveWithoutReceipt(w) ==
    LET r == worker[w].receipt IN
    /\ worker[w].pc = "downloaded"
    /\ extraction' = extraction \cup {r} /\ tx' = tx \cup {r}
    /\ WorkerAt(w, "saved")
    /\ UNCHANGED <<rowVars, items, object, ready, handlerVars, historyVars>>

\* COMPLETED is committed on its own, before the transaction is checked.
CompleteUnbooked(w) ==
    LET r == worker[w].receipt IN
    /\ worker[w].pc \in {"downloaded", "saved"}
    /\ Present(r)
    /\ SetStatus(r, "COMPLETED")
    /\ WorkerAt(w, "done")
    /\ UNCHANGED <<attempt, metered, bookVars, object, ready, handlerVars, historyVars>>

\* The except block puts the receipt back to UPLOADED but does not re-raise.
FailureSwallowed(w) ==
    LET r == worker[w].receipt IN
    /\ worker[w].pc = "failing"
    /\ IF Present(r)
       THEN SetStatus(r, IF attempt[r] < MaxRetries THEN "UPLOADED" ELSE "FAILED")
       ELSE UNCHANGED <<status, stale>>
    /\ WorkerAt(w, "done")
    /\ UNCHANGED <<attempt, metered, bookVars, object, ready, handlerVars, historyVars>>

\* The retry limit is compared with <= instead of <.
RetriedOnceMore(w) ==
    LET r == worker[w].receipt
        retry == attempt[r] <= MaxRetries IN
    /\ worker[w].pc = "failing"
    /\ IF Present(r)
       THEN SetStatus(r, IF retry THEN "UPLOADED" ELSE "FAILED")
       ELSE UNCHANGED <<status, stale>>
    /\ WorkerAt(w, IF Present(r) /\ ~retry THEN "done" ELSE "raised")
    /\ UNCHANGED <<attempt, metered, bookVars, object, ready, handlerVars, historyVars>>

\* The message of a finished job is never acknowledged.
NeverAcknowledged(w) ==
    /\ worker[w].pc = "done"
    /\ worker' = [worker EXCEPT ![w] = Idle]
    /\ UNCHANGED <<unacked, rowVars, bookVars, object, ready, handlerVars, historyVars>>

\* message.process(requeue=False): a failed job is dropped.
RejectedForGood(w) ==
    /\ worker[w].pc = "raised"
    /\ WorkerIdles(w)
    /\ UNCHANGED <<rowVars, bookVars, object, ready, handlerVars, historyVars>>

-----------------------------------------------------------------------------
(* The client: POST /receipts, then the PUT to the presigned URL, which    *)
(* stays valid whatever happens to the row afterwards.                     *)

CreateReceipt(r) ==
    /\ status[r] = "ABSENT"
    /\ SetStatus(r, "CREATED")
    /\ UNCHANGED <<attempt, metered, bookVars, object, ready, workerVars, handlerVars,
                   historyVars>>

PutObject(r) ==
    /\ status[r] # "ABSENT"
    /\ r \notin object
    /\ object' = object \cup {r}
    /\ UNCHANGED <<rowVars, bookVars, ready, workerVars, handlerVars, historyVars>>

-----------------------------------------------------------------------------
(* POST /receipts/{id}/confirm-upload.                                     *)

\* The receipt and its user are locked, the object was found and verified,
\* the quota allows another scan, and the broker connection exists.
ConfirmUpload(h, r) ==
    /\ handler[h].pc = "idle"
    /\ status[r] = "CREATED"
    /\ r \in object
    /\ SetStatus(r, "UPLOADED")
    /\ metered' = metered \cup {r}
    /\ HandlerAt(h, "publishing", r)
    /\ UNCHANGED <<attempt, bookVars, object, ready, workerVars, historyVars>>

\* Too large, not a supported image, or over the scan limit: the object is
\* deleted (best effort) and the row stays CREATED.
RejectUpload(r) ==
    /\ status[r] = "CREATED"
    /\ r \in object
    /\ object' = object \ {r}
    /\ UNCHANGED <<rowVars, bookVars, ready, workerVars, handlerVars, historyVars>>

PublishAccepted(h) ==
    /\ handler[h].pc = "publishing"
    /\ Enqueue(handler[h].receipt)
    /\ HandlerIdles(h)
    /\ UNCHANGED <<rowVars, bookVars, object, workerVars, historyVars>>

\* The broker refused the message or could not be reached.
PublishFails(h) ==
    /\ handler[h].pc = "publishing"
    /\ HandlerAt(h, "reverting", handler[h].receipt)
    /\ UNCHANGED <<rowVars, bookVars, object, ready, workerVars, historyVars>>

\* The broker took the message but the publisher's confirm was lost: publish
\* raises all the same.
PublishUnconfirmed(h) ==
    /\ handler[h].pc = "publishing"
    /\ Fault
    /\ Enqueue(handler[h].receipt)
    /\ ambiguous' = ambiguous \cup {handler[h].receipt}
    /\ HandlerAt(h, "reverting", handler[h].receipt)
    /\ UNCHANGED <<rowVars, bookVars, object, workerVars, orphaned>>

\* _revert_receipt_after_failed_enqueue writes CREATED over whatever status
\* the row has by then; a row deleted meanwhile makes the UPDATE fail.
RevertReceipt(h) ==
    LET r == handler[h].receipt IN
    /\ handler[h].pc = "reverting"
    /\ IF Present(r)
       THEN SetStatus(r, "CREATED") /\ metered' = metered \ {r}
       ELSE UNCHANGED <<status, stale, metered>>
    /\ HandlerIdles(h)
    /\ UNCHANGED <<attempt, bookVars, object, ready, workerVars, historyVars>>

-----------------------------------------------------------------------------
(* DELETE /receipts/{id}: the object first, the rows afterwards.           *)

DeleteObject(h, r) ==
    /\ handler[h].pc = "idle"
    /\ Present(r)
    /\ object' = object \ {r}
    /\ HandlerAt(h, "objectGone", r)
    /\ UNCHANGED <<rowVars, bookVars, ready, workerVars, historyVars>>

\* The queries that find the transaction and its items take no lock.
DeleteFindsRows(h) ==
    LET r == handler[h].receipt IN
    /\ handler[h].pc = "objectGone"
    /\ handler' = [handler EXCEPT ![h] = At("removing", r)]
    /\ found' = [found EXCEPT ![h] = RowsOf(r)]
    /\ UNCHANGED <<rowVars, bookVars, object, ready, workerVars, historyVars>>

\* The deletes and the commit.  Rows inserted since they were looked for
\* still refer to the receipt: the foreign keys then roll everything back.
DeleteCommits(h) ==
    LET r == handler[h].receipt IN
    /\ handler[h].pc = "removing"
    /\ IF Present(r) /\ found[h] = RowsOf(r)
       THEN /\ SetStatus(r, "DELETED")
            /\ metered' = metered \ {r}
            /\ tx' = tx \ {r}
            /\ items' = items \ {r}
            /\ extraction' = extraction \ {r}
       ELSE UNCHANGED <<status, stale, metered, bookVars>>
    /\ HandlerIdles(h)
    /\ UNCHANGED <<attempt, object, ready, workerVars, historyVars>>

\* The API process dies, or a commit of the request fails: what it committed
\* stays, what it meant to do next is lost.
HandlerDies(h) ==
    /\ handler[h].pc # "idle"
    /\ Fault
    /\ orphaned' = IF handler[h].pc \in {"publishing", "reverting"}
                   THEN orphaned \cup {handler[h].receipt} ELSE orphaned
    /\ HandlerIdles(h)
    /\ UNCHANGED <<rowVars, bookVars, object, ready, workerVars, ambiguous>>

-----------------------------------------------------------------------------
(* The worker: one message at a time (prefetch_count = 1).                 *)

Deliver(w, r) ==
    /\ worker[w].pc = "idle"
    /\ ready[r] > 0
    /\ ready' = [ready EXCEPT ![r] = @ - 1]
    /\ worker' = [worker EXCEPT ![w] = At("delivered", r)]
    /\ unacked' = unacked \cup {w}
    /\ UNCHANGED <<rowVars, bookVars, object, handlerVars, historyVars>>

\* The status _reconcile_existing_processing_state leaves, when there is
\* something to reconcile; otherwise the receipt keeps its status.
ReconciledStatus(r) ==
    IF r \in tx THEN "COMPLETED"
    ELSE IF r \in extraction THEN "FAILED"
    ELSE status[r]

\* The message calls for no extraction: the row is gone, was settled, or
\* another worker is taken to be busy with it.
NothingToDo(r) ==
    \/ r \in tx \cup extraction
    \/ status[r] = "PROCESSING" /\ r \notin stale
    \/ status[r] = "COMPLETED"

\* The row is read FOR UPDATE and either settled or marked PROCESSING.
Claim(w) ==
    LET r == worker[w].receipt IN
    /\ worker[w].pc = "delivered"
    /\ \/ /\ ~Present(r)
          /\ WorkerAt(w, "done")
          /\ UNCHANGED rowVars
       \/ /\ Present(r) /\ NothingToDo(r)
          /\ IF ReconciledStatus(r) = status[r]
             THEN UNCHANGED <<status, stale>>
             ELSE SetStatus(r, ReconciledStatus(r))
          /\ WorkerAt(w, "done")
          /\ UNCHANGED <<attempt, metered>>
       \/ /\ Present(r) /\ ~NothingToDo(r)
          /\ SetStatus(r, "PROCESSING")
          /\ attempt' = [attempt EXCEPT ![r] = @ + 1]
          /\ WorkerAt(w, "claimed")
          /\ UNCHANGED metered
    /\ UNCHANGED <<bookVars, object, ready, handlerVars, historyVars>>

Download(w) ==
    /\ worker[w].pc = "claimed"
    /\ worker[w].receipt \in object
    /\ WorkerAt(w, "downloaded")
    /\ UNCHANGED <<rowVars, bookVars, object, ready, handlerVars, historyVars>>

\* The model answered and its answer was valid: extraction and transaction
\* are committed together.  receipt_id is unique in both tables and refers
\* to the receipt.
SaveTransaction(w) ==
    LET r == worker[w].receipt IN
    /\ worker[w].pc = "downloaded"
    /\ Present(r) /\ r \notin tx \cup extraction
    /\ extraction' = extraction \cup {r}
    /\ tx' = tx \cup {r}
    /\ WorkerAt(w, "saved")
    /\ UNCHANGED <<rowVars, items, object, ready, handlerVars, historyVars>>

\* A second commit stores the items and marks the receipt COMPLETED.
Complete(w) ==
    LET r == worker[w].receipt IN
    /\ worker[w].pc = "saved"
    /\ Present(r) /\ r \in tx
    /\ items' = items \cup {r}
    /\ SetStatus(r, "COMPLETED")
    /\ WorkerAt(w, "done")
    /\ UNCHANGED <<attempt, metered, extraction, tx, object, ready, handlerVars,
                   historyVars>>

\* Anything in the try block raises: the download, the model, validation, or
\* either commit (a duplicate, a vanished row, a repeated line number).
ProcessingRaises(w) ==
    /\ worker[w].pc \in Claimed \ {"failing"}
    /\ WorkerAt(w, "failing")
    /\ UNCHANGED <<rowVars, bookVars, object, ready, handlerVars, historyVars>>

\* The except block: refresh, then UPLOADED and raise, or FAILED and return.
\* Whatever status the row has by now is overwritten.
HandleFailure(w) ==
    LET r == worker[w].receipt IN
    /\ worker[w].pc = "failing"
    /\ \/ /\ ~Present(r)
          /\ WorkerAt(w, "raised")
          /\ UNCHANGED <<status, stale>>
       \/ /\ Present(r) /\ attempt[r] < MaxRetries
          /\ SetStatus(r, "UPLOADED")
          /\ WorkerAt(w, "raised")
       \/ /\ Present(r) /\ attempt[r] >= MaxRetries
          /\ SetStatus(r, "FAILED")
          /\ WorkerAt(w, "done")
    /\ UNCHANGED <<attempt, metered, bookVars, object, ready, handlerVars,
                   historyVars>>

\* process_receipt returned: the message is acknowledged, if the channel it
\* came by is still open.
Acknowledge(w) ==
    /\ worker[w].pc = "done"
    /\ WorkerIdles(w)
    /\ UNCHANGED <<rowVars, bookVars, object, ready, handlerVars, historyVars>>

\* process_receipt raised: the message is rejected and requeued.
Requeue(w) ==
    /\ worker[w].pc = "raised"
    /\ IF w \in unacked THEN Enqueue(worker[w].receipt) ELSE UNCHANGED ready
    /\ WorkerIdles(w)
    /\ UNCHANGED <<rowVars, bookVars, object, handlerVars, historyVars>>

\* The worker process dies (a crash, a rollout), or a database call outside
\* the try block fails (the claim, the commit of the except block): the broker
\* requeues what was not acknowledged.  A claim that had not yet booked its
\* transaction is left behind as PROCESSING.
WorkerDies(w) ==
    LET r == worker[w].receipt IN
    /\ worker[w].pc # "idle"
    /\ Fault
    /\ IF w \in unacked THEN Enqueue(r) ELSE UNCHANGED ready
    /\ orphaned' = IF worker[w].pc \in Claimed /\ r \notin tx
                   THEN orphaned \cup {r} ELSE orphaned
    /\ WorkerIdles(w)
    /\ UNCHANGED <<rowVars, bookVars, object, handlerVars, ambiguous>>

\* The broker loses the consumer's connection and redelivers, while the
\* processing thread runs on; its ack or nack will go nowhere.
ConnectionLost(w) ==
    /\ w \in unacked
    /\ Fault
    /\ Enqueue(worker[w].receipt)
    /\ orphaned' = orphaned \cup {worker[w].receipt}
    /\ unacked' = unacked \ {w}
    /\ UNCHANGED <<rowVars, bookVars, object, worker, handlerVars, ambiguous>>

\* PROCESSING_STALE_AFTER passes without an update of the row.
BecomeStale(r) ==
    /\ status[r] = "PROCESSING"
    /\ r \notin stale
    /\ stale' = stale \cup {r}
    /\ UNCHANGED <<status, attempt, metered, bookVars, object, ready, workerVars,
                   handlerVars, historyVars>>

-----------------------------------------------------------------------------
WorkerStep(w) ==
    \/ \E r \in Receipts : Deliver(w, r)
    \/ Claim(w)
    \/ Download(w)
    \/ SaveTransaction(w)
    \/ Complete(w)
    \/ ProcessingRaises(w)
    \/ HandleFailure(w)
    \/ Acknowledge(w)
    \/ Requeue(w)

HandlerStep(h) ==
    \/ PublishAccepted(h)
    \/ PublishFails(h)
    \/ PublishUnconfirmed(h)
    \/ RevertReceipt(h)
    \/ DeleteFindsRows(h)
    \/ DeleteCommits(h)

Next ==
    \/ \E r \in Receipts :
        \/ CreateReceipt(r)
        \/ PutObject(r)
        \/ RejectUpload(r)
        \/ BecomeStale(r)
    \/ \E h \in Handlers :
        \/ \E r \in Receipts : ConfirmUpload(h, r) \/ DeleteObject(h, r)
        \/ HandlerStep(h)
        \/ HandlerDies(h)
    \/ \E w \in Workers : WorkerStep(w) \/ WorkerDies(w) \/ ConnectionLost(w)

Spec == Init /\ [][Next]_vars

\* A request that has begun and a worker that has something to do go on; no
\* client is obliged to act, and no fault to happen.
FairSpec ==
    /\ Spec
    /\ \A w \in Workers : WF_vars(WorkerStep(w))
    /\ \A h \in Handlers : WF_vars(HandlerStep(h))

-----------------------------------------------------------------------------
(* Properties.                                                             *)

Pending(r) == status[r] \in {"UPLOADED", "PROCESSING"}

Handing(h, r) ==
    handler[h].receipt = r /\ handler[h].pc \in {"publishing", "reverting"}

\* Somebody is bound to move the receipt on: a worker that claimed it, or a
\* message that will not be skipped, on its way or about to be sent.
HasCustodian(r) ==
    \/ \E w \in Workers : worker[w].receipt = r /\ worker[w].pc \in Claimed
    \/ /\ status[r] = "UPLOADED" \/ r \in tx
       /\ \/ ready[r] > 0
          \/ \E w \in Workers : /\ worker[w].receipt = r
                                /\ worker[w].pc \in {"delivered", "raised"}
          \/ \E h \in Handlers : Handing(h, r)

\* The pipeline loses sight of a pending receipt only through the faults that
\* orphan it: the API dying between its commit and its publish, a worker
\* dying after it marked PROCESSING and before it booked the transaction, or
\* the broker dropping a consumer that is still at work.  Failed and
\* unconfirmed publishes, failed extractions, duplicate messages, deletions
\* and every other crash leave a custodian.
Custody == \A r \in Receipts \ orphaned : Pending(r) => HasCustodian(r)

\* A client that polls and sees COMPLETED finds a transaction
\* (interpretReceiptPollingPayload reports a failure otherwise), whatever
\* retries, reverts and deletions ran in between.
CompletedHasTransaction ==
    \A r \in Receipts : status[r] = "COMPLETED" => r \in tx

\* The branch of _reconcile_existing_processing_state for an extraction
\* without a transaction has nothing to reconcile: the two rows come and go
\* together, and items never outlive their transaction.
RowsComeTogether == extraction = tx /\ items \subseteq tx

\* A receipt that gave the user a transaction counts as a scan, unless the
\* broker took the message of a publish that raised: the revert then takes
\* uploaded_at back from a receipt the worker goes on to process.
ScansAreMetered == \A r \in tx : r \in metered \/ r \in ambiguous

\* The vision model is called at most MaxRetries times for a receipt, plus
\* once for each crash, lost connection or unconfirmed publish.
AttemptsPaidFor == \A r \in Receipts : attempt[r] <= MaxRetries + spent

\* COMPLETED is final until the receipt is deleted: neither a requeued
\* message, a late revert nor a failing second worker takes it back, unless
\* the receipt was published twice or redelivered while in work.
CompletedIsStable ==
    [][\A r \in Receipts \ (ambiguous \cup orphaned) :
        status[r] = "COMPLETED" => status'[r] \in {"COMPLETED", "DELETED"}]_vars

\* While one worker is at work on a receipt no second one begins, until the
\* row is stale or a failure has put it back to UPLOADED.
RedeliveryDoesNotRepeatWork ==
    [][\A r \in Receipts, w \in Workers :
        /\ worker[w].receipt = r /\ worker[w].pc = "delivered"
        /\ worker'[w].pc = "claimed"
        /\ r \notin ambiguous
        /\ \E v \in Workers \ {w} : worker[v].receipt = r /\ worker[v].pc \in Claimed
        => r \in orphaned /\ (r \in stale \/ status[r] # "PROCESSING")]_vars

\* Once uploaded a receipt is settled: completed, failed, handed back to the
\* client as CREATED, or deleted; only the faults that orphan it prevent that.
UploadsSettle ==
    \A r \in Receipts : Pending(r) ~> (~Pending(r) \/ r \in orphaned)

\* What the worker's header and confirm_upload promise of every upload, with
\* no fault excepted.
EveryUploadSettles == \A r \in Receipts : Pending(r) ~> ~Pending(r)

\* COMPLETED is the worker's last step, after the transaction and its items.
CompletedHasItems ==
    \A r \in Receipts : status[r] = "COMPLETED" => r \in items

=============================================================================
