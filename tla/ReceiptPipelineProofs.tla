-------------------------- MODULE ReceiptPipelineProofs --------------------------
(***************************************************************************)
(* Proofs about the receipt pipeline, for any receipts, workers, requests, *)
(* retry limit and number of faults.                                       *)
(***************************************************************************)
EXTENDS ReceiptPipelineRefinement, FiniteSetTheorems, TLAPS

-----------------------------------------------------------------------------
(* The inductive invariant, part by part.                                  *)

\* A deleted or never created receipt has no transaction.
BookedIsPresent == \A r \in tx : Present(r)

\* A worker that lost its channel is at work on an orphaned receipt.
LostChannel ==
    \A w \in Workers \ unacked : worker[w].pc # "idle" => worker[w].receipt \in orphaned

\* Nobody has seen receipt r yet: no message, no worker, no transaction.
Untouched(r) ==
    /\ ready[r] = 0
    /\ \A w \in Workers : worker[w].receipt # r
    /\ r \notin tx

\* A confirm that has not finished is the only one of its receipt, which is
\* not CREATED meanwhile; and unless an earlier publish was unconfirmed, no
\* worker knows of a receipt that is CREATED or still being handed over.
Handoff ==
    /\ \A g, h \in Handlers, r \in Receipts : Handing(g, r) /\ Handing(h, r) => g = h
    /\ \A h \in Handlers, r \in Receipts :
          Handing(h, r) => status[r] \notin {"ABSENT", "CREATED"}
    /\ \A r \in Receipts \ ambiguous :
          \/ status[r] \in {"ABSENT", "CREATED"}
          \/ \E h \in Handlers : Handing(h, r)
          => Untouched(r)

\* A receipt without a transaction row that is no longer metered went through
\* a revert, and a revert of a receipt somebody works on was unconfirmed.
Metering ==
    \A r \in Receipts \ ambiguous :
        Present(r) /\ status[r] # "CREATED" => r \in metered

\* An undisturbed receipt has at most one message, waiting or in work, and
\* nobody works on it once it is COMPLETED.
OneMessage ==
    \A r \in Receipts \ (ambiguous \cup orphaned) :
        /\ ready[r] <= 1
        /\ \A v, w \in Workers :
              worker[v].receipt = r /\ worker[w].receipt = r => v = w
        /\ \A w \in Workers : worker[w].receipt = r => ready[r] = 0
        /\ status[r] = "COMPLETED" =>
              \A w \in Workers : worker[w].receipt = r => worker[w].pc \notin Claimed

Books == RowsComeTogether /\ CompletedHasTransaction /\ BookedIsPresent

IInv ==
    /\ TypeOK
    /\ Books
    /\ LostChannel
    /\ Handoff
    /\ Metering
    /\ OneMessage
    /\ Custody

-----------------------------------------------------------------------------
\* The receipt never leaves the type invariant: every handler and worker step
\* keeps rows, queue and processes well formed.
THEOREM TypeCorrect == Spec => []TypeOK
<1>1. Init => TypeOK
  BY MaxFaultsAssumption, NoneAssumption
     DEF Init, TypeOK, Status, Row, At, Idle, WorkerIdles, HandlerIdles, WorkerPc,
          HandlerPc
<1>2. TypeOK /\ [Next]_vars => TypeOK'
  <2> SUFFICES ASSUME TypeOK, [Next]_vars PROVE TypeOK'
    OBVIOUS
  <2> USE MaxFaultsAssumption, NoneAssumption DEF TypeOK, Row, At, Idle, WorkerIdles,
       HandlerIdles, Status, WorkerPc, HandlerPc, Claimed, rowVars, bookVars,
       workerVars, handlerVars, historyVars
  <2>1. ASSUME NEW r \in Receipts, CreateReceipt(r)
        PROVE  TypeOK'
    BY <2>1 DEF CreateReceipt, SetStatus
  <2>2. ASSUME NEW r \in Receipts, PutObject(r)
        PROVE  TypeOK'
    BY <2>2 DEF PutObject, SetStatus
  <2>3. ASSUME NEW r \in Receipts, RejectUpload(r)
        PROVE  TypeOK'
    BY <2>3 DEF RejectUpload, SetStatus
  <2>4. ASSUME NEW r \in Receipts, BecomeStale(r)
        PROVE  TypeOK'
    BY <2>4 DEF BecomeStale, SetStatus
  <2>5. ASSUME NEW h \in Handlers, NEW r \in Receipts, ConfirmUpload(h, r)
        PROVE  TypeOK'
    BY <2>5 DEF ConfirmUpload, HandlerAt, SetStatus
  <2>6. ASSUME NEW h \in Handlers, NEW r \in Receipts, DeleteObject(h, r)
        PROVE  TypeOK'
    BY <2>6 DEF DeleteObject, HandlerAt, SetStatus
  <2>7. ASSUME NEW h \in Handlers, PublishAccepted(h)
        PROVE  TypeOK'
    BY <2>7 DEF PublishAccepted, SetStatus, Enqueue
  <2>8. ASSUME NEW h \in Handlers, PublishFails(h)
        PROVE  TypeOK'
    BY <2>8 DEF PublishFails, SetStatus, HandlerAt
  <2>9. ASSUME NEW h \in Handlers, PublishUnconfirmed(h)
        PROVE  TypeOK'
    BY <2>9 DEF PublishUnconfirmed, Enqueue, Fault, HandlerAt
  <2>10. ASSUME NEW h \in Handlers, RevertReceipt(h)
        PROVE  TypeOK'
    BY <2>10 DEF RevertReceipt, SetStatus
  <2>11. ASSUME NEW h \in Handlers, DeleteFindsRows(h)
        PROVE  TypeOK'
    BY <2>11 DEF DeleteFindsRows, RowsOf
  <2>12. ASSUME NEW h \in Handlers, DeleteCommits(h)
        PROVE  TypeOK'
    BY <2>12 DEF DeleteCommits, RowsOf, SetStatus
  <2>13. ASSUME NEW h \in Handlers, HandlerDies(h)
        PROVE  TypeOK'
    BY <2>13 DEF HandlerDies, SetStatus, Fault
  <2>14. ASSUME NEW w \in Workers, NEW r \in Receipts, Deliver(w, r)
        PROVE  TypeOK'
    BY <2>14 DEF Deliver, SetStatus
  <2>15. ASSUME NEW w \in Workers, Claim(w)
        PROVE  TypeOK'
    <3>1. PICK pc \in {"done", "claimed"} : WorkerAt(w, pc)
      BY <2>15 DEF Claim
    <3>2. /\ worker' \in [Workers -> [pc : WorkerPc, receipt : Receipts \cup {None}]]
          /\ \A v \in Workers : worker'[v].pc = "idle" <=> worker'[v].receipt = None
          /\ unacked' \subseteq {v \in Workers : worker'[v].pc # "idle"}
      BY <2>15, <3>1 DEF Claim, WorkerAt
    <3>3. /\ status' \in [Receipts -> Status]
          /\ attempt' \in [Receipts -> Nat]
          /\ metered' \subseteq Receipts /\ stale' \subseteq Receipts
      BY <2>15 DEF Claim, SetStatus, ReconciledStatus
    <3>4. QED
      BY <2>15, <3>2, <3>3 DEF Claim
  <2>16. ASSUME NEW w \in Workers, Download(w)
        PROVE  TypeOK'
    BY <2>16 DEF Download, SetStatus, WorkerAt
  <2>17. ASSUME NEW w \in Workers, SaveTransaction(w)
        PROVE  TypeOK'
    BY <2>17 DEF SaveTransaction, SetStatus, WorkerAt
  <2>18. ASSUME NEW w \in Workers, Complete(w)
        PROVE  TypeOK'
    BY <2>18 DEF Complete, SetStatus, WorkerAt
  <2>19. ASSUME NEW w \in Workers, ProcessingRaises(w)
        PROVE  TypeOK'
    BY <2>19 DEF ProcessingRaises, SetStatus, WorkerAt
  <2>20. ASSUME NEW w \in Workers, HandleFailure(w)
        PROVE  TypeOK'
    <3>1. PICK pc \in {"done", "raised"} : WorkerAt(w, pc)
      BY <2>20 DEF HandleFailure
    <3>2. /\ worker' \in [Workers -> [pc : WorkerPc, receipt : Receipts \cup {None}]]
          /\ \A v \in Workers : worker'[v].pc = "idle" <=> worker'[v].receipt = None
          /\ unacked' \subseteq {v \in Workers : worker'[v].pc # "idle"}
      BY <2>20, <3>1 DEF HandleFailure, WorkerAt
    <3>3. status' \in [Receipts -> Status] /\ stale' \subseteq Receipts
      BY <2>20 DEF HandleFailure, SetStatus
    <3>4. QED
      BY <2>20, <3>2, <3>3 DEF HandleFailure
  <2>21. ASSUME NEW w \in Workers, Acknowledge(w)
        PROVE  TypeOK'
    BY <2>21 DEF Acknowledge, SetStatus
  <2>22. ASSUME NEW w \in Workers, Requeue(w)
        PROVE  TypeOK'
    <3>1. /\ worker' \in [Workers -> [pc : WorkerPc, receipt : Receipts \cup {None}]]
          /\ \A v \in Workers : worker'[v].pc = "idle" <=> worker'[v].receipt = None
          /\ unacked' \subseteq {v \in Workers : worker'[v].pc # "idle"}
      BY <2>22 DEF Requeue
    <3>2. ready' \in [Receipts -> Nat]
      BY <2>22 DEF Requeue, Enqueue
    <3>3. QED
      BY <2>22, <3>1, <3>2 DEF Requeue
  <2>23. ASSUME NEW w \in Workers, WorkerDies(w)
        PROVE  TypeOK'
    BY <2>23 DEF WorkerDies, SetStatus, Enqueue, Fault
  <2>24. ASSUME NEW w \in Workers, ConnectionLost(w)
        PROVE  TypeOK'
    BY <2>24 DEF ConnectionLost, Enqueue, Fault
  <2>25. CASE UNCHANGED vars
    BY <2>25 DEF vars
  <2>26. QED
    BY <2>1, <2>2, <2>3, <2>4, <2>5, <2>6, <2>7, <2>8, <2>9, <2>10, <2>11, <2>12,
         <2>13, <2>14, <2>15, <2>16, <2>17, <2>18, <2>19, <2>20, <2>21, <2>22, <2>23,
         <2>24, <2>25 DEF Next, HandlerStep, WorkerStep
<1>3. QED
  BY <1>1, <1>2, PTL DEF Spec

-----------------------------------------------------------------------------
(* Every step keeps every part of the inductive invariant.                 *)

\* No step of the pipeline books a receipt that is absent, reports one that
\* is not booked, or parts a transaction from its extraction.
LEMMA BooksKept == IInv /\ [Next]_vars => Books'
<1> SUFFICES ASSUME IInv, [Next]_vars PROVE Books'
  OBVIOUS
<1> USE NoneAssumption DEF IInv, TypeOK, Status, Books, RowsComeTogether,
     CompletedHasTransaction, BookedIsPresent, Present, rowVars, bookVars, workerVars,
     handlerVars, historyVars
<1>1. ASSUME NEW r \in Receipts, CreateReceipt(r) PROVE Books'
  BY <1>1 DEF CreateReceipt, SetStatus
<1>2. ASSUME NEW h \in Handlers, NEW r \in Receipts, ConfirmUpload(h, r) PROVE Books'
  BY <1>2 DEF ConfirmUpload, SetStatus, HandlerAt
<1>3. ASSUME NEW h \in Handlers, RevertReceipt(h) PROVE Books'
  BY <1>3 DEF RevertReceipt, SetStatus, HandlerIdles
<1>4. ASSUME NEW h \in Handlers, DeleteCommits(h) PROVE Books'
  <2> DEFINE r == handler[h].receipt
  <2>1. CASE UNCHANGED <<status, tx, items, extraction>>
    BY <2>1
  <2>2. CASE ~UNCHANGED <<status, tx, items, extraction>>
    <3>1. /\ status' = [status EXCEPT ![r] = "DELETED"] /\ tx' = tx \ {r}
          /\ items' = items \ {r} /\ extraction' = extraction \ {r}
      BY <1>4, <2>2 DEF DeleteCommits, SetStatus
    <3> HIDE DEF r
    <3> QED BY <3>1
  <2> QED BY <2>1, <2>2
<1>5. ASSUME NEW w \in Workers, Claim(w) PROVE Books'
  BY <1>5, SMTT(30) DEF Claim, SetStatus, ReconciledStatus, NothingToDo, WorkerAt
<1>6. ASSUME NEW w \in Workers, SaveTransaction(w) PROVE Books'
  BY <1>6 DEF SaveTransaction, WorkerAt
<1>7. ASSUME NEW w \in Workers, Complete(w) PROVE Books'
  BY <1>7 DEF Complete, SetStatus, WorkerAt
<1>8. ASSUME NEW w \in Workers, HandleFailure(w) PROVE Books'
  BY <1>8 DEF HandleFailure, SetStatus, WorkerAt
<1>9. ASSUME NEW r \in Receipts,
            PutObject(r) \/ RejectUpload(r) \/ BecomeStale(r)
     PROVE  Books'
  BY <1>9 DEF PutObject, RejectUpload, BecomeStale
<1>10. ASSUME NEW h \in Handlers, NEW r \in Receipts,
            DeleteObject(h, r)
     PROVE  Books'
  BY <1>10 DEF DeleteObject, HandlerAt
<1>11. ASSUME NEW h \in Handlers,
            PublishAccepted(h) \/ PublishFails(h) \/ PublishUnconfirmed(h) \/
            DeleteFindsRows(h) \/ HandlerDies(h)
     PROVE  Books'
  BY <1>11 DEF PublishAccepted, Enqueue, HandlerIdles, PublishFails, HandlerAt,
       PublishUnconfirmed, DeleteFindsRows, HandlerDies
<1>12. ASSUME NEW w \in Workers, NEW r \in Receipts,
            Deliver(w, r)
     PROVE  Books'
  BY <1>12 DEF Deliver
<1>13. ASSUME NEW w \in Workers,
            Download(w) \/ ProcessingRaises(w) \/ Acknowledge(w) \/
            Requeue(w) \/ WorkerDies(w) \/ ConnectionLost(w)
     PROVE  Books'
  BY <1>13 DEF Download, WorkerAt, ProcessingRaises, Acknowledge, WorkerIdles, Requeue,
       Enqueue, WorkerDies, ConnectionLost
<1>14. CASE UNCHANGED vars
  BY <1>14 DEF vars
<1>15. QED
  BY <1>1, <1>2, <1>3, <1>4, <1>5, <1>6, <1>7, <1>8, <1>9, <1>10, <1>11, <1>12, <1>13,
       <1>14 DEF Next, HandlerStep, WorkerStep
\* A worker whose message the broker gave to somebody else is always at work
\* on a receipt counted as orphaned: only a lost connection parts the two.
LEMMA LostChannelKept == IInv /\ [Next]_vars => LostChannel'
<1> SUFFICES ASSUME IInv, [Next]_vars PROVE LostChannel'
  OBVIOUS
<1> USE NoneAssumption DEF IInv, TypeOK, Books, LostChannel, Claimed, At, Idle,
     rowVars, bookVars, workerVars, handlerVars, historyVars
<1>1. ASSUME NEW w \in Workers, NEW r \in Receipts, Deliver(w, r) PROVE LostChannel'
  BY <1>1 DEF Deliver
<1>2. ASSUME NEW w \in Workers, Claim(w) PROVE LostChannel'
  BY <1>2 DEF Claim, SetStatus, ReconciledStatus, NothingToDo, WorkerAt
<1>3. ASSUME NEW w \in Workers, HandleFailure(w) PROVE LostChannel'
  BY <1>3 DEF HandleFailure, SetStatus, WorkerAt
<1>4. ASSUME NEW w \in Workers, Acknowledge(w) PROVE LostChannel'
  BY <1>4 DEF Acknowledge, WorkerIdles
<1>5. ASSUME NEW w \in Workers, Requeue(w) PROVE LostChannel'
  BY <1>5 DEF Requeue, Enqueue, WorkerIdles
<1>6. ASSUME NEW w \in Workers, WorkerDies(w) PROVE LostChannel'
  BY <1>6 DEF WorkerDies, Enqueue, WorkerIdles
<1>7. ASSUME NEW w \in Workers, ConnectionLost(w) PROVE LostChannel'
  BY <1>7 DEF ConnectionLost, Enqueue
<1>8. ASSUME NEW r \in Receipts,
            CreateReceipt(r) \/ PutObject(r) \/ RejectUpload(r) \/
            BecomeStale(r)
     PROVE  LostChannel'
  BY <1>8 DEF CreateReceipt, SetStatus, PutObject, RejectUpload, BecomeStale
<1>9. ASSUME NEW h \in Handlers, NEW r \in Receipts,
            ConfirmUpload(h, r) \/ DeleteObject(h, r)
     PROVE  LostChannel'
  BY <1>9 DEF ConfirmUpload, SetStatus, HandlerAt, DeleteObject
<1>10. ASSUME NEW h \in Handlers,
            PublishAccepted(h) \/ PublishFails(h) \/ PublishUnconfirmed(h) \/
            RevertReceipt(h) \/ DeleteFindsRows(h) \/ DeleteCommits(h) \/
            HandlerDies(h)
     PROVE  LostChannel'
  BY <1>10 DEF PublishAccepted, Enqueue, HandlerIdles, PublishFails, HandlerAt,
       PublishUnconfirmed, RevertReceipt, SetStatus, DeleteFindsRows, DeleteCommits,
       HandlerDies
<1>11. ASSUME NEW w \in Workers,
            Download(w) \/ SaveTransaction(w) \/ Complete(w) \/
            ProcessingRaises(w)
     PROVE  LostChannel'
  BY <1>11 DEF Download, WorkerAt, SaveTransaction, Complete, SetStatus, ProcessingRaises
<1>12. CASE UNCHANGED vars
  BY <1>12 DEF vars
<1>13. QED
  BY <1>1, <1>2, <1>3, <1>4, <1>5, <1>6, <1>7, <1>8, <1>9, <1>10, <1>11,
       <1>12 DEF Next, HandlerStep, WorkerStep
\* confirm_upload hands a receipt over once: the FOR UPDATE status check keeps
\* a second confirm out until the first has published or reverted.
LEMMA HandoffKept == IInv /\ [Next]_vars => Handoff'
<1> SUFFICES ASSUME IInv, [Next]_vars PROVE Handoff'
  OBVIOUS
<1> USE NoneAssumption DEF IInv, TypeOK, Books, Handoff, Untouched, Handing, Claimed,
     At, Idle, rowVars, bookVars, workerVars, handlerVars, historyVars
<1>1. ASSUME NEW r \in Receipts, CreateReceipt(r) PROVE Handoff'
  BY <1>1 DEF CreateReceipt, SetStatus
<1>2. ASSUME NEW h \in Handlers, NEW r \in Receipts, ConfirmUpload(h, r) PROVE Handoff'
  BY <1>2 DEF ConfirmUpload, SetStatus, HandlerAt
<1>3. ASSUME NEW h \in Handlers, NEW r \in Receipts, DeleteObject(h, r) PROVE Handoff'
  BY <1>3 DEF DeleteObject, HandlerAt
<1>4. ASSUME NEW h \in Handlers, PublishAccepted(h) PROVE Handoff'
  BY <1>4 DEF PublishAccepted, Enqueue, HandlerIdles
<1>5. ASSUME NEW h \in Handlers, PublishFails(h) PROVE Handoff'
  BY <1>5 DEF PublishFails, HandlerAt
<1>6. ASSUME NEW h \in Handlers, PublishUnconfirmed(h) PROVE Handoff'
  BY <1>6 DEF PublishUnconfirmed, Enqueue, Fault, HandlerAt
<1>7. ASSUME NEW h \in Handlers, RevertReceipt(h) PROVE Handoff'
  BY <1>7 DEF RevertReceipt, SetStatus, HandlerIdles
<1>8. ASSUME NEW h \in Handlers, DeleteFindsRows(h) PROVE Handoff'
  BY <1>8 DEF DeleteFindsRows
<1>9. ASSUME NEW h \in Handlers, DeleteCommits(h) PROVE Handoff'
  BY <1>9 DEF DeleteCommits, SetStatus, HandlerIdles
<1>10. ASSUME NEW h \in Handlers, HandlerDies(h) PROVE Handoff'
  BY <1>10 DEF HandlerDies, HandlerIdles
<1>11. ASSUME NEW w \in Workers, NEW r \in Receipts, Deliver(w, r) PROVE Handoff'
  BY <1>11 DEF Deliver
<1>12. ASSUME NEW w \in Workers, Claim(w) PROVE Handoff'
  BY <1>12 DEF Claim, SetStatus, ReconciledStatus, NothingToDo, WorkerAt
<1>13. ASSUME NEW w \in Workers, SaveTransaction(w) PROVE Handoff'
  BY <1>13 DEF SaveTransaction, WorkerAt
<1>14. ASSUME NEW w \in Workers, Complete(w) PROVE Handoff'
  BY <1>14 DEF Complete, SetStatus, WorkerAt
<1>15. ASSUME NEW w \in Workers, HandleFailure(w) PROVE Handoff'
  BY <1>15 DEF HandleFailure, SetStatus, WorkerAt
<1>16. ASSUME NEW w \in Workers, Acknowledge(w) PROVE Handoff'
  BY <1>16 DEF Acknowledge, WorkerIdles
<1>17. ASSUME NEW w \in Workers, Requeue(w) PROVE Handoff'
  BY <1>17 DEF Requeue, Enqueue, WorkerIdles
<1>18. ASSUME NEW w \in Workers, WorkerDies(w) PROVE Handoff'
  BY <1>18 DEF WorkerDies, Enqueue, WorkerIdles
<1>19. ASSUME NEW w \in Workers, ConnectionLost(w) PROVE Handoff'
  BY <1>19 DEF ConnectionLost, Enqueue
<1>20. ASSUME NEW r \in Receipts,
            PutObject(r) \/ RejectUpload(r) \/ BecomeStale(r)
     PROVE  Handoff'
  BY <1>20 DEF PutObject, RejectUpload, BecomeStale
<1>21. ASSUME NEW w \in Workers,
            Download(w) \/ ProcessingRaises(w)
     PROVE  Handoff'
  BY <1>21, SMTT(30) DEF Download, WorkerAt, ProcessingRaises
<1>22. CASE UNCHANGED vars
  BY <1>22 DEF vars
<1>23. QED
  BY <1>1, <1>2, <1>3, <1>4, <1>5, <1>6, <1>7, <1>8, <1>9, <1>10, <1>11, <1>12, <1>13,
       <1>14, <1>15, <1>16, <1>17, <1>18, <1>19, <1>20, <1>21, <1>22 DEF Next,
       HandlerStep, WorkerStep
\* Only the revert and the delete take uploaded_at back, and they put the
\* receipt back to CREATED or remove it.
LEMMA MeteringKept == IInv /\ [Next]_vars => Metering'
<1> SUFFICES ASSUME IInv, [Next]_vars PROVE Metering'
  OBVIOUS
<1> USE NoneAssumption DEF IInv, TypeOK, Books, Metering, Present, Handoff, Untouched,
     Handing, rowVars, bookVars, workerVars, handlerVars, historyVars
<1>1. ASSUME NEW r \in Receipts, CreateReceipt(r) PROVE Metering'
  BY <1>1 DEF CreateReceipt, SetStatus
<1>2. ASSUME NEW h \in Handlers, NEW r \in Receipts, ConfirmUpload(h, r) PROVE Metering'
  BY <1>2 DEF ConfirmUpload, SetStatus, HandlerAt
<1>3. ASSUME NEW h \in Handlers, PublishUnconfirmed(h) PROVE Metering'
  BY <1>3 DEF PublishUnconfirmed, Enqueue, Fault, HandlerAt
<1>4. ASSUME NEW h \in Handlers, RevertReceipt(h) PROVE Metering'
  BY <1>4 DEF RevertReceipt, SetStatus, HandlerIdles
<1>5. ASSUME NEW h \in Handlers, DeleteCommits(h) PROVE Metering'
  BY <1>5 DEF DeleteCommits, SetStatus, HandlerIdles
<1>6. ASSUME NEW w \in Workers, Claim(w) PROVE Metering'
  BY <1>6 DEF Claim, SetStatus, ReconciledStatus, NothingToDo, WorkerAt
<1>7. ASSUME NEW w \in Workers, Complete(w) PROVE Metering'
  BY <1>7 DEF Complete, SetStatus, WorkerAt
<1>8. ASSUME NEW w \in Workers, HandleFailure(w) PROVE Metering'
  BY <1>8 DEF HandleFailure, SetStatus, WorkerAt
<1>9. ASSUME NEW r \in Receipts,
            PutObject(r) \/ RejectUpload(r) \/ BecomeStale(r)
     PROVE  Metering'
  BY <1>9 DEF PutObject, RejectUpload, BecomeStale
<1>10. ASSUME NEW h \in Handlers, NEW r \in Receipts,
            DeleteObject(h, r)
     PROVE  Metering'
  BY <1>10 DEF DeleteObject, HandlerAt
<1>11. ASSUME NEW h \in Handlers,
            PublishAccepted(h) \/ PublishFails(h) \/ DeleteFindsRows(h) \/
            HandlerDies(h)
     PROVE  Metering'
  BY <1>11 DEF PublishAccepted, Enqueue, HandlerIdles, PublishFails, HandlerAt,
       DeleteFindsRows, HandlerDies
<1>12. ASSUME NEW w \in Workers, NEW r \in Receipts,
            Deliver(w, r)
     PROVE  Metering'
  BY <1>12 DEF Deliver
<1>13. ASSUME NEW w \in Workers,
            Download(w) \/ SaveTransaction(w) \/ ProcessingRaises(w) \/
            Acknowledge(w) \/ Requeue(w) \/ WorkerDies(w) \/
            ConnectionLost(w)
     PROVE  Metering'
  BY <1>13 DEF Download, WorkerAt, SaveTransaction, ProcessingRaises, Acknowledge,
       WorkerIdles, Requeue, Enqueue, WorkerDies, ConnectionLost
<1>14. CASE UNCHANGED vars
  BY <1>14 DEF vars
<1>15. QED
  BY <1>1, <1>2, <1>3, <1>4, <1>5, <1>6, <1>7, <1>8, <1>9, <1>10, <1>11, <1>12, <1>13,
       <1>14 DEF Next, HandlerStep, WorkerStep
\* Without a fault no step of API, broker or worker duplicates the message of
\* a receipt, and none leaves a worker busy on a COMPLETED one.
LEMMA OneMessageKept == IInv /\ [Next]_vars => OneMessage'
<1> SUFFICES ASSUME IInv, [Next]_vars PROVE OneMessage'
  OBVIOUS
<1> USE NoneAssumption DEF IInv, TypeOK, Books, OneMessage, Handoff, Untouched,
     Handing, LostChannel, Claimed, At, Idle, rowVars, bookVars, workerVars,
     handlerVars, historyVars
<1>1. ASSUME NEW r \in Receipts, CreateReceipt(r) PROVE OneMessage'
  BY <1>1 DEF CreateReceipt, SetStatus
<1>2. ASSUME NEW h \in Handlers, NEW r \in Receipts, ConfirmUpload(h, r) PROVE OneMessage'
  BY <1>2 DEF ConfirmUpload, SetStatus, HandlerAt
<1>3. ASSUME NEW h \in Handlers, PublishAccepted(h) PROVE OneMessage'
  BY <1>3 DEF PublishAccepted, Enqueue, HandlerIdles
<1>4. ASSUME NEW h \in Handlers, PublishUnconfirmed(h) PROVE OneMessage'
  BY <1>4 DEF PublishUnconfirmed, Enqueue, Fault, HandlerAt
<1>5. ASSUME NEW h \in Handlers, RevertReceipt(h) PROVE OneMessage'
  BY <1>5 DEF RevertReceipt, SetStatus, HandlerIdles
<1>6. ASSUME NEW h \in Handlers, DeleteCommits(h) PROVE OneMessage'
  BY <1>6 DEF DeleteCommits, SetStatus, HandlerIdles
<1>7. ASSUME NEW w \in Workers, NEW r \in Receipts, Deliver(w, r) PROVE OneMessage'
  BY <1>7 DEF Deliver
<1>8. ASSUME NEW w \in Workers, Claim(w) PROVE OneMessage'
  <2> DEFINE q == worker[w].receipt
  <2>1. q \in Receipts
    BY <1>8 DEF Claim
  <2>2. /\ \A v \in Workers : worker'[v].receipt = worker[v].receipt
        /\ \A v \in Workers \ {w} : worker'[v] = worker[v]
    BY <1>8 DEF Claim, WorkerAt
  <2>3. \A r \in Receipts \ {q} : status'[r] = status[r]
    BY <1>8 DEF Claim, SetStatus
  <2>4. status'[q] = "COMPLETED" => worker'[w].pc = "done"
    BY <1>8, <2>1 DEF Claim, SetStatus, NothingToDo, WorkerAt
  <2>5. QED
    BY <1>8, <2>1, <2>2, <2>3, <2>4 DEF Claim
<1>9. ASSUME NEW w \in Workers, Download(w) PROVE OneMessage'
  BY <1>9 DEF Download, WorkerAt
<1>10. ASSUME NEW w \in Workers, SaveTransaction(w) PROVE OneMessage'
  BY <1>10 DEF SaveTransaction, WorkerAt
<1>11. ASSUME NEW w \in Workers, Complete(w) PROVE OneMessage'
  BY <1>11 DEF Complete, SetStatus, WorkerAt
<1>12. ASSUME NEW w \in Workers, ProcessingRaises(w) PROVE OneMessage'
  BY <1>12 DEF ProcessingRaises, WorkerAt
<1>13. ASSUME NEW w \in Workers, HandleFailure(w) PROVE OneMessage'
  <2>1. /\ \A v \in Workers : worker'[v].receipt = worker[v].receipt
        /\ \A v \in Workers \ {w} : worker'[v] = worker[v]
        /\ worker'[w].pc \in {"raised", "done"}
    BY <1>13 DEF HandleFailure, WorkerAt
  <2>2. \A r \in Receipts : status'[r] = "COMPLETED" => status[r] = "COMPLETED"
    BY <1>13 DEF HandleFailure, SetStatus
  <2>3. QED
    BY <1>13, <2>1, <2>2 DEF HandleFailure
<1>14. ASSUME NEW w \in Workers, Acknowledge(w) PROVE OneMessage'
  BY <1>14 DEF Acknowledge, WorkerIdles
<1>15. ASSUME NEW w \in Workers, Requeue(w) PROVE OneMessage'
  BY <1>15 DEF Requeue, Enqueue, WorkerIdles
<1>16. ASSUME NEW w \in Workers, WorkerDies(w) PROVE OneMessage'
  BY <1>16 DEF WorkerDies, Enqueue, WorkerIdles
<1>17. ASSUME NEW w \in Workers, ConnectionLost(w) PROVE OneMessage'
  BY <1>17 DEF ConnectionLost, Enqueue
<1>18. ASSUME NEW r \in Receipts,
            PutObject(r) \/ RejectUpload(r) \/ BecomeStale(r)
     PROVE  OneMessage'
  BY <1>18 DEF PutObject, RejectUpload, BecomeStale
<1>19. ASSUME NEW h \in Handlers, NEW r \in Receipts,
            DeleteObject(h, r)
     PROVE  OneMessage'
  BY <1>19 DEF DeleteObject, HandlerAt
<1>20. ASSUME NEW h \in Handlers,
            PublishFails(h) \/ DeleteFindsRows(h) \/ HandlerDies(h)
     PROVE  OneMessage'
  BY <1>20 DEF PublishFails, HandlerAt, DeleteFindsRows, HandlerDies, HandlerIdles
<1>21. CASE UNCHANGED vars
  BY <1>21 DEF vars
<1>22. QED
  BY <1>1, <1>2, <1>3, <1>4, <1>5, <1>6, <1>7, <1>8, <1>9, <1>10, <1>11, <1>12, <1>13,
       <1>14, <1>15, <1>16, <1>17, <1>18, <1>19, <1>20, <1>21 DEF Next, HandlerStep,
       WorkerStep
\* Every step that ends somebody's custody of a pending receipt settles the
\* receipt, passes it on, or counts it as orphaned.
LEMMA CustodyKept == IInv /\ [Next]_vars => Custody'
<1> SUFFICES ASSUME IInv, [Next]_vars PROVE Custody'
  OBVIOUS
<1> USE NoneAssumption DEF IInv, TypeOK, Books, Present, Custody, HasCustodian,
     Pending, Handing, LostChannel, Claimed, At, Idle, RowsComeTogether,
     BookedIsPresent, rowVars, bookVars, workerVars, handlerVars, historyVars
<1>1. ASSUME NEW r \in Receipts, CreateReceipt(r) PROVE Custody'
  BY <1>1 DEF CreateReceipt, SetStatus
<1>2. ASSUME NEW h \in Handlers, NEW r \in Receipts, ConfirmUpload(h, r) PROVE Custody'
  BY <1>2 DEF ConfirmUpload, SetStatus, HandlerAt
<1>3. ASSUME NEW h \in Handlers, NEW r \in Receipts, DeleteObject(h, r) PROVE Custody'
  BY <1>3 DEF DeleteObject, HandlerAt
<1>4. ASSUME NEW h \in Handlers, PublishAccepted(h) PROVE Custody'
  BY <1>4 DEF PublishAccepted, Enqueue, HandlerIdles
<1>5. ASSUME NEW h \in Handlers, PublishFails(h) PROVE Custody'
  BY <1>5 DEF PublishFails, HandlerAt
<1>6. ASSUME NEW h \in Handlers, PublishUnconfirmed(h) PROVE Custody'
  BY <1>6 DEF PublishUnconfirmed, Enqueue, Fault, HandlerAt
<1>7. ASSUME NEW h \in Handlers, RevertReceipt(h) PROVE Custody'
  BY <1>7 DEF RevertReceipt, SetStatus, HandlerIdles
<1>8. ASSUME NEW h \in Handlers, DeleteFindsRows(h) PROVE Custody'
  BY <1>8 DEF DeleteFindsRows
<1>9. ASSUME NEW h \in Handlers, DeleteCommits(h) PROVE Custody'
  BY <1>9 DEF DeleteCommits, SetStatus, HandlerIdles
<1>10. ASSUME NEW h \in Handlers, HandlerDies(h) PROVE Custody'
  BY <1>10 DEF HandlerDies, HandlerIdles
<1>11. ASSUME NEW w \in Workers, NEW r \in Receipts, Deliver(w, r) PROVE Custody'
  BY <1>11 DEF Deliver
<1>12. ASSUME NEW w \in Workers, Claim(w) PROVE Custody'
  BY <1>12, SMTT(30) DEF Claim, SetStatus, ReconciledStatus, NothingToDo, WorkerAt
<1>13. ASSUME NEW w \in Workers, Download(w) PROVE Custody'
  BY <1>13 DEF Download, WorkerAt
<1>14. ASSUME NEW w \in Workers, SaveTransaction(w) PROVE Custody'
  BY <1>14 DEF SaveTransaction, WorkerAt
<1>15. ASSUME NEW w \in Workers, Complete(w) PROVE Custody'
  BY <1>15 DEF Complete, SetStatus, WorkerAt
<1>16. ASSUME NEW w \in Workers, ProcessingRaises(w) PROVE Custody'
  BY <1>16 DEF ProcessingRaises, WorkerAt
<1>17. ASSUME NEW w \in Workers, HandleFailure(w) PROVE Custody'
  <2> DEFINE q == worker[w].receipt
  <2>1. q \in Receipts
    BY <1>17 DEF HandleFailure
  <2>2. /\ worker'[w].receipt = q
        /\ \A v \in Workers \ {w} : worker'[v] = worker[v]
    BY <1>17 DEF HandleFailure, WorkerAt
  <2>3. \A r \in Receipts \ {q} : status'[r] = status[r]
    BY <1>17 DEF HandleFailure, SetStatus
  <2>4. Pending(q)' => status'[q] = "UPLOADED" /\ worker'[w].pc = "raised"
    BY <1>17, <2>1 DEF HandleFailure, SetStatus, WorkerAt
  <2>5. ASSUME NEW r \in Receipts \ orphaned', Pending(r)'
        PROVE  HasCustodian(r)'
    <3>1. CASE r = q
      BY <2>2, <2>4, <2>5, <3>1
    <3>2. CASE r # q
      <4>1. Pending(r) /\ HasCustodian(r)
        BY <1>17, <2>3, <2>5, <3>2 DEF HandleFailure
      <4>2. \A v \in Workers : worker[v].receipt = r => worker'[v] = worker[v]
        BY <2>2, <3>2
      <4>3. status'[r] = status[r] /\ UNCHANGED <<tx, ready, handler>>
        BY <1>17, <2>3, <3>2 DEF HandleFailure
      <4>4. QED
        BY <4>1, <4>2, <4>3, SMTT(30)
    <3>3. QED
      BY <3>1, <3>2
  <2>6. QED
    BY <2>5
<1>18. ASSUME NEW w \in Workers, Acknowledge(w) PROVE Custody'
  BY <1>18 DEF Acknowledge, WorkerIdles
<1>19. ASSUME NEW w \in Workers, Requeue(w) PROVE Custody'
  <2> DEFINE q == worker[w].receipt
  <2>1. /\ q \in Receipts
        /\ \A v \in Workers \ {w} : worker'[v] = worker[v]
    BY <1>19 DEF Requeue, WorkerIdles
  <2>2. /\ w \in unacked => ready'[q] > 0
        /\ \A r \in Receipts \ {q} : ready'[r] = ready[r]
    BY <1>19, <2>1 DEF Requeue, Enqueue
  <2>3. ASSUME NEW r \in Receipts \ orphaned', Pending(r)'
        PROVE  HasCustodian(r)'
    <3>1. Pending(r) /\ HasCustodian(r)
      BY <1>19, <2>3 DEF Requeue
    <3>2. CASE r = q
      <4>1. w \in unacked
        BY <1>19, <2>3, <3>2 DEF Requeue
      <4>2. QED
        BY <1>19, <2>1, <2>2, <3>1, <3>2, <4>1 DEF Requeue
    <3>3. CASE r # q
      BY <1>19, <2>1, <2>2, <3>1, <3>3 DEF Requeue
    <3>4. QED
      BY <3>2, <3>3
  <2>4. QED
    BY <2>3
<1>20. ASSUME NEW w \in Workers, WorkerDies(w) PROVE Custody'
  BY <1>20 DEF WorkerDies, Enqueue, WorkerIdles
<1>21. ASSUME NEW w \in Workers, ConnectionLost(w) PROVE Custody'
  BY <1>21 DEF ConnectionLost, Enqueue
<1>22. ASSUME NEW r \in Receipts,
            PutObject(r) \/ RejectUpload(r) \/ BecomeStale(r)
     PROVE  Custody'
  BY <1>22 DEF PutObject, RejectUpload, BecomeStale
<1>23. CASE UNCHANGED vars
  BY <1>23 DEF vars
<1>24. QED
  BY <1>1, <1>2, <1>3, <1>4, <1>5, <1>6, <1>7, <1>8, <1>9, <1>10, <1>11, <1>12, <1>13,
       <1>14, <1>15, <1>16, <1>17, <1>18, <1>19, <1>20, <1>21, <1>22, <1>23 DEF Next,
       HandlerStep, WorkerStep

-----------------------------------------------------------------------------
(* The theorems.                                                           *)

\* The empty system satisfies the inductive invariant.
LEMMA InitialInvariant == Init => IInv
<1>1. Init => TypeOK
  BY MaxFaultsAssumption, NoneAssumption
     DEF Init, TypeOK, Status, Row, At, Idle, WorkerPc, HandlerPc
<1>2. Init => Books /\ LostChannel /\ Handoff /\ Metering /\ OneMessage /\ Custody
  BY NoneAssumption
     DEF Init, Books, RowsComeTogether, CompletedHasTransaction, BookedIsPresent,
         LostChannel, Handoff, Untouched, Handing, Metering, Present, OneMessage,
         Custody, Pending, At, Idle
<1>3. QED
  BY <1>1, <1>2 DEF IInv

\* Whatever requests, workers and faults do, the inductive invariant holds.
THEOREM InductiveInvariant == Spec => []IInv
<1>1. TypeOK' /\ IInv /\ [Next]_vars => IInv'
  BY BooksKept, LostChannelKept, HandoffKept, MeteringKept, OneMessageKept, CustodyKept
     DEF IInv
<1>2. QED
  BY InitialInvariant, TypeCorrect, <1>1, PTL DEF Spec

\* confirm_upload and the worker lose sight of a pending receipt only through
\* the faults that orphan it.
THEOREM CustodyTheorem == Spec => []Custody
<1>1. IInv => Custody
  BY DEF IInv
<1>2. QED
  BY InductiveInvariant, <1>1, PTL

\* A receipt the API reports as COMPLETED has its transaction.
THEOREM BooksTheorem == Spec => []CompletedHasTransaction
<1>1. IInv => CompletedHasTransaction
  BY DEF IInv, Books
<1>2. QED
  BY InductiveInvariant, <1>1, PTL

\* Extraction and transaction of a receipt exist together, and items never
\* without their transaction.
THEOREM RowsTheorem == Spec => []RowsComeTogether
<1>1. IInv => RowsComeTogether
  BY DEF IInv, Books
<1>2. QED
  BY InductiveInvariant, <1>1, PTL

\* A receipt that gave its user a transaction counts against the scan quota,
\* unless the publish that raised had been taken by the broker.
THEOREM MeteringTheorem == Spec => []ScansAreMetered
<1>1. IInv => ScansAreMetered
  BY DEF IInv, TypeOK, Books, BookedIsPresent, Present, Handoff, Untouched, Metering,
         ScansAreMetered
<1>2. QED
  BY InductiveInvariant, <1>1, PTL

\* No handler or worker step takes COMPLETED back from an undisturbed receipt.
THEOREM CompletedTheorem == Spec => CompletedIsStable
<1> DEFINE Stable ==
      \A r \in Receipts \ (ambiguous \cup orphaned) :
          status[r] = "COMPLETED" => status'[r] \in {"COMPLETED", "DELETED"}
<1>1. IInv /\ [Next]_vars => Stable
  <2> SUFFICES ASSUME IInv, [Next]_vars PROVE Stable
    OBVIOUS
  <2> USE NoneAssumption DEF IInv, TypeOK
  <2>1. ASSUME NEW r \in Receipts,
               CreateReceipt(r) \/ PutObject(r) \/ RejectUpload(r) \/ BecomeStale(r)
        PROVE  Stable
    BY <2>1 DEF CreateReceipt, PutObject, RejectUpload, BecomeStale, SetStatus, rowVars
  <2>2. ASSUME NEW h \in Handlers, NEW r \in Receipts,
               ConfirmUpload(h, r) \/ DeleteObject(h, r)
        PROVE  Stable
    BY <2>2 DEF ConfirmUpload, DeleteObject, SetStatus, rowVars
  <2>3. ASSUME NEW h \in Handlers,
               \/ PublishAccepted(h) \/ PublishFails(h) \/ PublishUnconfirmed(h)
               \/ DeleteFindsRows(h) \/ HandlerDies(h)
        PROVE  Stable
    BY <2>3 DEF PublishAccepted, PublishFails, PublishUnconfirmed, DeleteFindsRows,
                HandlerDies, rowVars
  <2>4. ASSUME NEW h \in Handlers, RevertReceipt(h) PROVE Stable
    BY <2>4 DEF RevertReceipt, SetStatus, Books, CompletedHasTransaction, Handoff,
                Untouched, Handing
  <2>5. ASSUME NEW h \in Handlers, DeleteCommits(h) PROVE Stable
    BY <2>5 DEF DeleteCommits, SetStatus
  <2>6. ASSUME NEW w \in Workers, Claim(w) PROVE Stable
    BY <2>6 DEF Claim, SetStatus, ReconciledStatus, NothingToDo, rowVars, Books,
                CompletedHasTransaction
  <2>7. ASSUME NEW w \in Workers, HandleFailure(w) PROVE Stable
    BY <2>7 DEF HandleFailure, SetStatus, OneMessage, Claimed
  <2>8. ASSUME NEW w \in Workers, Complete(w) PROVE Stable
    BY <2>8 DEF Complete, SetStatus
  <2>9. ASSUME NEW w \in Workers, NEW r \in Receipts, Deliver(w, r) PROVE Stable
    BY <2>9 DEF Deliver, rowVars
  <2>10. ASSUME NEW w \in Workers,
                \/ Download(w) \/ SaveTransaction(w) \/ ProcessingRaises(w)
                \/ Acknowledge(w) \/ Requeue(w) \/ WorkerDies(w) \/ ConnectionLost(w)
         PROVE  Stable
    BY <2>10 DEF Download, SaveTransaction, ProcessingRaises, Acknowledge, Requeue,
                 WorkerDies, ConnectionLost, rowVars
  <2>11. CASE UNCHANGED vars
    BY <2>11 DEF vars, rowVars
  <2>12. QED
    BY <2>1, <2>2, <2>3, <2>4, <2>5, <2>6, <2>7, <2>8, <2>9, <2>10, <2>11
       DEF Next, HandlerStep, WorkerStep
<1>2. QED
  BY InductiveInvariant, <1>1, PTL DEF Spec, CompletedIsStable

\* The guard of process_receipt keeps a second worker from extracting a
\* receipt that is being extracted, unless a fault orphaned the first one and
\* the row went stale or back to UPLOADED.
THEOREM RedeliveryTheorem == Spec => RedeliveryDoesNotRepeatWork
<1> DEFINE Again(r, w) ==
      /\ worker[w].receipt = r /\ worker[w].pc = "delivered"
      /\ worker'[w].pc = "claimed"
      /\ r \notin ambiguous
      /\ \E v \in Workers \ {w} : worker[v].receipt = r /\ worker[v].pc \in Claimed
<1> DEFINE Guarded ==
      \A r \in Receipts, w \in Workers :
          Again(r, w) => r \in orphaned /\ (r \in stale \/ status[r] # "PROCESSING")
<1>1. IInv /\ [Next]_vars => Guarded
  <2> SUFFICES ASSUME IInv, [Next]_vars,
                      NEW r \in Receipts, NEW w \in Workers, Again(r, w)
               PROVE  r \in orphaned /\ (r \in stale \/ status[r] # "PROCESSING")
    OBVIOUS
  <2>1. r \in orphaned
    BY DEF IInv, OneMessage
  <2>2. Claim(w)
    <3>1. ASSUME NEW v \in Workers, v # w, WorkerStep(v) \/ WorkerDies(v)
          PROVE  worker'[w] = worker[w]
      BY <3>1 DEF IInv, TypeOK, WorkerStep, Deliver, Claim, Download, SaveTransaction,
                  Complete, ProcessingRaises, HandleFailure, Acknowledge, Requeue,
                  WorkerDies, WorkerAt, WorkerIdles
    <3>2. WorkerStep(w) => Claim(w)
      BY DEF WorkerStep, Deliver, Claimed, Download, SaveTransaction, Complete,
             ProcessingRaises, HandleFailure, Acknowledge, Requeue
    <3>3. ~WorkerDies(w)
      BY DEF IInv, TypeOK, WorkerDies, WorkerIdles, Idle, At
    <3>4. UNCHANGED worker => FALSE
      OBVIOUS
    <3>5. PICK v \in Workers : WorkerStep(v) \/ WorkerDies(v)
      <4>1. ASSUME NEW x \in Receipts,
                   \/ CreateReceipt(x) \/ PutObject(x) \/ RejectUpload(x) \/ BecomeStale(x)
            PROVE  FALSE
        BY <3>4, <4>1 DEF CreateReceipt, PutObject, RejectUpload, BecomeStale, workerVars
      <4>2. ASSUME NEW h \in Handlers, NEW x \in Receipts,
                   ConfirmUpload(h, x) \/ DeleteObject(h, x)
            PROVE  FALSE
        BY <3>4, <4>2 DEF ConfirmUpload, DeleteObject, workerVars
      <4>3. ASSUME NEW h \in Handlers, HandlerStep(h) \/ HandlerDies(h)
            PROVE  FALSE
        BY <3>4, <4>3 DEF HandlerStep, PublishAccepted, PublishFails, PublishUnconfirmed,
             RevertReceipt, DeleteFindsRows, DeleteCommits, HandlerDies, workerVars
      <4>4. ASSUME NEW x \in Workers, ConnectionLost(x)
            PROVE  FALSE
        BY <3>4, <4>4 DEF ConnectionLost
      <4>5. CASE UNCHANGED vars
        BY <3>4, <4>5 DEF vars, workerVars
      <4>6. QED
        BY <4>1, <4>2, <4>3, <4>4, <4>5 DEF Next
    <3>6. QED
      BY <3>1, <3>2, <3>3, <3>5
  <2>3. r \in stale \/ status[r] # "PROCESSING"
    BY <2>2 DEF Claim, NothingToDo, WorkerAt, At, IInv, TypeOK
  <2>4. QED
    BY <2>1, <2>3
<1>2. QED
  BY InductiveInvariant, <1>1, PTL DEF Spec, RedeliveryDoesNotRepeatWork

\* The pipeline implements the ledger: only SaveTransaction books, only for a
\* receipt that exists and is not booked, and only the delete unbooks.
THEOREM LedgerTheorem == Spec => ImplementsLedger
<1> DEFINE done == {r \in Receipts : status[r] = "COMPLETED"}
<1> DEFINE gone == {r \in Receipts : status[r] = "DELETED"}
<1>1. Init => Ledger!Init
  BY DEF Init, Ledger!Init
<1>2. IInv /\ [Next]_vars => [Ledger!Next]_(Ledger!vars)
  <2> SUFFICES ASSUME IInv, [Next]_vars
               PROVE  Ledger!Next \/ UNCHANGED <<tx, done, gone>>
    BY DEF Ledger!vars
  <2> USE NoneAssumption DEF IInv, TypeOK, rowVars, bookVars
  <2> DEFINE Mapped == Ledger!Next \/ UNCHANGED <<tx, done, gone>>
  <2>0. ASSUME NEW r \in Receipts,
               \/ Ledger!Book(r) \/ Ledger!Report(r)
               \/ Ledger!Retract(r) \/ Ledger!Remove(r)
        PROVE  Ledger!Next
    BY <2>0, Zenon DEF Ledger!Next
  <2>1. ASSUME NEW r \in Receipts,
               CreateReceipt(r) \/ PutObject(r) \/ RejectUpload(r) \/ BecomeStale(r)
        PROVE  UNCHANGED <<tx, done, gone>>
    BY <2>1 DEF CreateReceipt, PutObject, RejectUpload, BecomeStale, SetStatus
  <2>2. ASSUME NEW h \in Handlers, NEW r \in Receipts,
               ConfirmUpload(h, r) \/ DeleteObject(h, r)
        PROVE  UNCHANGED <<tx, done, gone>>
    BY <2>2 DEF ConfirmUpload, DeleteObject, SetStatus
  <2>3. ASSUME NEW h \in Handlers,
               \/ PublishAccepted(h) \/ PublishFails(h) \/ PublishUnconfirmed(h)
               \/ DeleteFindsRows(h) \/ HandlerDies(h)
        PROVE  UNCHANGED <<tx, done, gone>>
    BY <2>3 DEF PublishAccepted, PublishFails, PublishUnconfirmed, DeleteFindsRows,
                HandlerDies
  <2>4. ASSUME NEW h \in Handlers, RevertReceipt(h) PROVE Mapped
    <3>1. PICK r \in Receipts : r = handler[h].receipt
      BY <2>4 DEF RevertReceipt
    <3>2. CASE Present(r)
      <4>1. Ledger!Retract(r)
        BY <2>4, <3>1, <3>2 DEF RevertReceipt, SetStatus, Present, Ledger!Retract
      <4>2. QED
        BY <2>0, <3>1, <4>1
    <3>3. CASE ~Present(r)
      BY <2>4, <3>1, <3>3 DEF RevertReceipt
    <3>4. QED
      BY <3>2, <3>3
  <2>5. ASSUME NEW h \in Handlers, DeleteCommits(h) PROVE Mapped
    <3>1. PICK r \in Receipts : r = handler[h].receipt
      BY <2>5 DEF DeleteCommits
    <3>2. CASE Present(r) /\ found[h] = RowsOf(r)
      <4>1. Ledger!Remove(r)
        BY <2>5, <3>1, <3>2 DEF DeleteCommits, SetStatus, Ledger!Remove
      <4>2. QED
        BY <2>0, <3>1, <4>1
    <3>3. CASE ~(Present(r) /\ found[h] = RowsOf(r))
      BY <2>5, <3>1, <3>3 DEF DeleteCommits
    <3>4. QED
      BY <3>2, <3>3
  <2>6. ASSUME NEW w \in Workers, Claim(w) PROVE Mapped
    <3>1. PICK r \in Receipts : r = worker[w].receipt
      BY <2>6 DEF Claim
    <3>2. CASE UNCHANGED status
      BY <2>6, <3>1, <3>2 DEF Claim
    <3>3. CASE Present(r) /\ SetStatus(r, "COMPLETED") /\ r \in tx
      <4>1. Ledger!Report(r)
        BY <2>6, <3>1, <3>3 DEF Claim, SetStatus, Present, Ledger!Report
      <4>2. QED
        BY <2>0, <3>1, <4>1
    <3>4. ASSUME NEW s \in {"FAILED", "PROCESSING"}, Present(r), SetStatus(r, s)
          PROVE  Mapped
      <4>1. Ledger!Retract(r)
        BY <2>6, <3>1, <3>4 DEF Claim, SetStatus, Present, Ledger!Retract
      <4>2. QED
        BY <2>0, <3>1, <4>1
    <3>5. QED
      BY <2>6, <3>1, <3>2, <3>3, <3>4 DEF Claim, ReconciledStatus
  <2>7. ASSUME NEW w \in Workers, HandleFailure(w) PROVE Mapped
    <3>1. PICK r \in Receipts : r = worker[w].receipt
      BY <2>7 DEF HandleFailure
    <3>2. CASE ~Present(r)
      BY <2>7, <3>1, <3>2 DEF HandleFailure
    <3>3. CASE Present(r)
      <4>1. Ledger!Retract(r)
        BY <2>7, <3>1, <3>3 DEF HandleFailure, SetStatus, Present, Ledger!Retract
      <4>2. QED
        BY <2>0, <3>1, <4>1
    <3>4. QED
      BY <3>2, <3>3
  <2>8. ASSUME NEW w \in Workers, SaveTransaction(w) PROVE Mapped
    <3>1. PICK r \in Receipts : r = worker[w].receipt
      BY <2>8 DEF SaveTransaction
    <3>2. Ledger!Book(r)
      BY <2>8, <3>1 DEF SaveTransaction, Present, Ledger!Book
    <3>3. QED
      BY <2>0, <3>1, <3>2
  <2>9. ASSUME NEW w \in Workers, Complete(w) PROVE Mapped
    <3>1. PICK r \in Receipts : r = worker[w].receipt
      BY <2>9 DEF Complete
    <3>2. Ledger!Report(r)
      BY <2>9, <3>1 DEF Complete, SetStatus, Present, Ledger!Report
    <3>3. QED
      BY <2>0, <3>1, <3>2
  <2>10. ASSUME NEW w \in Workers, NEW r \in Receipts, Deliver(w, r)
         PROVE  UNCHANGED <<tx, done, gone>>
    BY <2>10 DEF Deliver
  <2>11. ASSUME NEW w \in Workers,
                \/ Download(w) \/ ProcessingRaises(w) \/ Acknowledge(w)
                \/ Requeue(w) \/ WorkerDies(w) \/ ConnectionLost(w)
         PROVE  UNCHANGED <<tx, done, gone>>
    BY <2>11 DEF Download, ProcessingRaises, Acknowledge, Requeue, WorkerDies,
                 ConnectionLost
  <2>12. CASE UNCHANGED vars
    BY <2>12 DEF vars
  <2>13. QED
    BY <2>1, <2>2, <2>3, <2>4, <2>5, <2>6, <2>7, <2>8, <2>9, <2>10, <2>11, <2>12
       DEF Next, HandlerStep, WorkerStep
<1>3. QED
  BY InductiveInvariant, <1>1, <1>2, PTL DEF Spec, ImplementsLedger, Ledger!Spec

-----------------------------------------------------------------------------
(* The budget of a receipt.                                                *)

\* Workers that may make another attempt, now or by requeuing what they have: a
\* job that runs requeues its message only below the retry limit.
Live(r) ==
    {w \in Workers : /\ worker[w].receipt = r
                     /\ \/ worker[w].pc = "delivered"
                        \/ w \in unacked /\ worker[w].pc = "raised"
                        \/ /\ w \in unacked /\ worker[w].pc \in Claimed
                           /\ attempt[r] < MaxRetries}

\* 1 while a message for the receipt is still to be sent, 0 afterwards.
Open(r) == IF status[r] \in {"ABSENT", "CREATED"} \/ \E h \in Handlers : Handing(h, r)
           THEN 1 ELSE 0

\* The attempts made, of which those before the last allowed one are free.
Used(r) == IF attempt[r] < MaxRetries THEN MaxRetries - 1 ELSE attempt[r]

\* Every message, waiting, live or to be sent, is good for one more attempt when
\* the limit is reached; one message is everybody's, the others took a fault.
Budget(r) == Used(r) + ready[r] + Cardinality(Live(r)) + Open(r) <= MaxRetries + spent

\* A message of a deleted receipt is requeued, but not claimed again.
Within(r) ==
    /\ attempt[r] <= MaxRetries + spent
    /\ status[r] # "DELETED" => Budget(r)

-----------------------------------------------------------------------------
(* Counting.                                                               *)

\* The cardinalities of two sets of workers that differ by one at most.
LEMMA LiveCounts ==
    ASSUME IsFiniteSet(Workers), NEW S \in SUBSET Workers, NEW T \in SUBSET Workers
    PROVE  /\ Cardinality(S) \in Nat /\ Cardinality(T) \in Nat
           /\ T \subseteq S => Cardinality(T) <= Cardinality(S)
           /\ \A w : T \subseteq S \cup {w} => Cardinality(T) <= Cardinality(S) + 1
           /\ \A w \in S : T \subseteq S \ {w} => Cardinality(T) <= Cardinality(S) - 1
<1>1. IsFiniteSet(S) /\ IsFiniteSet(T)
  BY FS_Subset
<1>2. Cardinality(S) \in Nat /\ Cardinality(T) \in Nat
  BY <1>1, FS_CardinalityType
<1>3. T \subseteq S => Cardinality(T) <= Cardinality(S)
  BY <1>1, FS_Subset
<1>4. ASSUME NEW w, T \subseteq S \cup {w} PROVE Cardinality(T) <= Cardinality(S) + 1
  <2>1. /\ IsFiniteSet(S \cup {w})
        /\ Cardinality(S \cup {w}) = IF w \in S THEN Cardinality(S) ELSE Cardinality(S) + 1
    BY <1>1, FS_AddElement
  <2>2. Cardinality(T) <= Cardinality(S \cup {w})
    BY <1>4, <2>1, FS_Subset
  <2> QED BY <1>2, <2>1, <2>2
<1>5. ASSUME NEW w \in S, T \subseteq S \ {w} PROVE Cardinality(T) <= Cardinality(S) - 1
  <2>1. IsFiniteSet(S \ {w}) /\ Cardinality(S \ {w}) = Cardinality(S) - 1
    BY <1>1, FS_RemoveElement
  <2>2. Cardinality(T) <= Cardinality(S \ {w})
    BY <1>5, <2>1, FS_Subset
  <2> QED BY <1>2, <2>1, <2>2
<1> QED BY <1>2, <1>3, <1>4, <1>5

\* The budget holds after a step that spends what it uses.
LEMMA WithinKept ==
    ASSUME IsFiniteSet(Workers), TypeOK, TypeOK', NEW r \in Receipts, Within(r), NEW n \in Int,
           status[r] = "DELETED" => status'[r] = "DELETED",
           attempt'[r] = attempt[r] \/ status'[r] # "DELETED",
           spent <= spent',
           Cardinality(Live(r)') <= Cardinality(Live(r)) + n,
           status'[r] # "DELETED" =>
              Used(r)' + ready'[r] + n + Open(r)' + spent
                  <= Used(r) + ready[r] + Open(r) + spent'
    PROVE  Within(r)'
<1>1. /\ attempt[r] \in Nat /\ attempt'[r] \in Nat /\ ready[r] \in Nat /\ ready'[r] \in Nat
      /\ spent \in Nat /\ spent' \in Nat /\ MaxRetries \in Nat \ {0}
  BY MaxRetriesAssumption, MaxFaultsAssumption DEF TypeOK
<1>2. /\ Used(r) \in Nat /\ Used(r)' \in Nat /\ attempt'[r] <= Used(r)'
      /\ Open(r) \in {0, 1} /\ Open(r)' \in {0, 1}
  BY <1>1 DEF Used, Open
<1>3. Cardinality(Live(r)) \in Nat /\ Cardinality(Live(r)') \in Nat
  BY LiveCounts DEF Live
<1> DEFINE live == Cardinality(Live(r))
           live1 == Cardinality(Live(r)')
           used == Used(r)
           used1 == Used(r)'
<1> HIDE DEF live, live1, used, used1
<1>4. CASE status'[r] # "DELETED"
  <2>1. used + ready[r] + live + Open(r) <= MaxRetries + spent
    BY <1>4 DEF Within, Budget, live, used
  <2>2. used1 + ready'[r] + n + Open(r)' + spent <= used + ready[r] + Open(r) + spent'
    BY <1>4 DEF used, used1
  <2>3. live1 <= live + n
    BY DEF live, live1
  <2>4. /\ used \in Nat /\ used1 \in Nat /\ live \in Nat /\ live1 \in Nat
        /\ attempt'[r] <= used1
    BY <1>2, <1>3 DEF used, used1, live, live1
  <2>5. used1 + ready'[r] + live1 + Open(r)' <= MaxRetries + spent'
    BY <1>1, <1>2, <2>1, <2>2, <2>3, <2>4
  <2>6. attempt'[r] <= MaxRetries + spent'
    BY <1>1, <1>2, <2>4, <2>5
  <2> QED BY <2>5, <2>6 DEF Within, Budget, live1, used1
<1>5. CASE status'[r] = "DELETED"
  BY <1>1, <1>5 DEF Within
<1> QED BY <1>4, <1>5

-----------------------------------------------------------------------------
(* The actions.  Each lemma bounds what one receipt's budget loses.        *)

\* Only what was created is published.
AmbiguousIsThere == \A r \in ambiguous : status[r] # "ABSENT"

\* What is known before a step, and of the types after it.
Known == IsFiniteSet(Workers) /\ TypeOK /\ TypeOK' /\ Handoff /\ AmbiguousIsThere

\* A step that attempts nothing, sends nothing and sets no worker to work, or
\* that pays for the message it sends with a fault.
LEMMA QuietKept ==
    ASSUME Known, NEW r \in Receipts, Within(r),
           status[r] = "DELETED" => status'[r] = "DELETED",
           attempt' = attempt, Live(r)' \subseteq Live(r), Open(r)' <= Open(r),
           spent <= spent', ready'[r] + spent <= ready[r] + spent'
    PROVE  Within(r)'
<1>1. /\ attempt[r] \in Nat /\ ready[r] \in Nat /\ ready'[r] \in Nat
      /\ spent \in Nat /\ spent' \in Nat /\ MaxRetries \in Nat
  BY MaxRetriesAssumption, MaxFaultsAssumption DEF Known, TypeOK
<1>2. Used(r)' = Used(r) /\ Used(r) \in Int /\ Open(r) \in Int /\ Open(r)' \in Int
  BY <1>1, MaxRetriesAssumption DEF Used, Open
<1>3. /\ Cardinality(Live(r)) \in Nat /\ Cardinality(Live(r)') \in Nat
      /\ Cardinality(Live(r)') <= Cardinality(Live(r))
  BY LiveCounts DEF Known, Live
<1>4. Cardinality(Live(r)') <= Cardinality(Live(r)) + 0
  BY <1>3
<1>5. Used(r)' + ready'[r] + 0 + Open(r)' + spent <= Used(r) + ready[r] + Open(r) + spent'
  BY <1>1, <1>2
<1> QED BY <1>4, <1>5, WithinKept DEF Known

\* Where requests and statuses stay, and where a status leaves CREATED, no new
\* message is to be sent.
LEMMA OpenKept ==
    ASSUME NEW r \in Receipts,
           \A h \in Handlers : Handing(h, r)' => Handing(h, r),
           status'[r] \in {"ABSENT", "CREATED"} => status[r] \in {"ABSENT", "CREATED"}
    PROVE  Open(r)' <= Open(r)
  BY DEF Open

\* create_receipt, the PUT, confirm_upload and delete_receipt: no worker is
\* touched, and what is to be sent was to be sent.
LEMMA RequestKept ==
    ASSUME Known, NEW r \in Receipts, Within(r),
           \/ \E q \in Receipts : CreateReceipt(q) \/ PutObject(q) \/ RejectUpload(q) \/ BecomeStale(q)
           \/ \E h \in Handlers :
                \/ \E q \in Receipts : ConfirmUpload(h, q) \/ DeleteObject(h, q)
                \/ PublishFails(h) \/ RevertReceipt(h) \/ DeleteFindsRows(h) \/ DeleteCommits(h)
                \/ HandlerDies(h)
    PROVE  Within(r)'
<1> USE DEF Known, TypeOK, rowVars, bookVars, workerVars, handlerVars, historyVars, At, Idle
<1>1. /\ UNCHANGED <<attempt, workerVars, ready>>
      /\ spent' = spent \/ spent' = spent + 1
  BY DEF CreateReceipt, PutObject, RejectUpload, BecomeStale, ConfirmUpload, DeleteObject,
         PublishFails, RevertReceipt, DeleteFindsRows, DeleteCommits, HandlerDies, Fault
<1>2. status[r] = "DELETED" => status'[r] = "DELETED"
  BY DEF CreateReceipt, PutObject, RejectUpload, BecomeStale, ConfirmUpload, DeleteObject,
         PublishFails, RevertReceipt, DeleteFindsRows, DeleteCommits, HandlerDies, SetStatus,
         Present
<1>3. Open(r)' <= Open(r)
  <2>1. ASSUME NEW q \in Receipts,
               CreateReceipt(q) \/ PutObject(q) \/ RejectUpload(q) \/ BecomeStale(q)
        PROVE  Open(r)' <= Open(r)
    BY <2>1, OpenKept DEF CreateReceipt, PutObject, RejectUpload, BecomeStale, SetStatus, Handing
  <2>2. ASSUME NEW h \in Handlers, NEW q \in Receipts, ConfirmUpload(h, q)
        PROVE  Open(r)' <= Open(r)
    <3>1. CASE q = r
      BY <2>2, <3>1 DEF ConfirmUpload, Open
    <3>2. CASE q # r
      BY <2>2, <3>2, OpenKept DEF ConfirmUpload, SetStatus, HandlerAt, Handing
    <3> QED BY <3>1, <3>2
  <2>3. ASSUME NEW h \in Handlers,
               \/ \E q \in Receipts : DeleteObject(h, q)
               \/ PublishFails(h) \/ DeleteFindsRows(h) \/ DeleteCommits(h) \/ HandlerDies(h)
        PROVE  Open(r)' <= Open(r)
    <3>1. \A g \in Handlers : Handing(g, r)' => Handing(g, r)
      BY <2>3 DEF DeleteObject, PublishFails, DeleteFindsRows, DeleteCommits, HandlerDies,
                  HandlerAt, HandlerIdles, Handing
    <3>2. status'[r] \in {"ABSENT", "CREATED"} => status[r] \in {"ABSENT", "CREATED"}
      BY <2>3 DEF DeleteObject, PublishFails, DeleteFindsRows, DeleteCommits, HandlerDies,
                  SetStatus
    <3> QED BY <3>1, <3>2, OpenKept
  <2>4. ASSUME NEW h \in Handlers, RevertReceipt(h)
        PROVE  Open(r)' <= Open(r)
    <3>1. CASE handler[h].receipt = r
      BY <2>4, <3>1 DEF RevertReceipt, Open, Handing
    <3>2. CASE handler[h].receipt # r
      BY <2>4, <3>2, OpenKept DEF RevertReceipt, SetStatus, HandlerIdles, Handing
    <3> QED BY <3>1, <3>2
  <2> QED BY <2>1, <2>2, <2>3, <2>4
<1>4. Live(r)' = Live(r)
  BY <1>1 DEF Live
<1>5. spent \in Nat /\ ready[r] \in Nat
  BY MaxFaultsAssumption
<1>6. spent <= spent' /\ ready'[r] + spent <= ready[r] + spent'
  BY <1>1, <1>5
<1>7. attempt' = attempt
  BY <1>1
<1> HIDE DEF Known
<1> QED BY <1>2, <1>3, <1>4, <1>6, <1>7, QuietKept

\* A publish that is confirmed is the one message that was to be sent; one that
\* is not confirmed is paid for with a fault.
LEMMA PublishKept ==
    ASSUME Known, NEW r \in Receipts, Within(r), NEW h \in Handlers,
           PublishAccepted(h) \/ PublishUnconfirmed(h)
    PROVE  Within(r)'
<1> USE DEF Known, TypeOK, rowVars, bookVars, workerVars, handlerVars, historyVars, At, Idle
<1>1. /\ UNCHANGED <<attempt, status, worker, unacked>>
      /\ handler[h].receipt \in Receipts
      /\ ready' = [ready EXCEPT ![handler[h].receipt] = @ + 1]
  BY DEF PublishAccepted, PublishUnconfirmed, Enqueue
<1>2. Live(r)' = Live(r)
  BY <1>1 DEF Live
<1>3. /\ attempt[r] \in Nat /\ ready[r] \in Nat /\ ready'[r] \in Nat
      /\ spent \in Nat /\ spent' \in Nat /\ MaxRetries \in Nat
  BY MaxRetriesAssumption, MaxFaultsAssumption
<1>4. CASE PublishUnconfirmed(h)
  <2>1. spent' = spent + 1 /\ ready'[r] <= ready[r] + 1
    BY <1>1, <1>3, <1>4 DEF PublishUnconfirmed, Fault
  <2>2. Open(r)' <= Open(r)
    BY <1>1, <1>4, OpenKept DEF PublishUnconfirmed, HandlerAt, Handing
  <2>3. spent <= spent' /\ ready'[r] + spent <= ready[r] + spent'
    BY <1>3, <2>1
  <2> HIDE DEF Known
  <2> QED BY <1>1, <1>2, <2>2, <2>3, QuietKept
<1>5. CASE PublishAccepted(h)
  <2>1. spent' = spent
    BY <1>5 DEF PublishAccepted
  <2>2. CASE handler[h].receipt # r
    <3>1. ready'[r] = ready[r]
      BY <1>1, <2>2
    <3>2. Open(r)' <= Open(r)
      BY <1>1, <1>5, <2>2, OpenKept DEF PublishAccepted, HandlerIdles, Handing
    <3>3. spent <= spent' /\ ready'[r] + spent <= ready[r] + spent'
      BY <1>3, <2>1, <3>1
    <3> HIDE DEF Known
    <3> QED BY <1>1, <1>2, <3>2, <3>3, QuietKept
  <2>3. CASE handler[h].receipt = r
    <3>1. ready'[r] = ready[r] + 1
      BY <1>1, <2>3
    <3>2. Handing(h, r) /\ status[r] \notin {"ABSENT", "CREATED"}
      BY <1>5, <2>3 DEF PublishAccepted, Handing, Handoff
    <3>3. \A g \in Handlers : ~Handing(g, r)'
      BY <1>5, <2>3, <3>2 DEF PublishAccepted, HandlerIdles, Handing, Handoff
    <3>4. Open(r) = 1 /\ Open(r)' = 0
      BY <1>1, <3>2, <3>3 DEF Open
    <3>5. Used(r)' = Used(r) /\ Used(r) \in Int
      BY <1>1, <1>3 DEF Used
    <3>6. Cardinality(Live(r)) \in Nat
      BY LiveCounts DEF Live
    <3>7. Cardinality(Live(r)') <= Cardinality(Live(r)) + 0
      BY <1>2, <3>6
    <3>8. Used(r)' + ready'[r] + 0 + Open(r)' + spent <= Used(r) + ready[r] + Open(r) + spent'
      BY <1>3, <2>1, <3>1, <3>4, <3>5
    <3>9. spent <= spent' /\ attempt' = attempt /\ status' = status
      BY <1>1, <1>3, <2>1
    <3>10. IsFiniteSet(Workers) /\ TypeOK /\ TypeOK'
      BY DEF Known
    <3> HIDE DEF Known, TypeOK
    <3> QED BY <3>7, <3>8, <3>9, <3>10, WithinKept
  <2> QED BY <2>2, <2>3
<1> QED BY <1>4, <1>5

\* The other requests are left alone by a worker's step, and no status becomes
\* CREATED.
LEMMA WorkerOpens ==
    ASSUME NEW r \in Receipts, UNCHANGED handler,
           status'[r] \in {"ABSENT", "CREATED"} => status[r] \in {"ABSENT", "CREATED"}
    PROVE  Open(r)' <= Open(r)
  BY OpenKept DEF Handing

\* A job goes on, ends or fails without a message; a requeued message was live;
\* and one that a fault brings back is paid for.
LEMMA JobKept ==
    ASSUME Known, NEW r \in Receipts, Within(r), NEW w \in Workers,
           \/ Download(w) \/ SaveTransaction(w) \/ Complete(w) \/ ProcessingRaises(w)
           \/ Acknowledge(w) \/ WorkerDies(w) \/ ConnectionLost(w)
    PROVE  Within(r)'
<1> USE DEF Known, TypeOK, rowVars, bookVars, workerVars, handlerVars, historyVars, At, Idle
<1>1. /\ attempt' = attempt /\ UNCHANGED handler
      /\ \/ ready' = ready /\ spent' = spent
         \/ /\ spent' = spent + 1
            /\ ready' = ready \/ ready' = [ready EXCEPT ![worker[w].receipt] = @ + 1]
  BY DEF Download, SaveTransaction, Complete, ProcessingRaises, Acknowledge, WorkerDies,
         ConnectionLost, Fault, Enqueue
<1>2. /\ status[r] = "DELETED" => status'[r] = "DELETED"
      /\ status'[r] \in {"ABSENT", "CREATED"} => status[r] \in {"ABSENT", "CREATED"}
  BY DEF Download, SaveTransaction, Complete, ProcessingRaises, Acknowledge, WorkerDies,
         ConnectionLost, SetStatus, Present
<1>3. Live(r)' \subseteq Live(r)
  BY <1>1 DEF Live, Claimed, Download, SaveTransaction, Complete, ProcessingRaises, Acknowledge,
              WorkerDies, ConnectionLost, WorkerAt, WorkerIdles
<1>4. Open(r)' <= Open(r)
  BY <1>1, <1>2, WorkerOpens
<1>5. spent \in Nat /\ ready[r] \in Nat
  BY MaxFaultsAssumption
<1>6. spent <= spent' /\ ready'[r] + spent <= ready[r] + spent'
  BY <1>1, <1>5
<1> HIDE DEF Known
<1> QED BY <1>1, <1>2, <1>3, <1>4, <1>6, QuietKept

\* A message is delivered, or requeued by the worker that has it: it was good
\* for one attempt and is so still.
LEMMA MessageKept ==
    ASSUME Known, NEW r \in Receipts, Within(r), NEW w \in Workers,
           (\E q \in Receipts : Deliver(w, q)) \/ Requeue(w)
    PROVE  Within(r)'
<1> USE DEF Known, TypeOK, rowVars, bookVars, workerVars, handlerVars, historyVars, At, Idle
<1>1. UNCHANGED <<attempt, status, handler, spent>>
  BY DEF Deliver, Requeue
<1>2. Open(r)' <= Open(r) /\ Open(r) \in Int /\ Open(r)' \in Int
  BY <1>1, WorkerOpens DEF Open
<1>3. /\ attempt[r] \in Nat /\ ready[r] \in Nat /\ ready'[r] \in Nat
      /\ spent \in Nat /\ MaxRetries \in Nat
  BY MaxRetriesAssumption, MaxFaultsAssumption
<1>4. Used(r)' = Used(r) /\ Used(r) \in Int
  BY <1>1, <1>3 DEF Used
<1>5. \E n \in {-1, 0, 1} :
        /\ Cardinality(Live(r)') <= Cardinality(Live(r)) + n
        /\ ready'[r] + n <= ready[r]
  <2>1. /\ Cardinality(Live(r)) \in Nat /\ Cardinality(Live(r)') \in Nat
        /\ Live(r)' \subseteq Live(r) => Cardinality(Live(r)') <= Cardinality(Live(r))
        /\ Live(r)' \subseteq Live(r) \cup {w} => Cardinality(Live(r)') <= Cardinality(Live(r)) + 1
        /\ w \in Live(r) /\ Live(r)' \subseteq Live(r) \ {w}
              => Cardinality(Live(r)') <= Cardinality(Live(r)) - 1
    BY LiveCounts DEF Live
  <2>2. ASSUME NEW q \in Receipts, Deliver(w, q)
        PROVE  \/ Live(r)' \subseteq Live(r) /\ ready'[r] = ready[r]
               \/ Live(r)' \subseteq Live(r) \cup {w} /\ ready'[r] = ready[r] - 1
    BY <2>2 DEF Deliver, Live, Claimed
  <2>3. ASSUME Requeue(w)
        PROVE  \/ Live(r)' \subseteq Live(r) /\ ready'[r] = ready[r]
               \/ w \in Live(r) /\ Live(r)' \subseteq Live(r) \ {w} /\ ready'[r] = ready[r] + 1
    BY <2>3 DEF Requeue, Live, Claimed, WorkerIdles, Enqueue
  <2>4. \/ Cardinality(Live(r)') <= Cardinality(Live(r)) + 0 /\ ready'[r] + 0 <= ready[r]
        \/ Cardinality(Live(r)') <= Cardinality(Live(r)) + 1 /\ ready'[r] + 1 <= ready[r]
        \/ Cardinality(Live(r)') <= Cardinality(Live(r)) + (-1) /\ ready'[r] + (-1) <= ready[r]
    BY <1>3, <2>1, <2>2, <2>3
  <2> QED BY <2>4
<1>6. PICK n \in {-1, 0, 1} :
        /\ Cardinality(Live(r)') <= Cardinality(Live(r)) + n
        /\ ready'[r] + n <= ready[r]
  BY <1>5
<1>7. Used(r)' + ready'[r] + n + Open(r)' + spent <= Used(r) + ready[r] + Open(r) + spent'
  BY <1>1, <1>2, <1>3, <1>4, <1>6
<1>8. spent <= spent' /\ n \in Int
  BY <1>1, <1>3
<1>9. IsFiniteSet(Workers) /\ TypeOK /\ TypeOK'
  BY DEF Known
<1> HIDE DEF Known, TypeOK
<1> QED BY <1>1, <1>6, <1>7, <1>8, <1>9, WithinKept

\* The except block: a job that may be repeated was live already; only the
\* message of a deleted receipt goes back to the queue without being so.
LEMMA FailureKept ==
    ASSUME Known, NEW r \in Receipts, Within(r), NEW w \in Workers, HandleFailure(w)
    PROVE  Within(r)'
<1> USE DEF Known, TypeOK, rowVars, bookVars, workerVars, handlerVars, historyVars, At, Idle
<1>1. /\ UNCHANGED <<attempt, ready, handler, spent>>
      /\ status[r] = "DELETED" => status'[r] = "DELETED"
      /\ status'[r] \in {"ABSENT", "CREATED"} => status[r] \in {"ABSENT", "CREATED"}
  BY DEF HandleFailure, SetStatus, Present
<1>2. spent \in Nat /\ ready[r] \in Nat /\ attempt[r] \in Nat
  BY MaxFaultsAssumption
<1>3. CASE status[r] = "DELETED"
  BY <1>1, <1>3 DEF Within
<1>4. CASE worker[w].receipt # r \/ Present(r)
  <2>1. Live(r)' \subseteq Live(r)
    BY <1>1, <1>2, <1>4, MaxRetriesAssumption DEF HandleFailure, Live, Claimed, WorkerAt
  <2>2. Open(r)' <= Open(r)
    BY <1>1, WorkerOpens
  <2>3. spent <= spent' /\ ready'[r] + spent <= ready[r] + spent'
    BY <1>1, <1>2
  <2> HIDE DEF Known
  <2> QED BY <1>1, <2>1, <2>2, <2>3, QuietKept
<1>5. CASE status[r] = "ABSENT"
  <2>1. worker[w].receipt # r
    BY <1>5 DEF AmbiguousIsThere, Handoff, Untouched
  <2> QED BY <1>4, <2>1
<1> QED BY <1>3, <1>4, <1>5 DEF Present, Status

\* An attempt begins: it uses the message of its worker once the limit is
\* reached, and one that was free before.
LEMMA ClaimKept ==
    ASSUME Known, NEW r \in Receipts, Within(r), NEW w \in Workers, Claim(w)
    PROVE  Within(r)'
<1> USE DEF Known, TypeOK, rowVars, bookVars, workerVars, handlerVars, historyVars, At, Idle
<1>1. /\ UNCHANGED <<ready, handler, spent, unacked>>
      /\ status[r] = "DELETED" => status'[r] = "DELETED"
      /\ status'[r] \in {"ABSENT", "CREATED"} => status[r] \in {"ABSENT", "CREATED"}
  BY DEF Claim, SetStatus, WorkerAt, ReconciledStatus, Present
<1>2. /\ spent \in Nat /\ ready[r] \in Nat /\ attempt[r] \in Nat /\ attempt'[r] \in Nat
      /\ MaxRetries \in Nat \ {0}
  BY MaxRetriesAssumption, MaxFaultsAssumption
<1>3. Open(r)' <= Open(r) /\ Open(r) \in Int /\ Open(r)' \in Int
  BY <1>1, WorkerOpens DEF Open
<1>4. CASE attempt' = attempt
  <2>1. Live(r)' \subseteq Live(r)
    BY <1>1, <1>4 DEF Claim, Live, Claimed, WorkerAt
  <2>2. spent <= spent' /\ ready'[r] + spent <= ready[r] + spent'
    BY <1>1, <1>2
  <2> HIDE DEF Known
  <2> QED BY <1>1, <1>3, <1>4, <2>1, <2>2, QuietKept
<1>5. CASE attempt' # attempt
  <2>1. /\ worker[w].pc = "delivered" /\ Present(worker[w].receipt)
        /\ attempt' = [attempt EXCEPT ![worker[w].receipt] = @ + 1]
        /\ worker' = [worker EXCEPT ![w] = At("claimed", worker[w].receipt)]
        /\ status' = [status EXCEPT ![worker[w].receipt] = "PROCESSING"]
    BY <1>5 DEF Claim, WorkerAt, SetStatus
  <2>2. CASE worker[w].receipt # r
    <3>1. attempt'[r] = attempt[r]
      BY <2>1, <2>2
    <3>2. Live(r)' \subseteq Live(r)
      BY <1>1, <2>1, <2>2, <3>1 DEF Live
    <3>3. Used(r)' = Used(r) /\ Used(r) \in Int
      BY <1>2, <3>1 DEF Used
    <3>4. Cardinality(Live(r)') <= Cardinality(Live(r)) + 0
      <4>1. /\ Cardinality(Live(r)) \in Nat /\ Cardinality(Live(r)') \in Nat
            /\ Live(r)' \subseteq Live(r) => Cardinality(Live(r)') <= Cardinality(Live(r))
        BY LiveCounts DEF Live
      <4> QED BY <3>2, <4>1
    <3>5. Used(r)' + ready'[r] + 0 + Open(r)' + spent <= Used(r) + ready[r] + Open(r) + spent'
      BY <1>1, <1>2, <1>3, <3>3
    <3>6. IsFiniteSet(Workers) /\ TypeOK /\ TypeOK' /\ spent <= spent'
      BY <1>1, <1>2 DEF Known
    <3> HIDE DEF Known, TypeOK
    <3> QED BY <1>1, <3>1, <3>4, <3>5, <3>6, WithinKept
  <2>3. CASE worker[w].receipt = r
    <3>1. attempt'[r] = attempt[r] + 1 /\ status'[r] = "PROCESSING" /\ status[r] # "DELETED"
      BY <2>1, <2>3 DEF Present
    <3>2. w \in Live(r) /\ Live(r)' \subseteq Live(r)
      BY <1>1, <1>2, <2>1, <2>3, <3>1 DEF Live, Claimed
    <3>3. ~(attempt'[r] < MaxRetries) => Live(r)' \subseteq Live(r) \ {w}
      BY <1>1, <1>2, <2>1, <2>3, <3>1 DEF Live, Claimed
    <3>4. /\ Cardinality(Live(r)) \in Nat /\ Cardinality(Live(r)') \in Nat
          /\ Live(r)' \subseteq Live(r) => Cardinality(Live(r)') <= Cardinality(Live(r))
          /\ Live(r)' \subseteq Live(r) \ {w} => Cardinality(Live(r)') <= Cardinality(Live(r)) - 1
      BY <3>2, LiveCounts DEF Live
    <3>5. \E n \in {-1, 0} :
            /\ Cardinality(Live(r)') <= Cardinality(Live(r)) + n
            /\ Used(r)' + n <= Used(r)
      <4>1. CASE attempt'[r] < MaxRetries
        <5>1. Used(r)' + 0 <= Used(r)
          BY <1>2, <3>1, <4>1 DEF Used
        <5>2. Cardinality(Live(r)') <= Cardinality(Live(r)) + 0
          BY <3>2, <3>4
        <5> QED BY <5>1, <5>2
      <4>2. CASE ~(attempt'[r] < MaxRetries)
        <5>1. Used(r)' + (-1) <= Used(r)
          BY <1>2, <3>1, <4>2 DEF Used
        <5>2. Cardinality(Live(r)') <= Cardinality(Live(r)) + (-1)
          BY <3>3, <3>4, <4>2
        <5> QED BY <5>1, <5>2
      <4> QED BY <4>1, <4>2
    <3>6. PICK n \in {-1, 0} :
            /\ Cardinality(Live(r)') <= Cardinality(Live(r)) + n
            /\ Used(r)' + n <= Used(r)
      BY <3>5
    <3>7. Used(r) \in Int /\ Used(r)' \in Int
      BY <1>2 DEF Used
    <3>8. Used(r)' + ready'[r] + n + Open(r)' + spent <= Used(r) + ready[r] + Open(r) + spent'
      BY <1>1, <1>2, <1>3, <3>6, <3>7
    <3>9. IsFiniteSet(Workers) /\ TypeOK /\ TypeOK' /\ spent <= spent' /\ n \in Int
      BY <1>1, <1>2 DEF Known
    <3> HIDE DEF Known, TypeOK
    <3> QED BY <3>1, <3>6, <3>8, <3>9, WithinKept
  <2> QED BY <2>2, <2>3
<1> QED BY <1>4, <1>5

-----------------------------------------------------------------------------
(* The theorem.                                                            *)

\* A publish is of a receipt that was created, and none is ever absent again.
LEMMA AmbiguousKept == TypeOK /\ Handoff /\ AmbiguousIsThere /\ [Next]_vars => AmbiguousIsThere'
<1> SUFFICES ASSUME TypeOK, Handoff, AmbiguousIsThere, [Next]_vars PROVE AmbiguousIsThere'
  OBVIOUS
<1> USE DEF AmbiguousIsThere, TypeOK, rowVars, bookVars, workerVars, handlerVars, historyVars
<1>1. ASSUME NEW h \in Handlers, PublishUnconfirmed(h) PROVE AmbiguousIsThere'
  BY <1>1 DEF PublishUnconfirmed, Handoff, Handing, HandlerAt
<1>2. ASSUME ambiguous' = ambiguous,
             \A r \in Receipts : status'[r] = "ABSENT" => status[r] = "ABSENT"
      PROVE  AmbiguousIsThere'
  BY <1>2
<1>3. ASSUME NEW r \in Receipts,
             \/ CreateReceipt(r) \/ PutObject(r) \/ RejectUpload(r) \/ BecomeStale(r)
             \/ \E h \in Handlers : ConfirmUpload(h, r) \/ DeleteObject(h, r)
             \/ \E w \in Workers : Deliver(w, r)
      PROVE  AmbiguousIsThere'
  BY <1>2, <1>3 DEF CreateReceipt, PutObject, RejectUpload, BecomeStale, ConfirmUpload,
                    DeleteObject, Deliver, SetStatus
<1>4. ASSUME NEW h \in Handlers,
             \/ PublishAccepted(h) \/ PublishFails(h) \/ RevertReceipt(h) \/ DeleteFindsRows(h)
             \/ DeleteCommits(h) \/ HandlerDies(h)
      PROVE  AmbiguousIsThere'
  BY <1>2, <1>4 DEF PublishAccepted, PublishFails, RevertReceipt, DeleteFindsRows, DeleteCommits,
                    HandlerDies, SetStatus
<1>5. ASSUME NEW w \in Workers,
             \/ Claim(w) \/ Download(w) \/ SaveTransaction(w) \/ Complete(w)
             \/ ProcessingRaises(w) \/ HandleFailure(w) \/ Acknowledge(w) \/ Requeue(w)
             \/ WorkerDies(w) \/ ConnectionLost(w)
      PROVE  AmbiguousIsThere'
  BY <1>2, <1>5 DEF Claim, Download, SaveTransaction, Complete, ProcessingRaises, HandleFailure,
                    Acknowledge, Requeue, WorkerDies, ConnectionLost, SetStatus, ReconciledStatus
<1>6. CASE UNCHANGED vars
  BY <1>6 DEF vars
<1> QED BY <1>1, <1>3, <1>4, <1>5, <1>6 DEF Next, HandlerStep, WorkerStep

\* One case for each action.
LEMMA StepKept == ASSUME Known, [Next]_vars, NEW r \in Receipts, Within(r) PROVE Within(r)'
<1>1. CASE UNCHANGED vars
  BY <1>1 DEF vars, rowVars, bookVars, workerVars, handlerVars, historyVars, Within, Budget, Used,
              Live, Open, Handing
<1>2. CASE Next
  BY <1>2, RequestKept, PublishKept, JobKept, MessageKept, FailureKept, ClaimKept
     DEF Next, HandlerStep, WorkerStep
<1> QED BY <1>1, <1>2

\* At first each receipt has one message to be sent.
LEMMA InitiallyWithin ==
    ASSUME IsFiniteSet(Workers), Init, NEW r \in Receipts PROVE Within(r)
<1>1. Live(r) = {}
  BY NoneAssumption DEF Init, Live, Idle, At
<1>2. Cardinality(Live(r)) = 0
  BY <1>1, FS_EmptySet
<1>3. /\ Used(r) = MaxRetries - 1 /\ Open(r) = 1 /\ ready[r] = 0 /\ attempt[r] = 0 /\ spent = 0
      /\ MaxRetries \in Nat
  BY MaxRetriesAssumption DEF Init, Used, Open
<1> QED BY <1>2, <1>3 DEF Within, Budget

\* The vision model is called at most MaxRetries times for a receipt, plus once
\* for each crash, lost connection or unconfirmed publish, whatever is retried,
\* redelivered, reverted and confirmed again.
THEOREM AttemptsTheorem == ASSUME IsFiniteSet(Workers) PROVE Spec => []AttemptsPaidFor
<1> DEFINE Inv == AmbiguousIsThere /\ \A r \in Receipts : Within(r)
<1>1. Init => Inv
  <2> SUFFICES ASSUME Init PROVE Inv
    OBVIOUS
  <2>1. AmbiguousIsThere
    BY DEF Init, AmbiguousIsThere
  <2>2. \A r \in Receipts : Within(r)
    BY InitiallyWithin
  <2> QED BY <2>1, <2>2
<1>2. IInv /\ TypeOK' /\ Inv /\ [Next]_vars => Inv'
  <2> SUFFICES ASSUME IInv, TypeOK', Inv, [Next]_vars PROVE Inv'
    OBVIOUS
  <2>1. Known
    BY DEF Known, IInv
  <2>2. AmbiguousIsThere'
    BY <2>1, AmbiguousKept DEF Known
  <2>3. ASSUME NEW r \in Receipts PROVE Within(r)'
    BY <2>1, StepKept
  <2> QED BY <2>2, <2>3
<1>3. Inv => AttemptsPaidFor
  BY DEF Within, AttemptsPaidFor
<1> HIDE DEF Inv
<1> QED BY <1>1, <1>2, <1>3, InductiveInvariant, TypeCorrect, PTL DEF Spec

=============================================================================
