----------------------------- MODULE ScanQuotaProofs -----------------------------
(***************************************************************************)
(* Proofs about the scan quota, for any receipts, concurrent requests,     *)
(* limit and window.                                                       *)
(***************************************************************************)
EXTENDS ScanQuota, FiniteSetTheorems, TLAPS

-----------------------------------------------------------------------------
(* The inductive invariant, part by part.                                  *)

\* Requests that hold the user's row, and those that hold their receipt's.
HasUser(h) == handler[h].pc \in {"user"} \cup Verdict
HasReceipt(h) == HasUser(h) \/ handler[h].pc \in {"receipt", "verified"}

\* A lock belongs to the request that is between taking and releasing it, and
\* a locked receipt stays CREATED.
Locks ==
    /\ \A h \in Handlers : HasUser(h) => userLock = h
    /\ \A h \in Handlers : HasReceipt(h) =>
          /\ receiptLock[handler[h].receipt] = h
          /\ status[handler[h].receipt] = "CREATED"

\* A verified object is there until the receipt is handed over, and after.
Objects ==
    /\ \A h \in Handlers :
          HasUser(h) \/ handler[h].pc = "verified"
          => handler[h].receipt \in object \cup deleting
    /\ HandedHasObject

\* Charges lie in the past.
Charges == \A r \in Receipts : uploadedAt[r] < now

\* Whoever was found within the limit still is: the user's row is locked.
Reserved ==
    \A h \in Handlers : handler[h].pc = "within" => Cardinality(InWindow(now)) < Limit

-----------------------------------------------------------------------------
\* Rows, locks and requests stay well formed.
THEOREM TypeCorrect == Spec => []TypeOK
<1>1. Init => TypeOK
  BY MaxTimeAssumption DEF Init, TypeOK, HandlerPc, Idle, NotUploaded
<1>2. TypeOK /\ [Next]_vars => TypeOK'
  <2> SUFFICES ASSUME TypeOK, [Next]_vars PROVE TypeOK'
    OBVIOUS
  <2> USE MaxTimeAssumption, NoneAssumption DEF TypeOK, HandlerPc, Verdict, NotUploaded,
       rowVars, lockVars
  <2>1. ASSUME Tick
        PROVE  TypeOK'
    BY <2>1 DEF Tick, HandlerAt, HandlerIdles, Idle, Release
  <2>2. ASSUME PremiumChanges
        PROVE  TypeOK'
    BY <2>2 DEF PremiumChanges, HandlerAt, HandlerIdles, Idle, Release
  <2>3. ASSUME NEW r \in Receipts, PutObject(r)
        PROVE  TypeOK'
    BY <2>3 DEF PutObject, HandlerAt, HandlerIdles, Idle, Release
  <2>4. ASSUME NEW r \in Receipts, DeleteObject(r)
        PROVE  TypeOK'
    BY <2>4 DEF DeleteObject, HandlerAt, HandlerIdles, Idle, Release
  <2>5. ASSUME NEW r \in Receipts, DeleteRow(r)
        PROVE  TypeOK'
    BY <2>5 DEF DeleteRow, HandlerAt, HandlerIdles, Idle, Release
  <2>6. ASSUME NEW h \in Handlers, NEW r \in Receipts, LockReceipt(h, r)
        PROVE  TypeOK'
    BY <2>6 DEF LockReceipt, HandlerAt, HandlerIdles, Idle, Release
  <2>7. ASSUME NEW h \in Handlers, RejectUpload(h)
        PROVE  TypeOK'
    BY <2>7 DEF RejectUpload, HandlerAt, HandlerIdles, Idle, Release
  <2>8. ASSUME NEW h \in Handlers, Verify(h)
        PROVE  TypeOK'
    BY <2>8 DEF Verify, HandlerAt, HandlerIdles, Idle, Release
  <2>9. ASSUME NEW h \in Handlers, LockUser(h)
        PROVE  TypeOK'
    BY <2>9 DEF LockUser, HandlerAt, HandlerIdles, Idle, Release
  <2>10. ASSUME NEW h \in Handlers, CountScans(h)
        PROVE  TypeOK'
    BY <2>10 DEF CountScans, HandlerAt, HandlerIdles, Idle, Release
  <2>11. ASSUME NEW h \in Handlers, Refuse(h)
        PROVE  TypeOK'
    BY <2>11 DEF Refuse, HandlerAt, HandlerIdles, Idle, Release
  <2>12. ASSUME NEW h \in Handlers, BrokerMissing(h)
        PROVE  TypeOK'
    BY <2>12 DEF BrokerMissing, HandlerAt, HandlerIdles, Idle, Release
  <2>13. ASSUME NEW h \in Handlers, Charge(h)
        PROVE  TypeOK'
    BY <2>13 DEF Charge, HandlerAt, HandlerIdles, Idle, Release
  <2>14. ASSUME NEW h \in Handlers, PublishAccepted(h)
        PROVE  TypeOK'
    <3>1. handler[h].receipt \in charged => uploadedAt[handler[h].receipt] \in Nat
      OBVIOUS
    <3>2. scans' \subseteq Nat
      BY <2>14, <3>1 DEF PublishAccepted
    <3>3. QED
      BY <2>14, <3>2 DEF PublishAccepted, HandlerIdles, Idle
  <2>15. ASSUME NEW h \in Handlers, PublishRaises(h)
        PROVE  TypeOK'
    BY <2>15 DEF PublishRaises, HandlerAt, HandlerIdles, Idle, Release
  <2>16. ASSUME NEW h \in Handlers, Revert(h)
        PROVE  TypeOK'
    BY <2>16 DEF Revert, HandlerAt, HandlerIdles, Idle, Release
  <2>17. ASSUME NEW h \in Handlers, HandlerDies(h)
        PROVE  TypeOK'
    BY <2>17 DEF HandlerDies, HandlerAt, HandlerIdles, Idle, Release
  <2>18. CASE UNCHANGED vars
    BY <2>18 DEF vars
  <2>19. QED
    BY <2>1, <2>2, <2>3, <2>4, <2>5, <2>6, <2>7, <2>8, <2>9, <2>10, <2>11, <2>12, <2>13, <2>14, <2>15, <2>16, <2>17, <2>18
       DEF Next, Proceed, Deliver
<1>3. QED
  BY <1>1, <1>2, PTL DEF Spec

-----------------------------------------------------------------------------
(* Locks and objects.                                                      *)

\* Every step respects the locks.
LEMMA LocksKept == Spec => []Locks
<1>1. Init => Locks
  BY DEF Init, Locks, HasReceipt, HasUser, Verdict, Idle
<1>2. TypeOK /\ Locks /\ [Next]_vars => Locks'
  <2> SUFFICES ASSUME TypeOK, Locks, [Next]_vars PROVE Locks'
    OBVIOUS
  <2> USE NoneAssumption DEF TypeOK, Locks, HasReceipt, HasUser, HandlerPc, Verdict, rowVars,
       lockVars
  <2>1. ASSUME Tick
        PROVE  Locks'
    BY <2>1 DEF Tick, HandlerAt, HandlerIdles, Idle, Release
  <2>2. ASSUME PremiumChanges
        PROVE  Locks'
    BY <2>2 DEF PremiumChanges, HandlerAt, HandlerIdles, Idle, Release
  <2>3. ASSUME NEW r \in Receipts, PutObject(r)
        PROVE  Locks'
    BY <2>3 DEF PutObject, HandlerAt, HandlerIdles, Idle, Release
  <2>4. ASSUME NEW r \in Receipts, DeleteObject(r)
        PROVE  Locks'
    BY <2>4 DEF DeleteObject, HandlerAt, HandlerIdles, Idle, Release
  <2>5. ASSUME NEW r \in Receipts, DeleteRow(r)
        PROVE  Locks'
    BY <2>5 DEF DeleteRow, HandlerAt, HandlerIdles, Idle, Release
  <2>6. ASSUME NEW h \in Handlers, NEW r \in Receipts, LockReceipt(h, r)
        PROVE  Locks'
    BY <2>6 DEF LockReceipt, HandlerAt, HandlerIdles, Idle, Release
  <2>7. ASSUME NEW h \in Handlers, RejectUpload(h)
        PROVE  Locks'
    BY <2>7 DEF RejectUpload, HandlerAt, HandlerIdles, Idle, Release
  <2>8. ASSUME NEW h \in Handlers, Verify(h)
        PROVE  Locks'
    BY <2>8 DEF Verify, HandlerAt, HandlerIdles, Idle, Release
  <2>9. ASSUME NEW h \in Handlers, LockUser(h)
        PROVE  Locks'
    BY <2>9 DEF LockUser, HandlerAt, HandlerIdles, Idle, Release
  <2>10. ASSUME NEW h \in Handlers, CountScans(h)
        PROVE  Locks'
    BY <2>10 DEF CountScans, HandlerAt, HandlerIdles, Idle, Release
  <2>11. ASSUME NEW h \in Handlers, Refuse(h)
        PROVE  Locks'
    BY <2>11 DEF Refuse, HandlerAt, HandlerIdles, Idle, Release
  <2>12. ASSUME NEW h \in Handlers, BrokerMissing(h)
        PROVE  Locks'
    BY <2>12 DEF BrokerMissing, HandlerAt, HandlerIdles, Idle, Release
  <2>13. ASSUME NEW h \in Handlers, Charge(h)
        PROVE  Locks'
    BY <2>13 DEF Charge, HandlerAt, HandlerIdles, Idle, Release
  <2>14. ASSUME NEW h \in Handlers, PublishAccepted(h)
        PROVE  Locks'
    BY <2>14 DEF PublishAccepted, HandlerAt, HandlerIdles, Idle, Release
  <2>15. ASSUME NEW h \in Handlers, PublishRaises(h)
        PROVE  Locks'
    BY <2>15 DEF PublishRaises, HandlerAt, HandlerIdles, Idle, Release
  <2>16. ASSUME NEW h \in Handlers, Revert(h)
        PROVE  Locks'
    BY <2>16 DEF Revert, HandlerAt, HandlerIdles, Idle, Release
  <2>17. ASSUME NEW h \in Handlers, HandlerDies(h)
        PROVE  Locks'
    BY <2>17 DEF HandlerDies, HandlerAt, HandlerIdles, Idle, Release
  <2>18. CASE UNCHANGED vars
    BY <2>18 DEF vars
  <2>19. QED
    BY <2>1, <2>2, <2>3, <2>4, <2>5, <2>6, <2>7, <2>8, <2>9, <2>10, <2>11, <2>12, <2>13, <2>14, <2>15, <2>16, <2>17, <2>18
       DEF Next, Proceed, Deliver
<1>3. QED
  BY TypeCorrect, <1>1, <1>2, PTL DEF Spec

\* Nobody but the request that locks a receipt, or its deletion, removes its
\* object.
LEMMA ObjectsKept == Spec => []Objects
<1>1. Init => Objects
  BY DEF Init, Objects, HasUser, Verdict, Idle, HandedHasObject
<1>2. TypeOK /\ Locks /\ Objects /\ [Next]_vars => Objects'
  <2> SUFFICES ASSUME TypeOK, Locks, Objects, [Next]_vars PROVE Objects'
    OBVIOUS
  <2> USE NoneAssumption DEF TypeOK, Locks, Objects, HandedHasObject, HasReceipt, HasUser,
       HandlerPc, Verdict, rowVars, lockVars
  <2>1. ASSUME Tick
        PROVE  Objects'
    BY <2>1 DEF Tick, HandlerAt, HandlerIdles, Idle, Release
  <2>2. ASSUME PremiumChanges
        PROVE  Objects'
    BY <2>2 DEF PremiumChanges, HandlerAt, HandlerIdles, Idle, Release
  <2>3. ASSUME NEW r \in Receipts, PutObject(r)
        PROVE  Objects'
    BY <2>3 DEF PutObject, HandlerAt, HandlerIdles, Idle, Release
  <2>4. ASSUME NEW r \in Receipts, DeleteObject(r)
        PROVE  Objects'
    BY <2>4 DEF DeleteObject, HandlerAt, HandlerIdles, Idle, Release
  <2>5. ASSUME NEW r \in Receipts, DeleteRow(r)
        PROVE  Objects'
    BY <2>5 DEF DeleteRow, HandlerAt, HandlerIdles, Idle, Release
  <2>6. ASSUME NEW h \in Handlers, NEW r \in Receipts, LockReceipt(h, r)
        PROVE  Objects'
    BY <2>6 DEF LockReceipt, HandlerAt, HandlerIdles, Idle, Release
  <2>7. ASSUME NEW h \in Handlers, RejectUpload(h)
        PROVE  Objects'
    BY <2>7 DEF RejectUpload, HandlerAt, HandlerIdles, Idle, Release
  <2>8. ASSUME NEW h \in Handlers, Verify(h)
        PROVE  Objects'
    BY <2>8 DEF Verify, HandlerAt, HandlerIdles, Idle, Release
  <2>9. ASSUME NEW h \in Handlers, LockUser(h)
        PROVE  Objects'
    BY <2>9 DEF LockUser, HandlerAt, HandlerIdles, Idle, Release
  <2>10. ASSUME NEW h \in Handlers, CountScans(h)
        PROVE  Objects'
    BY <2>10 DEF CountScans, HandlerAt, HandlerIdles, Idle, Release
  <2>11. ASSUME NEW h \in Handlers, Refuse(h)
        PROVE  Objects'
    BY <2>11 DEF Refuse, HandlerAt, HandlerIdles, Idle, Release
  <2>12. ASSUME NEW h \in Handlers, BrokerMissing(h)
        PROVE  Objects'
    BY <2>12 DEF BrokerMissing, HandlerAt, HandlerIdles, Idle, Release
  <2>13. ASSUME NEW h \in Handlers, Charge(h)
        PROVE  Objects'
    BY <2>13 DEF Charge, HandlerAt, HandlerIdles, Idle, Release
  <2>14. ASSUME NEW h \in Handlers, PublishAccepted(h)
        PROVE  Objects'
    BY <2>14 DEF PublishAccepted, HandlerAt, HandlerIdles, Idle, Release
  <2>15. ASSUME NEW h \in Handlers, PublishRaises(h)
        PROVE  Objects'
    BY <2>15 DEF PublishRaises, HandlerAt, HandlerIdles, Idle, Release
  <2>16. ASSUME NEW h \in Handlers, Revert(h)
        PROVE  Objects'
    BY <2>16 DEF Revert, HandlerAt, HandlerIdles, Idle, Release
  <2>17. ASSUME NEW h \in Handlers, HandlerDies(h)
        PROVE  Objects'
    BY <2>17 DEF HandlerDies, HandlerAt, HandlerIdles, Idle, Release
  <2>18. CASE UNCHANGED vars
    BY <2>18 DEF vars
  <2>19. QED
    BY <2>1, <2>2, <2>3, <2>4, <2>5, <2>6, <2>7, <2>8, <2>9, <2>10, <2>11, <2>12, <2>13, <2>14, <2>15, <2>16, <2>17, <2>18
       DEF Next, Proceed, Deliver
<1>3. QED
  BY TypeCorrect, LocksKept, <1>1, <1>2, PTL DEF Spec

\* A receipt in the hands of the worker has its image, unless it is being
\* deleted, whatever other requests refuse at the same time.
THEOREM ObjectTheorem == Spec => []HandedHasObject
<1>1. Objects => HandedHasObject
  BY DEF Objects
<1>2. QED
  BY ObjectsKept, <1>1, PTL

-----------------------------------------------------------------------------
(* The limit.                                                              *)

\* The scans charged on the free plan in the window that begins at t.
ChargedIn(t) == {r \in charged : uploadedAt[r] \in t..(t + Window)}

\* The scans counted are finitely many.
LEMMA WindowIsFinite ==
    ASSUME NEW t
    PROVE  IsFiniteSet(InWindow(t)) /\ Cardinality(InWindow(t)) \in Nat
BY ReceiptsAssumption, FS_Subset, FS_CardinalityType DEF InWindow

\* With fewer scans in the window, there are no more to count.
LEMMA FewerInWindow ==
    ASSUME TypeOK, NEW t \in Nat, Cardinality(ChargedIn(t)) <= Limit,
           NEW S, S \subseteq ChargedIn(t)
    PROVE  Cardinality(S) <= Limit
<1>1. IsFiniteSet(ChargedIn(t))
  BY ReceiptsAssumption, FS_Subset DEF TypeOK, ChargedIn
<1>2. /\ Cardinality(S) <= Cardinality(ChargedIn(t))
      /\ IsFiniteSet(S)
  BY <1>1, FS_Subset
<1>3. Cardinality(S) \in Nat /\ Cardinality(ChargedIn(t)) \in Nat
  BY <1>1, <1>2, FS_CardinalityType
<1>4. QED
  BY <1>2, <1>3, LimitAssumption

\* A verdict stands while the scans in the window only get fewer.
LEMMA WindowShrinks ==
    ASSUME Reserved, InWindow(now)' \subseteq InWindow(now),
           \A g \in Handlers : handler'[g].pc = "within" => handler[g].pc = "within"
    PROVE  Reserved'
<1>1. IsFiniteSet(InWindow(now)) /\ Cardinality(InWindow(now)) \in Nat
  BY WindowIsFinite
<1>2. /\ IsFiniteSet(InWindow(now)')
      /\ Cardinality(InWindow(now)') <= Cardinality(InWindow(now))
  BY <1>1, FS_Subset
<1>3. Cardinality(InWindow(now)') \in Nat
  BY <1>2, FS_CardinalityType
<1>4. QED
  BY <1>1, <1>2, <1>3, LimitAssumption DEF Reserved

\* The limit stands while the charges only get fewer.
LEMMA FewerCharges ==
    ASSUME TypeOK, CountedWithinLimit, now' = now, charged' \subseteq charged,
           \A r \in charged' : uploadedAt'[r] = uploadedAt[r]
    PROVE  CountedWithinLimit'
<1>1. ASSUME NEW t \in 0..now PROVE Cardinality(ChargedIn(t)') <= Limit
  <2>1. ChargedIn(t)' \subseteq ChargedIn(t) /\ t \in Nat
    BY DEF ChargedIn
  <2>2. Cardinality(ChargedIn(t)) <= Limit
    BY DEF CountedWithinLimit, ChargedIn
  <2>3. QED
    BY <2>1, <2>2, FewerInWindow
<1>2. QED
  BY <1>1 DEF CountedWithinLimit, ChargedIn

\* Time goes on after every charge.
LEMMA ChargesKept == Spec => []Charges
<1>1. Init => Charges
  BY DEF Init, Charges, NotUploaded
<1>2. TypeOK /\ Charges /\ [Next]_vars => Charges'
  <2> SUFFICES ASSUME TypeOK, Charges, [Next]_vars PROVE Charges'
    OBVIOUS
  <2> USE MaxTimeAssumption DEF TypeOK, Charges, NotUploaded, rowVars
  <2>1. ASSUME Tick
        PROVE  Charges'
    BY <2>1 DEF Tick, HandlerAt, HandlerIdles, Idle, Release
  <2>2. ASSUME PremiumChanges
        PROVE  Charges'
    BY <2>2 DEF PremiumChanges, HandlerAt, HandlerIdles, Idle, Release
  <2>3. ASSUME NEW r \in Receipts, PutObject(r)
        PROVE  Charges'
    BY <2>3 DEF PutObject, HandlerAt, HandlerIdles, Idle, Release
  <2>4. ASSUME NEW r \in Receipts, DeleteObject(r)
        PROVE  Charges'
    BY <2>4 DEF DeleteObject, HandlerAt, HandlerIdles, Idle, Release
  <2>5. ASSUME NEW r \in Receipts, DeleteRow(r)
        PROVE  Charges'
    BY <2>5 DEF DeleteRow, HandlerAt, HandlerIdles, Idle, Release
  <2>6. ASSUME NEW h \in Handlers, NEW r \in Receipts, LockReceipt(h, r)
        PROVE  Charges'
    BY <2>6 DEF LockReceipt, HandlerAt, HandlerIdles, Idle, Release
  <2>7. ASSUME NEW h \in Handlers, RejectUpload(h)
        PROVE  Charges'
    BY <2>7 DEF RejectUpload, HandlerAt, HandlerIdles, Idle, Release
  <2>8. ASSUME NEW h \in Handlers, Verify(h)
        PROVE  Charges'
    BY <2>8 DEF Verify, HandlerAt, HandlerIdles, Idle, Release
  <2>9. ASSUME NEW h \in Handlers, LockUser(h)
        PROVE  Charges'
    BY <2>9 DEF LockUser, HandlerAt, HandlerIdles, Idle, Release
  <2>10. ASSUME NEW h \in Handlers, CountScans(h)
        PROVE  Charges'
    BY <2>10 DEF CountScans, HandlerAt, HandlerIdles, Idle, Release
  <2>11. ASSUME NEW h \in Handlers, Refuse(h)
        PROVE  Charges'
    BY <2>11 DEF Refuse, HandlerAt, HandlerIdles, Idle, Release
  <2>12. ASSUME NEW h \in Handlers, BrokerMissing(h)
        PROVE  Charges'
    BY <2>12 DEF BrokerMissing, HandlerAt, HandlerIdles, Idle, Release
  <2>13. ASSUME NEW h \in Handlers, Charge(h)
        PROVE  Charges'
    BY <2>13 DEF Charge, HandlerAt, HandlerIdles, Idle, Release
  <2>14. ASSUME NEW h \in Handlers, PublishAccepted(h)
        PROVE  Charges'
    BY <2>14 DEF PublishAccepted, HandlerAt, HandlerIdles, Idle, Release
  <2>15. ASSUME NEW h \in Handlers, PublishRaises(h)
        PROVE  Charges'
    BY <2>15 DEF PublishRaises, HandlerAt, HandlerIdles, Idle, Release
  <2>16. ASSUME NEW h \in Handlers, Revert(h)
        PROVE  Charges'
    BY <2>16 DEF Revert, HandlerAt, HandlerIdles, Idle, Release
  <2>17. ASSUME NEW h \in Handlers, HandlerDies(h)
        PROVE  Charges'
    BY <2>17 DEF HandlerDies, HandlerAt, HandlerIdles, Idle, Release
  <2>18. CASE UNCHANGED vars
    BY <2>18 DEF vars
  <2>19. QED
    BY <2>1, <2>2, <2>3, <2>4, <2>5, <2>6, <2>7, <2>8, <2>9, <2>10, <2>11, <2>12, <2>13, <2>14, <2>15, <2>16, <2>17, <2>18
       DEF Next, Proceed, Deliver
<1>3. QED
  BY TypeCorrect, <1>1, <1>2, PTL DEF Spec

\* No charge comes between a verdict and the charge it allows.
LEMMA ReservedKept == Spec => []Reserved
<1>1. Init => Reserved
  BY DEF Init, Reserved, Idle
<1>2. TypeOK /\ Locks /\ Charges /\ Reserved /\ [Next]_vars => Reserved'
  <2> SUFFICES ASSUME TypeOK, Locks, Charges, Reserved, [Next]_vars PROVE Reserved'
    OBVIOUS
  <2> USE MaxTimeAssumption, WindowAssumption DEF TypeOK, NotUploaded, rowVars
  <2>1. ASSUME Tick
        PROVE  Reserved'
    <3>1. InWindow(now)' \subseteq InWindow(now)
      BY <2>1 DEF Tick, InWindow, Charges
    <3>2. \A g \in Handlers : handler'[g].pc = "within" => handler[g].pc = "within"
      BY <2>1 DEF Tick, HandlerAt, HandlerIdles, Idle
    <3>3. QED
      BY <3>1, <3>2, WindowShrinks
  <2>2. ASSUME PremiumChanges
        PROVE  Reserved'
    <3>1. InWindow(now)' \subseteq InWindow(now)
      BY <2>2 DEF PremiumChanges, InWindow
    <3>2. \A g \in Handlers : handler'[g].pc = "within" => handler[g].pc = "within"
      BY <2>2 DEF PremiumChanges, HandlerAt, HandlerIdles, Idle
    <3>3. QED
      BY <3>1, <3>2, WindowShrinks
  <2>3. ASSUME NEW r \in Receipts, PutObject(r)
        PROVE  Reserved'
    <3>1. InWindow(now)' \subseteq InWindow(now)
      BY <2>3 DEF PutObject, InWindow
    <3>2. \A g \in Handlers : handler'[g].pc = "within" => handler[g].pc = "within"
      BY <2>3 DEF PutObject, HandlerAt, HandlerIdles, Idle
    <3>3. QED
      BY <3>1, <3>2, WindowShrinks
  <2>4. ASSUME NEW r \in Receipts, DeleteObject(r)
        PROVE  Reserved'
    <3>1. InWindow(now)' \subseteq InWindow(now)
      BY <2>4 DEF DeleteObject, InWindow
    <3>2. \A g \in Handlers : handler'[g].pc = "within" => handler[g].pc = "within"
      BY <2>4 DEF DeleteObject, HandlerAt, HandlerIdles, Idle
    <3>3. QED
      BY <3>1, <3>2, WindowShrinks
  <2>5. ASSUME NEW r \in Receipts, DeleteRow(r)
        PROVE  Reserved'
    <3>1. InWindow(now)' \subseteq InWindow(now)
      BY <2>5 DEF DeleteRow, InWindow
    <3>2. \A g \in Handlers : handler'[g].pc = "within" => handler[g].pc = "within"
      BY <2>5 DEF DeleteRow, HandlerAt, HandlerIdles, Idle
    <3>3. QED
      BY <3>1, <3>2, WindowShrinks
  <2>6. ASSUME NEW h \in Handlers, NEW r \in Receipts, LockReceipt(h, r)
        PROVE  Reserved'
    <3>1. InWindow(now)' \subseteq InWindow(now)
      BY <2>6 DEF LockReceipt, InWindow
    <3>2. \A g \in Handlers : handler'[g].pc = "within" => handler[g].pc = "within"
      BY <2>6 DEF LockReceipt, HandlerAt, HandlerIdles, Idle
    <3>3. QED
      BY <3>1, <3>2, WindowShrinks
  <2>7. ASSUME NEW h \in Handlers, RejectUpload(h)
        PROVE  Reserved'
    <3>1. InWindow(now)' \subseteq InWindow(now)
      BY <2>7 DEF RejectUpload, InWindow
    <3>2. \A g \in Handlers : handler'[g].pc = "within" => handler[g].pc = "within"
      BY <2>7 DEF RejectUpload, HandlerAt, HandlerIdles, Idle
    <3>3. QED
      BY <3>1, <3>2, WindowShrinks
  <2>8. ASSUME NEW h \in Handlers, Verify(h)
        PROVE  Reserved'
    <3>1. InWindow(now)' \subseteq InWindow(now)
      BY <2>8 DEF Verify, InWindow
    <3>2. \A g \in Handlers : handler'[g].pc = "within" => handler[g].pc = "within"
      BY <2>8 DEF Verify, HandlerAt, HandlerIdles, Idle
    <3>3. QED
      BY <3>1, <3>2, WindowShrinks
  <2>9. ASSUME NEW h \in Handlers, LockUser(h)
        PROVE  Reserved'
    <3>1. InWindow(now)' \subseteq InWindow(now)
      BY <2>9 DEF LockUser, InWindow
    <3>2. \A g \in Handlers : handler'[g].pc = "within" => handler[g].pc = "within"
      BY <2>9 DEF LockUser, HandlerAt, HandlerIdles, Idle
    <3>3. QED
      BY <3>1, <3>2, WindowShrinks
  <2>10. ASSUME NEW h \in Handlers, CountScans(h)
        PROVE  Reserved'
    <3>1. InWindow(now)' = InWindow(now)
      BY <2>10 DEF CountScans, InWindow
    <3>2. Cardinality(InWindow(now)) \in Nat
      BY WindowIsFinite
    <3>3. ASSUME NEW g \in Handlers, handler'[g].pc = "within"
          PROVE  Cardinality(InWindow(now)) < Limit
      <4>1. CASE g = h
        <5>1. ~ (Cardinality(InWindow(now)) >= Limit)
          BY <2>10, <3>3, <4>1 DEF CountScans, HandlerAt
        <5>2. QED
          BY <3>2, <5>1, LimitAssumption
      <4>2. CASE g # h
        BY <2>10, <3>3, <4>2 DEF CountScans, HandlerAt, Reserved
      <4>3. QED
        BY <4>1, <4>2
    <3>4. QED
      BY <3>1, <3>3 DEF Reserved
  <2>11. ASSUME NEW h \in Handlers, Refuse(h)
        PROVE  Reserved'
    <3>1. InWindow(now)' \subseteq InWindow(now)
      BY <2>11 DEF Refuse, InWindow
    <3>2. \A g \in Handlers : handler'[g].pc = "within" => handler[g].pc = "within"
      BY <2>11 DEF Refuse, HandlerAt, HandlerIdles, Idle
    <3>3. QED
      BY <3>1, <3>2, WindowShrinks
  <2>12. ASSUME NEW h \in Handlers, BrokerMissing(h)
        PROVE  Reserved'
    <3>1. InWindow(now)' \subseteq InWindow(now)
      BY <2>12 DEF BrokerMissing, InWindow
    <3>2. \A g \in Handlers : handler'[g].pc = "within" => handler[g].pc = "within"
      BY <2>12 DEF BrokerMissing, HandlerAt, HandlerIdles, Idle
    <3>3. QED
      BY <3>1, <3>2, WindowShrinks
  <2>13. ASSUME NEW h \in Handlers, Charge(h)
        PROVE  Reserved'
    <3>1. \A g \in Handlers : handler'[g].pc # "within"
      BY <2>13 DEF Charge, HandlerAt, Locks, HasUser, HasReceipt, Verdict
    <3>2. QED
      BY <3>1 DEF Reserved
  <2>14. ASSUME NEW h \in Handlers, PublishAccepted(h)
        PROVE  Reserved'
    <3>1. InWindow(now)' \subseteq InWindow(now)
      BY <2>14 DEF PublishAccepted, InWindow
    <3>2. \A g \in Handlers : handler'[g].pc = "within" => handler[g].pc = "within"
      BY <2>14 DEF PublishAccepted, HandlerAt, HandlerIdles, Idle
    <3>3. QED
      BY <3>1, <3>2, WindowShrinks
  <2>15. ASSUME NEW h \in Handlers, PublishRaises(h)
        PROVE  Reserved'
    <3>1. InWindow(now)' \subseteq InWindow(now)
      BY <2>15 DEF PublishRaises, InWindow
    <3>2. \A g \in Handlers : handler'[g].pc = "within" => handler[g].pc = "within"
      BY <2>15 DEF PublishRaises, HandlerAt, HandlerIdles, Idle
    <3>3. QED
      BY <3>1, <3>2, WindowShrinks
  <2>16. ASSUME NEW h \in Handlers, Revert(h)
        PROVE  Reserved'
    <3>1. InWindow(now)' \subseteq InWindow(now)
      BY <2>16 DEF Revert, InWindow
    <3>2. \A g \in Handlers : handler'[g].pc = "within" => handler[g].pc = "within"
      BY <2>16 DEF Revert, HandlerAt, HandlerIdles, Idle
    <3>3. QED
      BY <3>1, <3>2, WindowShrinks
  <2>17. ASSUME NEW h \in Handlers, HandlerDies(h)
        PROVE  Reserved'
    <3>1. InWindow(now)' \subseteq InWindow(now)
      BY <2>17 DEF HandlerDies, InWindow
    <3>2. \A g \in Handlers : handler'[g].pc = "within" => handler[g].pc = "within"
      BY <2>17 DEF HandlerDies, HandlerAt, HandlerIdles, Idle
    <3>3. QED
      BY <3>1, <3>2, WindowShrinks
  <2>18. CASE UNCHANGED vars
    BY <2>18 DEF vars, Reserved, InWindow
  <2>19. QED
    BY <2>1, <2>2, <2>3, <2>4, <2>5, <2>6, <2>7, <2>8, <2>9, <2>10, <2>11, <2>12, <2>13, <2>14, <2>15, <2>16, <2>17, <2>18
       DEF Next, Proceed, Deliver
<1>3. QED
  BY TypeCorrect, LocksKept, ChargesKept, <1>1, <1>2, PTL DEF Spec

\* However many confirms run at once, in any rolling window the scans a user
\* is charged for on the free plan stay within the limit.
THEOREM QuotaTheorem == Spec => []CountedWithinLimit
<1>1. Init => CountedWithinLimit
  <2> SUFFICES ASSUME Init, NEW t \in 0..now
               PROVE  Cardinality({r \in charged : uploadedAt[r] \in t..(t + Window)}) <= Limit
    BY DEF CountedWithinLimit
  <2>1. {r \in charged : uploadedAt[r] \in t..(t + Window)} = {}
    BY DEF Init
  <2>2. QED
    BY <2>1, FS_EmptySet, LimitAssumption
<1>2. /\ TypeOK /\ Locks /\ Charges /\ Reserved /\ CountedWithinLimit /\ [Next]_vars
      => CountedWithinLimit'
  <2> SUFFICES ASSUME TypeOK, Locks, Charges, Reserved, CountedWithinLimit, [Next]_vars
               PROVE  CountedWithinLimit'
    OBVIOUS
  <2> USE MaxTimeAssumption DEF TypeOK, NotUploaded, rowVars
  <2>1. ASSUME Tick
        PROVE  CountedWithinLimit'
    <3>1. /\ UNCHANGED <<charged, uploadedAt>> /\ now' = now + 1
      BY <2>1 DEF Tick
    <3>2. ASSUME NEW t \in 0..now'
          PROVE  Cardinality(ChargedIn(t))' <= Limit
      <4>1. CASE t \in 0..now
        BY <3>1, <4>1 DEF CountedWithinLimit, ChargedIn
      <4>2. CASE t = now + 1
        <5>1. ChargedIn(t)' = {}
          BY <3>1, <4>2 DEF ChargedIn, Charges
        <5>2. QED
          BY <5>1, FS_EmptySet, LimitAssumption
      <4>3. QED
        BY <3>1, <4>1, <4>2
    <3>3. QED
      BY <3>2 DEF CountedWithinLimit, ChargedIn
  <2>2. ASSUME PremiumChanges
        PROVE  CountedWithinLimit'
    <3>1. /\ charged' \subseteq charged
          /\ \A r0 \in charged' : uploadedAt'[r0] = uploadedAt[r0]
          /\ now' = now
      BY <2>2 DEF PremiumChanges
    <3>2. QED
      BY <3>1, FewerCharges
  <2>3. ASSUME NEW r \in Receipts, PutObject(r)
        PROVE  CountedWithinLimit'
    <3>1. /\ charged' \subseteq charged
          /\ \A r0 \in charged' : uploadedAt'[r0] = uploadedAt[r0]
          /\ now' = now
      BY <2>3 DEF PutObject
    <3>2. QED
      BY <3>1, FewerCharges
  <2>4. ASSUME NEW r \in Receipts, DeleteObject(r)
        PROVE  CountedWithinLimit'
    <3>1. /\ charged' \subseteq charged
          /\ \A r0 \in charged' : uploadedAt'[r0] = uploadedAt[r0]
          /\ now' = now
      BY <2>4 DEF DeleteObject
    <3>2. QED
      BY <3>1, FewerCharges
  <2>5. ASSUME NEW r \in Receipts, DeleteRow(r)
        PROVE  CountedWithinLimit'
    <3>1. /\ charged' \subseteq charged
          /\ \A r0 \in charged' : uploadedAt'[r0] = uploadedAt[r0]
          /\ now' = now
      BY <2>5 DEF DeleteRow
    <3>2. QED
      BY <3>1, FewerCharges
  <2>6. ASSUME NEW h \in Handlers, NEW r \in Receipts, LockReceipt(h, r)
        PROVE  CountedWithinLimit'
    <3>1. /\ charged' \subseteq charged
          /\ \A r0 \in charged' : uploadedAt'[r0] = uploadedAt[r0]
          /\ now' = now
      BY <2>6 DEF LockReceipt
    <3>2. QED
      BY <3>1, FewerCharges
  <2>7. ASSUME NEW h \in Handlers, RejectUpload(h)
        PROVE  CountedWithinLimit'
    <3>1. /\ charged' \subseteq charged
          /\ \A r0 \in charged' : uploadedAt'[r0] = uploadedAt[r0]
          /\ now' = now
      BY <2>7 DEF RejectUpload
    <3>2. QED
      BY <3>1, FewerCharges
  <2>8. ASSUME NEW h \in Handlers, Verify(h)
        PROVE  CountedWithinLimit'
    <3>1. /\ charged' \subseteq charged
          /\ \A r0 \in charged' : uploadedAt'[r0] = uploadedAt[r0]
          /\ now' = now
      BY <2>8 DEF Verify
    <3>2. QED
      BY <3>1, FewerCharges
  <2>9. ASSUME NEW h \in Handlers, LockUser(h)
        PROVE  CountedWithinLimit'
    <3>1. /\ charged' \subseteq charged
          /\ \A r0 \in charged' : uploadedAt'[r0] = uploadedAt[r0]
          /\ now' = now
      BY <2>9 DEF LockUser
    <3>2. QED
      BY <3>1, FewerCharges
  <2>10. ASSUME NEW h \in Handlers, CountScans(h)
        PROVE  CountedWithinLimit'
    <3>1. /\ charged' \subseteq charged
          /\ \A r0 \in charged' : uploadedAt'[r0] = uploadedAt[r0]
          /\ now' = now
      BY <2>10 DEF CountScans
    <3>2. QED
      BY <3>1, FewerCharges
  <2>11. ASSUME NEW h \in Handlers, Refuse(h)
        PROVE  CountedWithinLimit'
    <3>1. /\ charged' \subseteq charged
          /\ \A r0 \in charged' : uploadedAt'[r0] = uploadedAt[r0]
          /\ now' = now
      BY <2>11 DEF Refuse
    <3>2. QED
      BY <3>1, FewerCharges
  <2>12. ASSUME NEW h \in Handlers, BrokerMissing(h)
        PROVE  CountedWithinLimit'
    <3>1. /\ charged' \subseteq charged
          /\ \A r0 \in charged' : uploadedAt'[r0] = uploadedAt[r0]
          /\ now' = now
      BY <2>12 DEF BrokerMissing
    <3>2. QED
      BY <3>1, FewerCharges
  <2>13. ASSUME NEW h \in Handlers, Charge(h)
        PROVE  CountedWithinLimit'
    <3> DEFINE r == handler[h].receipt
    <3>1. /\ r \in Receipts /\ r \notin charged
          /\ now' = now + 1 /\ uploadedAt' = [uploadedAt EXCEPT ![r] = now]
          /\ charged' \subseteq charged \cup {r}
      BY <2>13 DEF Charge, Locks, HasReceipt, HasUser, Verdict
    <3>2. handler[h].pc # "within" => charged' = charged
      BY <2>13 DEF Charge
    <3>3. ASSUME NEW t \in 0..now'
          PROVE  Cardinality(ChargedIn(t))' <= Limit
      <4>1. CASE r \notin ChargedIn(t)'
        <5>1. ChargedIn(t)' \subseteq {r0 \in charged : uploadedAt[r0] \in t..(t + Window)}
          BY <3>1, <4>1 DEF ChargedIn
        <5>2. CASE t \in 0..now
          <6>1. Cardinality(ChargedIn(t)) <= Limit
            BY <5>2 DEF CountedWithinLimit, ChargedIn
          <6>2. ChargedIn(t)' \subseteq ChargedIn(t) /\ t \in Nat
            BY <5>1, <5>2 DEF ChargedIn
          <6>3. QED
            BY <6>1, <6>2, FewerInWindow
        <5>3. CASE t = now + 1
          <6>1. ChargedIn(t)' = {}
            BY <5>1, <5>3 DEF Charges
          <6>2. QED
            BY <6>1, FS_EmptySet, LimitAssumption
        <5>4. QED
          BY <3>1, <5>2, <5>3
      <4>2. CASE r \in ChargedIn(t)'
        <5>1. handler[h].pc = "within" /\ t \in Nat /\ t <= now /\ now <= t + Window
          BY <3>1, <3>2, <4>2, WindowAssumption DEF ChargedIn
        <5>2. ChargedIn(t)' \subseteq InWindow(now) \cup {r}
          BY <3>1, <5>1, WindowAssumption DEF ChargedIn, InWindow, Charges
        <5>3. Cardinality(InWindow(now)) < Limit
          BY <5>1 DEF Reserved
        <5>4. /\ IsFiniteSet(InWindow(now) \cup {r})
              /\ Cardinality(InWindow(now) \cup {r}) <= Cardinality(InWindow(now)) + 1
          <6>1. IsFiniteSet(InWindow(now)) /\ Cardinality(InWindow(now)) \in Nat
            BY WindowIsFinite
          <6> HIDE DEF r
          <6>2. /\ IsFiniteSet(InWindow(now) \cup {r})
                /\ \/ Cardinality(InWindow(now) \cup {r}) = Cardinality(InWindow(now))
                   \/ Cardinality(InWindow(now) \cup {r}) = Cardinality(InWindow(now)) + 1
            BY <6>1, FS_AddElement
          <6>3. QED
            BY <6>1, <6>2
        <5>5. Cardinality(ChargedIn(t)') <= Cardinality(InWindow(now) \cup {r})
          BY <5>2, <5>4, FS_Subset
        <5>6. Cardinality(ChargedIn(t)') \in Nat /\ Cardinality(InWindow(now) \cup {r}) \in Nat
          BY <5>2, <5>4, FS_Subset, FS_CardinalityType
        <5>7. QED
          BY <5>3, <5>4, <5>5, <5>6, WindowIsFinite, LimitAssumption
      <4>3. QED
        BY <4>1, <4>2
    <3>4. QED
      BY <3>3 DEF CountedWithinLimit, ChargedIn
  <2>14. ASSUME NEW h \in Handlers, PublishAccepted(h)
        PROVE  CountedWithinLimit'
    <3>1. /\ charged' \subseteq charged
          /\ \A r0 \in charged' : uploadedAt'[r0] = uploadedAt[r0]
          /\ now' = now
      BY <2>14 DEF PublishAccepted
    <3>2. QED
      BY <3>1, FewerCharges
  <2>15. ASSUME NEW h \in Handlers, PublishRaises(h)
        PROVE  CountedWithinLimit'
    <3>1. /\ charged' \subseteq charged
          /\ \A r0 \in charged' : uploadedAt'[r0] = uploadedAt[r0]
          /\ now' = now
      BY <2>15 DEF PublishRaises
    <3>2. QED
      BY <3>1, FewerCharges
  <2>16. ASSUME NEW h \in Handlers, Revert(h)
        PROVE  CountedWithinLimit'
    <3>1. /\ charged' \subseteq charged
          /\ \A r0 \in charged' : uploadedAt'[r0] = uploadedAt[r0]
          /\ now' = now
      BY <2>16 DEF Revert
    <3>2. QED
      BY <3>1, FewerCharges
  <2>17. ASSUME NEW h \in Handlers, HandlerDies(h)
        PROVE  CountedWithinLimit'
    <3>1. /\ charged' \subseteq charged
          /\ \A r0 \in charged' : uploadedAt'[r0] = uploadedAt[r0]
          /\ now' = now
      BY <2>17 DEF HandlerDies
    <3>2. QED
      BY <3>1, FewerCharges
  <2>18. CASE UNCHANGED vars
    <3>1. /\ charged' \subseteq charged
          /\ \A r0 \in charged' : uploadedAt'[r0] = uploadedAt[r0]
          /\ now' = now
      BY <2>18 DEF vars
    <3>2. QED
      BY <3>1, FewerCharges
  <2>19. QED
    BY <2>1, <2>2, <2>3, <2>4, <2>5, <2>6, <2>7, <2>8, <2>9, <2>10, <2>11, <2>12, <2>13, <2>14, <2>15, <2>16, <2>17, <2>18
       DEF Next, Proceed, Deliver
<1>3. QED
  BY TypeCorrect, LocksKept, ChargesKept, ReservedKept, <1>1, <1>2, PTL DEF Spec
=============================================================================
