---------------------------- MODULE CommunityProofs ----------------------------
(***************************************************************************)
(* For any number of ids, receipts, concurrent requests and faults: nobody *)
(* is turned away for creating the user second, the user's rows go with    *)
(* it, no later request acts for it, and of its images only those put late *)
(* remain.  And what FeatureRequestsProofs shows of the board holds beside *)
(* the accounts too.                                                       *)
(***************************************************************************)
EXTENDS MCCommunity, TLAPS

-----------------------------------------------------------------------------
(* The inductive invariant.                                                *)

Assumptions == MaxFaultsAssumption /\ NoneAssumption

\* What is put, claimed and booked was created.
Created == objects \subseteq issued /\ jobs \subseteq issued /\ booked \subseteq issued

\* A handler that is to create the user knows of none; once it has inserted one,
\* or met another's, there is a user that was not deleted before it began.
Undecided(x) ==
    /\ x.pc \in {"lookup", "create"} => x.seen = None
    /\ x.pc = "created" => x.seen \in (spent \ x.dead) \cup {None} /\ spent \ x.dead # {}
NobodyYet == \A h \in Handlers : Undecided(handler[h])

\* An id is not given out again: who was deleted is never a user again.
DeadStayDead == \A h \in Handlers : handler[h].dead \subseteq spent \ users

\* A deletion that has listed the images has removed them, but for those put since.
ListedAreLate ==
    \A h \in Handlers : handler[h].pc \in {"listed", "read"} =>
        \A r \in objects : owner[r] = handler[h].seen => r \in late

IInv ==
    /\ TypeOK
    /\ Created
    /\ NobodyYet
    /\ RowsHaveOwner
    /\ DeadStayDead
    /\ NoActingForDeleted
    /\ ListedAreLate
    /\ OnlyLateImagesLeft

-----------------------------------------------------------------------------
(* Steps that change what one handler knows, and nothing in the database.  *)

Frame == [pc : Pc, seen : Ids \cup {None}, dead : SUBSET Ids,
          receipts : SUBSET Receipts, booked : SUBSET Receipts]

\* Such a step keeps the invariant if the handler acts for nobody dead.
LEMMA HandlerStep ==
    ASSUME Assumptions, IInv, NEW h \in Handlers, NEW x \in Frame,
           handler' = [handler EXCEPT ![h] = x],
           UNCHANGED <<spent, rows, objects, jobs, late>>,
           identity' \in BOOLEAN, cache' \in Ids \cup {None}, faults' \in 0..MaxFaults,
           x.dead \subseteq spent \ users,
           x.pc \in Before \/ x.seen \in spent \ x.dead, Undecided(x),
           x.pc \in {"listed", "read"} =>
              handler[h].pc \in {"listed", "read"} /\ x.seen = handler[h].seen
    PROVE  IInv'
<1>1. /\ handler' \in [Handlers -> Frame]
      /\ \A g \in Handlers : handler'[g] = IF g = h THEN x ELSE handler[g]
  BY DEF IInv, TypeOK, Frame
<1>2. TypeOK' /\ Created' /\ RowsHaveOwner' /\ OnlyLateImagesLeft'
  BY <1>1 DEF IInv, TypeOK, Created, RowsHaveOwner, OnlyLateImagesLeft, rows, Frame
<1>3. DeadStayDead'
  BY <1>1 DEF IInv, DeadStayDead, rows
<1>4. NoActingForDeleted' /\ NobodyYet'
  BY <1>1 DEF IInv, NoActingForDeleted, NobodyYet, Undecided, Before
<1>5. ListedAreLate'
  BY <1>1 DEF IInv, ListedAreLate, rows
<1> QED BY <1>2, <1>3, <1>4, <1>5 DEF IInv

\* What a handler's record holds.
LEMMA Frames ==
    ASSUME IInv, NEW h \in Handlers
    PROVE  /\ handler[h] \in Frame
           /\ handler[h].pc \in Pc /\ handler[h].seen \in Ids \cup {None}
           /\ handler[h].dead \subseteq spent \ users
           /\ handler[h].dead \subseteq Ids /\ handler[h].booked \subseteq Receipts
           /\ handler[h].receipts \subseteq Receipts
           /\ handler[h].pc \notin Before => handler[h].seen \in spent \ handler[h].dead
           /\ Undecided(handler[h])
           /\ cache \in Ids \cup {None} /\ identity \in BOOLEAN /\ faults \in 0..MaxFaults
  BY DEF IInv, TypeOK, DeadStayDead, NoActingForDeleted, NobodyYet, Before, Frame

\* An idle handler knows nobody.
LEMMA IdleFrame == Idle \in Frame /\ Idle.pc = "idle" /\ Idle.dead = {} /\ Idle.seen = None
  BY DEF Idle, Frame, Pc

\* A handler that goes on, where it needs no user or already has one.
LEMMA GoesOn ==
    ASSUME Assumptions, IInv, NEW h \in Handlers, NEW pc \in Pc, Goes(h, pc),
           UNCHANGED <<spent, rows, objects, jobs, late>>,
           identity' \in BOOLEAN, cache' \in Ids \cup {None}, faults' \in 0..MaxFaults,
           pc \in Before \/ handler[h].pc \notin Before,
           pc # "created", pc \in {"lookup", "create"} => handler[h].seen = None,
           pc \in {"listed", "read"} => handler[h].pc \in {"listed", "read"}
    PROVE  IInv'
<1> DEFINE x == [handler[h] EXCEPT !.pc = pc]
<1>1. /\ x \in Frame /\ x.pc = pc /\ x.seen = handler[h].seen /\ x.dead = handler[h].dead
  BY Frames DEF Frame
<1>2. handler' = [handler EXCEPT ![h] = x]
  BY DEF Goes, IInv, TypeOK
<1>3. Undecided(x)
  BY <1>1 DEF Undecided
<1> HIDE DEF x
<1> QED BY <1>1, <1>2, <1>3, Frames, HandlerStep

\* A handler that has found a user that exists.
LEMMA FindsUser ==
    ASSUME Assumptions, IInv, NEW h \in Handlers, NEW pc \in {"ready", "caching"},
           NEW u \in users, Finds(h, pc, u),
           UNCHANGED <<identity, spent, rows, cache, objects, jobs, late, faults>>
    PROVE  IInv'
<1> DEFINE x == [handler[h] EXCEPT !.pc = pc, !.seen = u]
<1>1. u \in Ids /\ u \in spent
  BY DEF IInv, TypeOK
<1>2. /\ x \in Frame /\ x.pc = pc /\ x.seen = u /\ x.dead = handler[h].dead
  BY <1>1, Frames DEF Frame, Pc
<1>3. handler' = [handler EXCEPT ![h] = x]
  BY DEF Finds, IInv, TypeOK
<1>4. u \notin handler[h].dead /\ Undecided(x)
  BY <1>2, Frames DEF Undecided
<1> HIDE DEF x
<1> QED BY <1>1, <1>2, <1>3, <1>4, Frames, HandlerStep

\* A request that is answered, or dies.
LEMMA EndsKept ==
    ASSUME Assumptions, IInv, NEW h \in Handlers, Ends(h),
           UNCHANGED <<identity, spent, rows, objects, jobs, late>>,
           cache' \in Ids \cup {None}, faults' \in 0..MaxFaults
    PROVE  IInv'
<1>1. Undecided(Idle)
  BY IdleFrame DEF Undecided
<1> QED BY <1>1, HandlerStep, IdleFrame, Frames DEF Ends, Before

\* The user of the subject, if there is one.
LEMMA SubjectUser == users # {} => BySubject \in users
  BY DEF BySubject

-----------------------------------------------------------------------------
(* get_current_user.                                                       *)

\* A request that begins knows who is gone.
LEMMA BeginKept ==
    ASSUME Assumptions, IInv, NEW h \in Handlers, Begin(h)
    PROVE  IInv'
<1>1. PICK u \in {cache, None} :
        handler' = [handler EXCEPT ![h] = [Idle EXCEPT !.pc = "cached", !.seen = u,
                                                      !.dead = spent \ users]]
  BY DEF Begin
<1> DEFINE x == [Idle EXCEPT !.pc = "cached", !.seen = u, !.dead = spent \ users]
<1>2. u \in Ids \cup {None} /\ spent \ users \subseteq Ids
  BY <1>1, Frames DEF IInv, TypeOK
<1>3. x \in Frame /\ x.pc = "cached" /\ x.dead = spent \ users
  BY <1>2 DEF Idle, Frame, Pc
<1>4. /\ UNCHANGED <<identity, spent, rows, cache, objects, jobs, late, faults>>
      /\ handler' = [handler EXCEPT ![h] = x]
  BY <1>1 DEF Begin
<1>5. Undecided(x)
  BY <1>3 DEF Undecided
<1> HIDE DEF x
<1> QED BY <1>3, <1>4, <1>5, Frames, HandlerStep DEF Before

\* A cached user is taken only if it exists.
LEMMA CheckCachedKept ==
    ASSUME Assumptions, IInv, NEW h \in Handlers, CheckCached(h)
    PROVE  IInv'
<1> DEFINE u == handler[h].seen
           found == IF u \in users THEN u ELSE BySubject
<1>1. UNCHANGED <<identity, spent, rows, cache, objects, jobs, late, faults>>
  BY DEF CheckCached
<1>2. CASE (u = None /\ Goes(h, "lookup")) \/ Goes(h, "stale")
  BY <1>1, <1>2, Frames, GoesOn DEF Pc, Before
<1>3. CASE found # None /\ \E pc \in {"ready", "caching"} : Finds(h, pc, found)
  <2>1. found \in users
    BY <1>3, SubjectUser DEF BySubject
  <2> HIDE DEF found
  <2> QED BY <1>1, <1>3, <2>1, FindsUser
<1> QED BY <1>2, <1>3 DEF CheckCached

\* What is in the cache is not looked at here.
LEMMA DropStaleKept ==
    ASSUME Assumptions, IInv, NEW h \in Handlers, DropStale(h)
    PROVE  IInv'
<1> DEFINE x == [handler[h] EXCEPT !.pc = "lookup", !.seen = None]
<1>1. /\ handler' = [handler EXCEPT ![h] = x] /\ cache' \in Ids \cup {None}
      /\ UNCHANGED <<identity, spent, rows, objects, jobs, late, faults>>
  BY Frames DEF DropStale, MayFail, Finds, IInv, TypeOK
<1>2. x \in Frame /\ x.pc = "lookup" /\ x.seen = None /\ x.dead = handler[h].dead
  BY Frames DEF Frame, Pc
<1>3. Undecided(x)
  BY <1>2 DEF Undecided
<1> HIDE DEF x
<1> QED BY <1>1, <1>2, <1>3, Frames, HandlerStep DEF Before

\* The user that is looked up exists.
LEMMA LookUpKept ==
    ASSUME Assumptions, IInv, NEW h \in Handlers, LookUp(h)
    PROVE  IInv'
<1>1. UNCHANGED <<identity, spent, rows, cache, objects, jobs, late, faults>>
  BY DEF LookUp
<1>2. CASE BySubject = None
  <2>1. Goes(h, "create") /\ handler[h].seen = None
    BY <1>2, Frames DEF LookUp, At, Undecided
  <2> QED BY <1>1, <2>1, Frames, GoesOn DEF Pc, Before
<1>3. CASE BySubject # None
  <2>1. BySubject \in users
    BY <1>3, SubjectUser DEF BySubject
  <2>2. Finds(h, "caching", BySubject)
    BY <1>3 DEF LookUp
  <2> QED BY <1>1, <2>1, <2>2, FindsUser
<1> QED BY <1>2, <1>3

\* A new user has an id that nobody had; who is second knows of none yet.
LEMMA CreateUserKept ==
    ASSUME Assumptions, IInv, NEW h \in Handlers, CreateUser(h)
    PROVE  IInv'
<1>0. handler[h].pc = "create" /\ handler[h].seen = None
  BY Frames DEF CreateUser, At, Undecided
<1>1. CASE users # {}
  <2> DEFINE x == [handler[h] EXCEPT !.pc = "created"]
  <2>1. /\ handler' = [handler EXCEPT ![h] = x]
        /\ UNCHANGED <<identity, spent, rows, cache, objects, jobs, late, faults>>
    BY <1>1 DEF CreateUser, Goes, rows, IInv, TypeOK
  <2>2. x \in Frame /\ x.pc = "created" /\ x.seen = None /\ x.dead = handler[h].dead
    BY <1>0, Frames DEF Frame, Pc
  <2>3. spent \ x.dead # {}
    BY <1>1, <2>2, Frames DEF IInv, TypeOK
  <2>4. Undecided(x)
    BY <2>2, <2>3 DEF Undecided
  <2> HIDE DEF x
  <2> QED BY <2>1, <2>2, <2>4, Frames, HandlerStep DEF Before
<1>2. CASE users = {}
  <2>1. PICK u \in Ids \ spent :
          /\ users' = users \cup {u} /\ spent' = spent \cup {u} /\ Finds(h, "created", u)
          /\ UNCHANGED <<identity, issued, owner, booked, cache, objects, jobs, late, faults>>
    BY <1>2 DEF CreateUser
  <2> DEFINE x == [handler[h] EXCEPT !.pc = "created", !.seen = u]
  <2>2. /\ x \in Frame /\ x.pc = "created" /\ x.seen = u /\ x.dead = handler[h].dead
    BY <2>1, Frames DEF Frame, Pc
  <2>3. handler' = [handler EXCEPT ![h] = x]
    BY <2>1 DEF Finds, IInv, TypeOK
  <2> HIDE DEF x
  <2>4. /\ handler' \in [Handlers -> Frame]
        /\ \A g \in Handlers : handler'[g] = IF g = h THEN x ELSE handler[g]
    BY <2>2, <2>3 DEF IInv, TypeOK, Frame
  <2>5. TypeOK' /\ Created' /\ OnlyLateImagesLeft'
    BY <2>1, <2>4 DEF IInv, TypeOK, Created, OnlyLateImagesLeft, Frame
  <2>6. RowsHaveOwner'
    BY <1>2, <2>1 DEF IInv, RowsHaveOwner
  <2>7. DeadStayDead'
    BY <1>2, <2>1, <2>2, <2>4 DEF IInv, DeadStayDead
  <2>8. NoActingForDeleted'
    BY <2>1, <2>2, <2>4 DEF IInv, NoActingForDeleted, Before
  <2>9. ListedAreLate'
    BY <2>1, <2>2, <2>4 DEF IInv, ListedAreLate
  <2>10. NobodyYet'
    <3>1. u \notin handler[h].dead /\ u \in spent'
      BY <2>1, Frames
    <3> QED BY <2>1, <2>2, <2>4, <3>1 DEF IInv, NobodyYet, Undecided
  <2> QED BY <2>5, <2>6, <2>7, <2>8, <2>9, <2>10 DEF IInv
<1> QED BY <1>1, <1>2

\* Who goes on has a user that exists, its own or the winner's.
LEMMA ReadBackKept ==
    ASSUME Assumptions, IInv, NEW h \in Handlers, ReadBack(h)
    PROVE  IInv'
<1>1. UNCHANGED <<identity, spent, rows, cache, objects, jobs, late, faults>>
  BY DEF ReadBack
<1>2. CASE Ends(h)
  BY <1>1, <1>2, Frames, EndsKept
<1>3. CASE \E found \in users : Finds(h, "caching", found)
  BY <1>1, <1>3, FindsUser
<1>4. Ends(h) \/ \E found \in users : Finds(h, "caching", found)
  BY SubjectUser DEF ReadBack, BySubject
<1> QED BY <1>2, <1>3, <1>4

\* The user is kept in the cache, or not.
LEMMA CacheUserKept ==
    ASSUME Assumptions, IInv, NEW h \in Handlers, CacheUser(h)
    PROVE  IInv'
<1>1. /\ Goes(h, "ready") /\ cache' \in Ids \cup {None} /\ handler[h].pc = "caching"
      /\ UNCHANGED <<identity, spent, rows, objects, jobs, late, faults>>
  BY Frames DEF CacheUser, MayFail, At
<1> QED BY <1>1, Frames, GoesOn DEF Pc, Before

-----------------------------------------------------------------------------
(* The routes.                                                             *)

\* A new receipt has no image yet, and a user that exists.
LEMMA CreateReceiptKept ==
    ASSUME Assumptions, IInv, NEW h \in Handlers, CreateReceipt(h)
    PROVE  IInv'
<1>0. Ends(h) /\ UNCHANGED <<identity, spent, users, booked, cache, objects, jobs, late, faults>>
  BY DEF CreateReceipt
<1>1. CASE UNCHANGED <<issued, owner>>
  BY <1>0, <1>1, Frames, EndsKept DEF rows
<1>2. CASE handler[h].seen \in users
  <2> DEFINE u == handler[h].seen
  <2>1. PICK r \in Receipts \ issued :
          /\ issued' = issued \cup {r}
          /\ owner' = [i \in issued' |-> IF i = r THEN u ELSE owner[i]]
    BY <1>2 DEF CreateReceipt
  <2>2. /\ handler' \in [Handlers -> Frame]
        /\ \A g \in Handlers : handler'[g] = IF g = h THEN Idle ELSE handler[g]
    BY <1>0, IdleFrame DEF Ends, IInv, TypeOK, Frame
  <2>3. /\ \A i \in issued : owner'[i] = owner[i]
        /\ owner'[r] = u /\ u \in Ids
        /\ owner' \in [issued' -> Ids \cup {None}]
    BY <1>2, <2>1 DEF IInv, TypeOK
  <2>4. TypeOK'
    BY <1>0, <2>1, <2>2, <2>3 DEF IInv, TypeOK, Frame
  <2>5. Created'
    BY <1>0, <2>1 DEF IInv, Created
  <2>6. RowsHaveOwner'
    BY <1>0, <1>2, <2>1, <2>3 DEF IInv, RowsHaveOwner, Created
  <2>7. DeadStayDead' /\ NoActingForDeleted' /\ NobodyYet'
    BY <1>0, <2>2, IdleFrame
       DEF IInv, DeadStayDead, NoActingForDeleted, NobodyYet, Undecided, Before
  <2>8. ListedAreLate'
    BY <1>0, <2>2, <2>3, IdleFrame DEF IInv, ListedAreLate, Created
  <2>9. OnlyLateImagesLeft'
    BY <1>0, <2>3 DEF IInv, OnlyLateImagesLeft, Created
  <2> QED BY <2>4, <2>5, <2>6, <2>7, <2>8, <2>9 DEF IInv
<1> QED BY <1>1, <1>2 DEF CreateReceipt

\* The user is only updated.
LEMMA PatchKept ==
    ASSUME Assumptions, IInv, NEW h \in Handlers, PatchMe(h) \/ RefreshCache(h)
    PROVE  IInv'
<1>1. CASE PatchMe(h)
  <2>1. UNCHANGED <<identity, spent, rows, cache, objects, jobs, late, faults>>
        /\ handler[h].pc = "ready" /\ (Goes(h, "changed") \/ Ends(h))
    BY <1>1 DEF PatchMe, At
  <2> QED BY <2>1, Frames, GoesOn, EndsKept DEF Pc, Before
<1>2. CASE RefreshCache(h)
  <2>1. UNCHANGED <<identity, spent, rows, objects, jobs, late, faults>> /\ Ends(h)
        /\ cache' \in Ids \cup {None}
    BY <1>2, Frames DEF RefreshCache, MayFail
  <2> QED BY <2>1, Frames, EndsKept
<1> QED BY <1>1, <1>2

\* No image of the user is left, or the request ends.
LEMMA DeleteImagesKept ==
    ASSUME Assumptions, IInv, NEW h \in Handlers, DeleteImages(h)
    PROVE  IInv'
<1> DEFINE mine == Owned(handler[h].seen)
<1>0. UNCHANGED <<identity, spent, rows, cache, jobs>> /\ handler[h].pc = "ready"
  BY DEF DeleteImages, At
<1>1. PICK gone \in SUBSET mine, x \in Frame :
        /\ objects' = objects \ gone /\ late' = late \ gone
        /\ handler' = [handler EXCEPT ![h] = x]
        /\ \/ x = Idle
           \/ /\ x.seen = handler[h].seen /\ x.dead = handler[h].dead
              /\ x.pc = "listed" /\ gone = mine
        /\ faults' \in 0..MaxFaults
  <2>1. CASE /\ objects' = objects \ mine /\ late' = late \ mine
             /\ Goes(h, "listed") /\ UNCHANGED faults
    <3> DEFINE y == [handler[h] EXCEPT !.pc = "listed"]
    <3>1. /\ y \in Frame /\ y.pc = "listed" /\ y.seen = handler[h].seen
          /\ y.dead = handler[h].dead
      BY Frames DEF Frame, Pc
    <3>2. handler' = [handler EXCEPT ![h] = y]
      BY <2>1 DEF Goes, IInv, TypeOK
    <3> HIDE DEF y
    <3> QED BY <2>1, <3>1, <3>2, Frames
  <2>2. CASE \E kept \in SUBSET mine \ {{}} :
               /\ Fault
               /\ objects' = objects \ (mine \ kept) /\ late' = late \ (mine \ kept)
               /\ Ends(h)
    <3>1. PICK kept \in SUBSET mine \ {{}} :
            /\ Fault
            /\ objects' = objects \ (mine \ kept) /\ late' = late \ (mine \ kept)
            /\ Ends(h)
      BY <2>2
    <3>2. faults' \in 0..MaxFaults
      BY <3>1, Frames DEF Fault, Assumptions, MaxFaultsAssumption
    <3>3. mine \ kept \in SUBSET mine /\ handler' = [handler EXCEPT ![h] = Idle]
      BY <3>1 DEF Ends
    <3> HIDE DEF mine
    <3> QED BY <3>1, <3>2, <3>3, IdleFrame
  <2> QED BY <2>1, <2>2 DEF DeleteImages
<1>2. /\ handler' \in [Handlers -> Frame]
      /\ \A g \in Handlers : handler'[g] = IF g = h THEN x ELSE handler[g]
  BY <1>1 DEF IInv, TypeOK, Frame
<1>3. TypeOK' /\ Created' /\ RowsHaveOwner' /\ OnlyLateImagesLeft'
  BY <1>0, <1>1, <1>2
     DEF IInv, TypeOK, Created, RowsHaveOwner, OnlyLateImagesLeft, rows, Frame
<1>4. DeadStayDead' /\ NoActingForDeleted' /\ NobodyYet'
  BY <1>0, <1>1, <1>2, Frames, IdleFrame
     DEF IInv, DeadStayDead, NoActingForDeleted, NobodyYet, Undecided, rows, Before
<1>5. ListedAreLate'
  BY <1>0, <1>1, <1>2, IdleFrame DEF IInv, ListedAreLate, Created, rows, Owned
<1> QED BY <1>3, <1>4, <1>5 DEF IInv

\* What is read is not changed.
LEMMA ReadIdsKept ==
    ASSUME Assumptions, IInv, NEW h \in Handlers, ReadIds(h)
    PROVE  IInv'
<1> DEFINE mine == Owned(handler[h].seen)
           x == [handler[h] EXCEPT !.pc = "read", !.receipts = mine, !.booked = booked \cap mine]
<1>1. mine \subseteq Receipts /\ handler[h].pc = "listed"
  BY DEF ReadIds, At, Owned, IInv, TypeOK
<1>2. /\ x \in Frame /\ x.pc = "read" /\ x.seen = handler[h].seen /\ x.dead = handler[h].dead
  <2> HIDE DEF mine
  <2> QED BY <1>1, Frames DEF Frame, Pc
<1>3. /\ handler' = [handler EXCEPT ![h] = x]
      /\ UNCHANGED <<identity, spent, rows, cache, objects, jobs, late, faults>>
  BY DEF ReadIds, IInv, TypeOK
<1>4. Undecided(x)
  BY <1>2 DEF Undecided
<1> HIDE DEF x
<1> QED BY <1>1, <1>2, <1>3, <1>4, Frames, HandlerStep DEF Before

\* All rows of the user go, or none does.
LEMMA DeleteRowsKept ==
    ASSUME Assumptions, IInv, NEW h \in Handlers, DeleteRows(h)
    PROVE  IInv'
<1> DEFINE u == handler[h].seen
           mine == Owned(u)
<1>0. /\ UNCHANGED <<identity, spent, cache, objects, jobs, late, faults>>
      /\ handler[h].pc = "read"
  BY DEF DeleteRows, At
<1>1. CASE Ends(h) /\ UNCHANGED rows
  BY <1>0, <1>1, Frames, EndsKept
<1>2. CASE /\ users' = users \ {u}
           /\ owner' = [r \in issued |-> IF r \in mine THEN None ELSE owner[r]]
           /\ booked' = booked \ mine
           /\ UNCHANGED issued
           /\ Goes(h, "deleted")
  <2> DEFINE x == [handler[h] EXCEPT !.pc = "deleted"]
  <2>1. x \in Frame /\ x.pc = "deleted" /\ x.seen = u /\ x.dead = handler[h].dead
    BY Frames DEF Frame, Pc
  <2>2. handler' = [handler EXCEPT ![h] = x]
    BY <1>2 DEF Goes, IInv, TypeOK
  <2> HIDE DEF x
  <2>3. /\ handler' \in [Handlers -> Frame]
        /\ \A g \in Handlers : handler'[g] = IF g = h THEN x ELSE handler[g]
    BY <2>1, <2>2 DEF IInv, TypeOK, Frame
  <2>4. \A r \in issued : owner'[r] = IF owner[r] = u THEN None ELSE owner[r]
    BY <1>2 DEF Owned
  <2>5. TypeOK' /\ Created'
    BY <1>0, <1>2, <2>3 DEF IInv, TypeOK, Created, Frame
  <2>6. RowsHaveOwner'
    BY <1>2, <2>4 DEF IInv, RowsHaveOwner, Created, Owned
  <2>7. DeadStayDead' /\ NoActingForDeleted' /\ NobodyYet'
    BY <1>0, <1>2, <2>1, <2>3, Frames
       DEF IInv, DeadStayDead, NoActingForDeleted, NobodyYet, Undecided, Before
  <2>8. OnlyLateImagesLeft'
    BY <1>0, <2>4 DEF IInv, OnlyLateImagesLeft, ListedAreLate, Created
  <2>9. ListedAreLate'
    <3> SUFFICES ASSUME NEW g \in Handlers, handler'[g].pc \in {"listed", "read"},
                        NEW r \in objects', owner'[r] = handler'[g].seen
                 PROVE  r \in late'
      BY DEF ListedAreLate
    <3>1. handler'[g] = handler[g] /\ r \in objects /\ r \in issued
      BY <1>0, <2>1, <2>3 DEF IInv, Created
    <3>2. CASE owner[r] = u
      BY <1>0, <3>1, <3>2 DEF IInv, ListedAreLate
    <3>3. CASE owner[r] # u
      BY <1>0, <2>4, <3>1, <3>3 DEF IInv, ListedAreLate
    <3> QED BY <3>2, <3>3
  <2> QED BY <2>5, <2>6, <2>7, <2>8, <2>9 DEF IInv
<1> QED BY <1>1, <1>2 DEF DeleteRows

\* Firebase and the cache come last.
LEMMA AfterDeletionKept ==
    ASSUME Assumptions, IInv, NEW h \in Handlers,
           DeleteFirebaseUser(h) \/ InvalidateCache(h) \/ HandlerDies(h)
    PROVE  IInv'
<1>1. CASE DeleteFirebaseUser(h)
  <2>1. /\ UNCHANGED <<spent, rows, cache, objects, jobs, late>>
        /\ handler[h].pc = "deleted" /\ Goes(h, "invalidate")
        /\ identity' \in BOOLEAN /\ (UNCHANGED faults \/ Fault)
    BY <1>1, Frames DEF DeleteFirebaseUser, At
  <2>2. faults' \in 0..MaxFaults
    BY <2>1, Frames DEF Fault, Assumptions, MaxFaultsAssumption
  <2> QED BY <2>1, <2>2, Frames, GoesOn DEF Pc, Before
<1>2. CASE InvalidateCache(h)
  <2>1. UNCHANGED <<identity, spent, rows, objects, jobs, late, faults>> /\ Ends(h)
        /\ cache' \in Ids \cup {None}
    BY <1>2, Frames DEF InvalidateCache, MayFail
  <2> QED BY <2>1, Frames, EndsKept
<1>3. CASE HandlerDies(h)
  <2>1. UNCHANGED <<identity, spent, rows, cache, objects, jobs, late>> /\ Ends(h)
        /\ faults' \in 0..MaxFaults
    BY <1>3, Frames DEF HandlerDies, Fault, Assumptions, MaxFaultsAssumption
  <2> QED BY <2>1, Frames, EndsKept
<1> QED BY <1>1, <1>2, <1>3

-----------------------------------------------------------------------------
(* The world outside.                                                      *)

\* An image put while a deletion runs, or without its receipt, is late.
LEMMA PutImageKept ==
    ASSUME Assumptions, IInv, NEW r \in Receipts, PutImage(r)
    PROVE  IInv'
<1>1. /\ r \in issued /\ objects' = objects \cup {r}
      /\ late' = IF Deleting \/ owner[r] = None THEN late \cup {r} ELSE late
      /\ UNCHANGED <<identity, spent, rows, cache, jobs, handler, faults>>
  BY DEF PutImage
<1>2. TypeOK' /\ Created' /\ RowsHaveOwner' /\ OnlyLateImagesLeft'
  BY <1>1 DEF IInv, TypeOK, Created, RowsHaveOwner, OnlyLateImagesLeft, rows
<1>3. DeadStayDead' /\ NoActingForDeleted' /\ NobodyYet'
  BY <1>1 DEF IInv, DeadStayDead, NoActingForDeleted, NobodyYet, Undecided, rows
<1>4. ListedAreLate'
  BY <1>1 DEF IInv, ListedAreLate, Deleting, rows
<1> QED BY <1>2, <1>3, <1>4 DEF IInv

\* The worker books what has an owner.
LEMMA WorkerKept ==
    ASSUME Assumptions, IInv, NEW r \in Receipts, ClaimReceipt(r) \/ BookReceipt(r)
    PROVE  IInv'
<1>1. /\ UNCHANGED <<identity, spent, users, issued, owner, cache, objects, handler, late, faults>>
      /\ jobs' \subseteq jobs \cup {r} /\ r \in issued
      /\ booked' = booked \/ (booked' = booked \cup {r} /\ owner[r] # None)
  BY DEF ClaimReceipt, BookReceipt, rows, IInv, Created
<1>2. TypeOK' /\ Created' /\ RowsHaveOwner' /\ OnlyLateImagesLeft'
  BY <1>1 DEF IInv, TypeOK, Created, RowsHaveOwner, OnlyLateImagesLeft
<1>3. DeadStayDead' /\ NoActingForDeleted' /\ NobodyYet' /\ ListedAreLate'
  BY <1>1 DEF IInv, DeadStayDead, NoActingForDeleted, NobodyYet, Undecided, ListedAreLate
<1> QED BY <1>2, <1>3 DEF IInv

-----------------------------------------------------------------------------
(* The theorems.                                                           *)

\* At first there is no user, and nobody asks for anything.
LEMMA InitHolds == ASSUME Assumptions PROVE Init => IInv
<1> SUFFICES ASSUME Init PROVE IInv
  OBVIOUS
<1>1. \A h \in Handlers : handler[h] = Idle
  BY DEF Init
<1>2. TypeOK /\ Created /\ RowsHaveOwner /\ OnlyLateImagesLeft
  BY DEF Assumptions, MaxFaultsAssumption, Init, TypeOK, Created, RowsHaveOwner,
         OnlyLateImagesLeft, Idle, Pc
<1>3. DeadStayDead /\ NoActingForDeleted /\ ListedAreLate /\ NobodyYet
  BY <1>1, IdleFrame
     DEF DeadStayDead, NoActingForDeleted, ListedAreLate, NobodyYet, Undecided, Before
<1> QED BY <1>2, <1>3 DEF IInv

\* Every step keeps the invariant.
LEMMA NextKept == ASSUME Assumptions, IInv, [Next]_vars PROVE IInv'
<1>1. CASE UNCHANGED vars
  <2>1. TypeOK' /\ Created' /\ RowsHaveOwner' /\ OnlyLateImagesLeft'
    BY <1>1 DEF vars, rows, IInv, TypeOK, Created, RowsHaveOwner, OnlyLateImagesLeft
  <2>2. NobodyYet' /\ DeadStayDead' /\ NoActingForDeleted' /\ ListedAreLate'
    BY <1>1 DEF vars, rows, IInv, NobodyYet, Undecided, DeadStayDead, NoActingForDeleted,
                ListedAreLate
  <2> QED BY <2>1, <2>2 DEF IInv
<1>2. CASE Next
  <2>1. ASSUME NEW h \in Handlers, Authenticate(h) PROVE IInv'
    BY <2>1, CheckCachedKept, DropStaleKept, LookUpKept, CreateUserKept, ReadBackKept,
       CacheUserKept
       DEF Authenticate
  <2>2. ASSUME NEW h \in Handlers, FinishDeletion(h) PROVE IInv'
    BY <2>2, ReadIdsKept, DeleteRowsKept, AfterDeletionKept DEF FinishDeletion
  <2> QED BY <1>2, <2>1, <2>2, BeginKept, CreateReceiptKept, PatchKept, DeleteImagesKept,
             AfterDeletionKept, PutImageKept, WorkerKept DEF Next
<1> QED BY <1>1, <1>2

\* The invariant holds, on which the theorems below rest.
THEOREM InductiveInvariant == ASSUME Assumptions PROVE Spec => []IInv
<1>1. Init => IInv
  BY InitHolds
<1>2. IInv /\ [Next]_vars => IInv'
  BY NextKept
<1> QED BY <1>1, <1>2, PTL DEF Spec

\* Users, cache, receipts, images, jobs and requests keep their types.
THEOREM AccountTypes == ASSUME Assumptions PROVE Spec => []TypeOK
<1>1. IInv => TypeOK
  BY DEF IInv
<1> QED BY <1>1, InductiveInvariant, PTL

\* Before it has its user, a request that is not killed fails in one place.
LEMMA TurnedAwayAtReadBack ==
    ASSUME Assumptions, IInv, Next, NEW h \in Handlers,
           handler[h].pc \in Before \ {"idle"}, handler'[h].pc = "idle", faults' = faults
    PROVE  ReadBack(h)
<1>0. handler \in [Handlers -> Frame] /\ faults \in Nat
  BY DEF IInv, TypeOK, Frame
<1>1. ASSUME NEW g \in Handlers, Begin(g) PROVE FALSE
  <2>1. PICK x : handler' = [handler EXCEPT ![g] = x] /\ x.pc = "cached" /\ handler[g].pc = "idle"
    BY <1>1 DEF Begin, Idle, At
  <2> QED BY <1>0, <2>1
<1>2. ASSUME NEW g \in Handlers, CheckCached(g) \/ DropStale(g) \/ LookUp(g) \/ CreateUser(g) \/ CacheUser(g)
      PROVE  FALSE
  <2>1. PICK pc \in Pc \ {"idle"} : \E u : Goes(g, pc) \/ Finds(g, pc, u)
    BY <1>2 DEF CheckCached, DropStale, LookUp, CreateUser, CacheUser, Pc
  <2> QED BY <1>0, <2>1 DEF Goes, Finds, Frame
<1>3. ASSUME NEW g \in Handlers, ReadBack(g) PROVE ReadBack(h)
  <2>1. PICK x : handler' = [handler EXCEPT ![g] = x]
    BY <1>3 DEF ReadBack, Ends, Finds
  <2>2. g = h
    BY <1>0, <2>1
  <2> QED BY <1>3, <2>2
<1>4. ASSUME NEW g \in Handlers,
             \/ CreateReceipt(g) \/ PatchMe(g) \/ RefreshCache(g)
             \/ DeleteImages(g) \/ FinishDeletion(g)
      PROVE  FALSE
  <2>1. handler[g].pc \notin Before
    BY <1>4 DEF CreateReceipt, PatchMe, RefreshCache, DeleteImages, FinishDeletion, ReadIds,
                DeleteRows, DeleteFirebaseUser, InvalidateCache, At, Before
  <2>2. PICK x : handler' = [handler EXCEPT ![g] = x]
    BY <1>4 DEF CreateReceipt, PatchMe, RefreshCache, DeleteImages, FinishDeletion, ReadIds,
                DeleteRows, DeleteFirebaseUser, InvalidateCache, Goes, Ends
  <2> QED BY <1>0, <2>1, <2>2
<1>5. ASSUME NEW g \in Handlers, HandlerDies(g) PROVE FALSE
  BY <1>0, <1>5 DEF HandlerDies, Fault
<1>6. ASSUME NEW r \in Receipts, PutImage(r) \/ ClaimReceipt(r) \/ BookReceipt(r) PROVE FALSE
  <2>1. UNCHANGED handler
    BY <1>6 DEF PutImage, ClaimReceipt, BookReceipt
  <2> QED BY <2>1
<1> QED BY <1>1, <1>2, <1>3, <1>4, <1>5, <1>6 DEF Next, Authenticate

\* There, whoever it was to go on with has been deleted since.
LEMMA TurnedAway ==
    ASSUME Assumptions, IInv, NEW h \in Handlers, ReadBack(h), handler'[h].pc = "idle"
    PROVE  spent \ users # handler[h].dead
<1>1. /\ handler[h].pc = "created" /\ users \subseteq spent
      /\ handler[h].seen \in (spent \ handler[h].dead) \cup {None}
      /\ spent \ handler[h].dead # {}
  BY Frames DEF ReadBack, At, Undecided, IInv, TypeOK
<1>2. \A found : Finds(h, "caching", found) => handler'[h].pc = "caching"
  BY DEF Finds, IInv, TypeOK
<1>3. CASE handler[h].seen = None
  <2>1. BySubject = None
    BY <1>2, <1>3 DEF ReadBack
  <2>2. users = {}
    BY <2>1, SubjectUser DEF IInv, TypeOK, Assumptions, NoneAssumption
  <2> QED BY <1>1, <2>2
<1>4. CASE handler[h].seen # None
  <2>1. handler[h].seen \notin users
    BY <1>2, <1>4 DEF ReadBack
  <2> QED BY <1>1, <1>4, <2>1
<1> QED BY <1>3, <1>4

\* Who is second in creating the user goes on with the winner's row, unless an
\* account was deleted since the request began.
THEOREM SignInTheorem == ASSUME Assumptions PROVE Spec => SignInGetsThrough
<1>1. ASSUME IInv, [Next]_vars
      PROVE  [\A h \in Handlers :
                handler[h].pc \in Before \ {"idle"} /\ Ends(h) /\ faults' = faults
                    => spent \ users # handler[h].dead]_vars
  <2> SUFFICES ASSUME Next, NEW h \in Handlers,
                      handler[h].pc \in Before \ {"idle"}, Ends(h), faults' = faults
               PROVE  spent \ users # handler[h].dead
    BY <1>1
  <2>1. handler'[h].pc = "idle"
    BY <1>1, IdleFrame DEF Ends, IInv, TypeOK
  <2> QED BY <1>1, <2>1, TurnedAwayAtReadBack, TurnedAway
<1>2. IInv /\ [Next]_vars
      => [\A h \in Handlers :
            handler[h].pc \in Before \ {"idle"} /\ Ends(h) /\ faults' = faults
                => spent \ users # handler[h].dead]_vars
  BY <1>1
<1> QED BY <1>2, InductiveInvariant, PTL DEF Spec, SignInGetsThrough

\* What is committed while an account is deleted goes with it or stops it.
THEOREM OwnerTheorem == ASSUME Assumptions PROVE Spec => []RowsHaveOwner
<1>1. IInv => RowsHaveOwner
  BY DEF IInv
<1> QED BY <1>1, InductiveInvariant, PTL

\* A request that begins after a deletion never acts for the user it deleted.
THEOREM DeletedTheorem == ASSUME Assumptions PROVE Spec => []NoActingForDeleted
<1>1. IInv => NoActingForDeleted
  BY DEF IInv
<1> QED BY <1>1, InductiveInvariant, PTL

\* Only images put after the deletion listed the receipts are left.
THEOREM ImagesTheorem == ASSUME Assumptions PROVE Spec => []OnlyLateImagesLeft
<1>1. IInv => OnlyLateImagesLeft
  BY DEF IInv
<1> QED BY <1>1, InductiveInvariant, PTL

-----------------------------------------------------------------------------
(* The board beside the accounts.                                          *)

BoardAssumptions == Board!Assumptions

\* A step of the composition is one of the board's or leaves the board alone.
LEMMA BoardKept ==
    ASSUME BoardAssumptions
    PROVE  /\ BothInit => Board!IInv
           /\ Board!IInv /\ [BothNext]_<<part, vars, boardVars>> => Board!IInv'
<1>1. BothInit => Board!IInv
  BY Board!InitHolds DEF BothInit
<1>2. [BothNext]_<<part, vars, boardVars>> => [Board!Next]_Board!vars
  BY DEF BothNext, boardVars, Board!vars
<1> QED BY <1>1, <1>2, Board!NextKept DEF BoardAssumptions

\* Beside the accounts, a request has a public status exactly while it is approved.
THEOREM BothPublicState == ASSUME BoardAssumptions PROVE BothSpec => []PublicStateConsistent
<1>1. Board!IInv => PublicStateConsistent
  BY DEF Board!IInv, PublicStateConsistent
<1> QED BY <1>1, BoardKept, PTL DEF BothSpec

\* Beside the accounts, only its creator votes on a request that was never public.
THEOREM BothOutsiders == ASSUME BoardAssumptions PROVE BothSpec => []OutsidersVoteOnShown
<1>1. Board!IInv => OutsidersVoteOnShown
  BY DEF Board!IInv, OutsidersVoteOnShown
<1> QED BY <1>1, BoardKept, PTL DEF BothSpec

\* Beside the accounts, no request, review or vote refers to someone who has left.
THEOREM BothMembers == ASSUME BoardAssumptions PROVE BothSpec => []BoardRefersToMembers
<1>1. Board!IInv => BoardRefersToMembers
  BY DEF Board!IInv, BoardRefersToMembers
<1> QED BY <1>1, BoardKept, PTL DEF BothSpec

=============================================================================
