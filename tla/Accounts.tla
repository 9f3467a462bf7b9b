------------------------------- MODULE Accounts -------------------------------
(***************************************************************************)
(* One person's account: how a request finds or creates its user           *)
(* (backend/app/auth/deps.py) through the cache in Redis                   *)
(* (backend/app/cache/user_cache.py), and how the account is deleted       *)
(* (delete_me in backend/app/api/routers/users.py and                      *)
(* backend/app/services/account_deletion.py) while other requests, the     *)
(* client's uploads and the worker go on.                                  *)
(*                                                                         *)
(* A handler gives way at an await, and the handlers of two API processes  *)
(* fall between each other anywhere, so a step is one read, one commit or  *)
(* one call to Redis, Firebase or the object store.                        *)
(***************************************************************************)
EXTENDS Naturals

CONSTANTS
    Ids,       \* users.id, each given out once
    Receipts,  \* ids of receipts, each with its image
    Handlers,  \* concurrent requests with this person's token
    MaxFaults, \* how many calls fail or handlers die
    None

\* What is taken of the constants; the instance for TLC assumes it.
MaxFaultsAssumption == MaxFaults \in Nat
NoneAssumption == None \notin Ids

VARIABLES
    identity,  \* the Firebase user exists
    users,     \* ids in the users table with this auth_subject
    spent,     \* ids that have been given to a user
    cache,     \* the user under this auth_subject's key in Redis
    issued,    \* receipts that were created: the client has their upload URL
    owner,     \* receipts.user_id, None without a row
    objects,   \* receipts whose image is in the object store
    jobs,      \* receipts that the worker has claimed
    booked,    \* receipts with a transaction
    handler,   \* what each request is doing
    late,      \* history: images put after the deletion that would remove them
               \* listed the receipts
    faults

rows == <<users, issued, owner, booked>>
vars == <<identity, spent, rows, cache, objects, jobs, handler, late, faults>>

-----------------------------------------------------------------------------
\* get_current_user, then the route: a plain write, patch_me or delete_me.
\* "seen" is the user the handler has found or inserted; "dead" the ids whose
\* user was deleted before the request began; "receipts" and "booked" are what
\* delete_me has read.
Pc == {"idle", "cached", "stale", "lookup", "create", "created", "caching", "ready",
       "changed", "listed", "read", "deleted", "invalidate"}

Idle == [pc |-> "idle", seen |-> None, dead |-> {}, receipts |-> {}, booked |-> {}]

TypeOK ==
    /\ identity \in BOOLEAN
    /\ users \subseteq spent /\ spent \subseteq Ids
    /\ cache \in Ids \cup {None}
    /\ issued \subseteq Receipts
    /\ owner \in [issued -> Ids \cup {None}]
    /\ objects \subseteq Receipts /\ jobs \subseteq Receipts /\ late \subseteq Receipts
    /\ booked \subseteq Receipts
    /\ handler \in [Handlers -> [pc : Pc, seen : Ids \cup {None}, dead : SUBSET Ids,
                                 receipts : SUBSET Receipts, booked : SUBSET Receipts]]
    /\ faults \in 0..MaxFaults

Init ==
    /\ identity = TRUE
    /\ users = {} /\ spent = {}
    /\ cache = None
    /\ issued = {} /\ owner = [r \in {} |-> None]
    /\ objects = {} /\ jobs = {} /\ booked = {}
    /\ handler = [h \in Handlers |-> Idle]
    /\ late = {}
    /\ faults = 0

-----------------------------------------------------------------------------
(* Helpers.                                                                *)

At(h, pc) == handler[h].pc = pc
Goes(h, pc) == handler' = [handler EXCEPT ![h].pc = pc]
Finds(h, pc, u) == handler' = [handler EXCEPT ![h].pc = pc, ![h].seen = u]
Ends(h) == handler' = [handler EXCEPT ![h] = Idle]
Fault == faults < MaxFaults /\ faults' = faults + 1

\* The user with this auth_subject, None if there is none.
BySubject == IF users = {} THEN None ELSE CHOOSE u \in users : TRUE

\* A call to Redis that fails is logged and changes nothing.
MayFail(change) == change \/ UNCHANGED cache

Owned(u) == {r \in issued : owner[r] = u}

\* A deletion has listed the images and its rows are not committed yet.
Deleting == \E h \in Handlers : handler[h].pc \in {"listed", "read"}

-----------------------------------------------------------------------------
(* Slips: what an action below would be with the mistake its comment names. *)

\* A user found in the cache is taken as it is.
TrustCache(h) ==
    /\ At(h, "cached")
    /\ IF handler[h].seen = None THEN Goes(h, "lookup") ELSE Goes(h, "ready")
    /\ UNCHANGED <<identity, spent, rows, cache, objects, jobs, late, faults>>

\* An image that could not be deleted does not stop the deletion.
IgnoreFailedImages(h) ==
    LET mine == Owned(handler[h].seen) IN
    /\ At(h, "ready") /\ identity
    /\ \E kept \in SUBSET mine :
        /\ objects' = objects \ (mine \ kept) /\ late' = late \ (mine \ kept)
        /\ IF kept = {} THEN UNCHANGED faults ELSE Fault
    /\ Goes(h, "listed")
    /\ UNCHANGED <<identity, spent, rows, cache, jobs>>

\* A deletion whose images are gone already, from an attempt that failed, is
\* answered with an error.
GiveUpOnMissingImages(h) ==
    LET mine == Owned(handler[h].seen) IN
    /\ At(h, "ready") /\ identity
    /\ IF mine \subseteq objects
       THEN objects' = objects \ mine /\ late' = late \ mine /\ Goes(h, "listed")
       ELSE Ends(h) /\ UNCHANGED <<objects, late>>
    /\ UNCHANGED <<identity, spent, rows, cache, jobs, faults>>

\* Nothing in the database refers to the rows that are deleted.
DeleteUnreferenced(h) ==
    LET u == handler[h].seen IN
    /\ At(h, "read")
    /\ users' = users \ {u}
    /\ owner' = [r \in issued |-> IF r \in handler[h].receipts THEN None ELSE owner[r]]
    /\ booked' = booked \ handler[h].booked
    /\ Goes(h, "deleted")
    /\ UNCHANGED <<identity, spent, issued, cache, objects, jobs, late, faults>>

\* Only the receipts are deleted: who they belong to and what was booked stays.
DeleteReceiptsOnly(h) ==
    /\ At(h, "read")
    /\ issued' = issued \ handler[h].receipts
    /\ users' = users \ {handler[h].seen}
    /\ Goes(h, "deleted")
    /\ UNCHANGED <<identity, spent, owner, booked, cache, objects, jobs, late, faults>>

\* Who meets the unique constraint on the auth_subject is refused.
RefuseLoser(h) ==
    /\ At(h, "create")
    /\ IF users # {} THEN Ends(h) /\ UNCHANGED <<users, spent>>
       ELSE \E u \in Ids \ spent :
        /\ users' = users \cup {u} /\ spent' = spent \cup {u}
        /\ Finds(h, "created", u)
    /\ UNCHANGED <<identity, issued, owner, booked, cache, objects, jobs, late, faults>>

-----------------------------------------------------------------------------
(* get_current_user.                                                       *)

\* The token is verified, which it is for up to an hour after the Firebase user
\* is deleted, and the cache read; an entry that has expired, and a
\* Redis that fails, are a miss.
Begin(h) ==
    /\ At(h, "idle")
    /\ \E u \in {cache, None} :
        handler' = [handler EXCEPT ![h] = [Idle EXCEPT !.pc = "cached", !.seen = u,
                                                      !.dead = spent \ users]]
    /\ UNCHANGED <<identity, spent, rows, cache, objects, jobs, late, faults>>

\* A cached user is looked up by its id, then by the auth_subject.  One whose
\* email changed is saved, and cached anew.
CheckCached(h) ==
    LET u == handler[h].seen
        found == IF u \in users THEN u ELSE BySubject
    IN
    /\ At(h, "cached")
    /\ IF u = None THEN Goes(h, "lookup")
       ELSE IF found = None THEN Goes(h, "stale")
       ELSE \E pc \in {"ready", "caching"} : Finds(h, pc, found)
    /\ UNCHANGED <<identity, spent, rows, cache, objects, jobs, late, faults>>

DropStale(h) ==
    /\ At(h, "stale")
    /\ MayFail(cache' = None)
    /\ Finds(h, "lookup", None)
    /\ UNCHANGED <<identity, spent, rows, objects, jobs, late, faults>>

LookUp(h) ==
    /\ At(h, "lookup")
    /\ IF BySubject = None THEN Goes(h, "create") ELSE Finds(h, "caching", BySubject)
    /\ UNCHANGED <<identity, spent, rows, cache, objects, jobs, late, faults>>

\* The row is inserted, unless a concurrent request was first: the auth_subject
\* is unique, so the commit fails and is rolled back.
CreateUser(h) ==
    /\ At(h, "create")
    /\ IF users # {} THEN Goes(h, "created") /\ UNCHANGED <<users, spent>>
       ELSE \E u \in Ids \ spent :
        /\ users' = users \cup {u} /\ spent' = spent \cup {u}
        /\ Finds(h, "created", u)
    /\ UNCHANGED <<identity, issued, owner, booked, cache, objects, jobs, late, faults>>

\* Who inserted the row refreshes it by its id, who did not looks the winner's
\* up.  A deletion may have taken either in between: then the request fails.
ReadBack(h) ==
    LET u == handler[h].seen
        found == IF u = None THEN BySubject ELSE IF u \in users THEN u ELSE None
    IN
    /\ At(h, "created")
    /\ IF found = None THEN Ends(h) ELSE Finds(h, "caching", found)
    /\ UNCHANGED <<identity, spent, rows, cache, objects, jobs, late, faults>>

CacheUser(h) ==
    /\ At(h, "caching")
    /\ MayFail(cache' = handler[h].seen)
    /\ Goes(h, "ready")
    /\ UNCHANGED <<identity, spent, rows, objects, jobs, late, faults>>

-----------------------------------------------------------------------------
(* The routes.                                                             *)

\* create_receipt stands for every route that inserts rows of the user: the
\* insert fails when the user is gone.
CreateReceipt(h) ==
    /\ At(h, "ready")
    /\ IF handler[h].seen \in users
       THEN \E r \in Receipts \ issued :
            /\ issued' = issued \cup {r}
            /\ owner' = [i \in issued' |-> IF i = r THEN handler[h].seen ELSE owner[i]]
       ELSE UNCHANGED <<issued, owner>>
    /\ Ends(h)
    /\ UNCHANGED <<identity, spent, users, booked, cache, objects, jobs, late, faults>>

\* patch_me: a user that is gone makes the update fail.
PatchMe(h) ==
    /\ At(h, "ready")
    /\ IF handler[h].seen \in users THEN Goes(h, "changed") ELSE Ends(h)
    /\ UNCHANGED <<identity, spent, rows, cache, objects, jobs, late, faults>>

\* The cache entry is deleted and written again.
RefreshCache(h) ==
    /\ At(h, "changed")
    /\ MayFail(cache' \in {None, handler[h].seen})
    /\ Ends(h)
    /\ UNCHANGED <<identity, spent, rows, objects, jobs, late, faults>>

-----------------------------------------------------------------------------
(* delete_me.  A DELETE request is checked against Firebase, where the     *)
(* user must still exist.                                                  *)

\* The images of the user's receipts are deleted, present or not; if one call
\* fails the request is answered with 503 after the others.
DeleteImages(h) ==
    LET mine == Owned(handler[h].seen) IN
    /\ At(h, "ready") /\ identity
    /\ \/ /\ objects' = objects \ mine /\ late' = late \ mine
          /\ Goes(h, "listed")
          /\ UNCHANGED faults
       \/ \E kept \in SUBSET mine \ {{}} :
            /\ Fault
            /\ objects' = objects \ (mine \ kept) /\ late' = late \ (mine \ kept)
            /\ Ends(h)
    /\ UNCHANGED <<identity, spent, rows, cache, jobs>>

\* The ids of the rows to delete are read.
ReadIds(h) ==
    LET mine == Owned(handler[h].seen) IN
    /\ At(h, "listed")
    /\ handler' = [handler EXCEPT ![h].pc = "read", ![h].receipts = mine,
                                  ![h].booked = booked \cap mine]
    /\ UNCHANGED <<identity, spent, rows, cache, objects, jobs, late, faults>>

\* The rows that were read are deleted, then the user.  A receipt or a
\* transaction that came in between still refers to one of them: nothing is
\* deleted, and the request fails.
DeleteRows(h) ==
    LET u == handler[h].seen
        mine == Owned(u)
    IN
    /\ At(h, "read")
    /\ IF mine \subseteq handler[h].receipts /\ booked \cap mine \subseteq handler[h].booked
       THEN /\ users' = users \ {u}
            /\ owner' = [r \in issued |-> IF r \in mine THEN None ELSE owner[r]]
            /\ booked' = booked \ mine
            /\ UNCHANGED issued
            /\ Goes(h, "deleted")
       ELSE Ends(h) /\ UNCHANGED rows
    /\ UNCHANGED <<identity, spent, cache, objects, jobs, late, faults>>

\* Best effort: a failing call is logged.
DeleteFirebaseUser(h) ==
    /\ At(h, "deleted")
    /\ \/ identity' = FALSE /\ UNCHANGED faults
       \/ Fault /\ UNCHANGED identity
    /\ Goes(h, "invalidate")
    /\ UNCHANGED <<spent, rows, cache, objects, jobs, late>>

InvalidateCache(h) ==
    /\ At(h, "invalidate")
    /\ MayFail(cache' = None)
    /\ Ends(h)
    /\ UNCHANGED <<identity, spent, rows, objects, jobs, late, faults>>

-----------------------------------------------------------------------------
(* The world outside.                                                      *)

\* The client uploads with its presigned URL, which needs no row and no token.
PutImage(r) ==
    /\ r \in issued \ objects
    /\ late' = IF Deleting \/ owner[r] = None THEN late \cup {r} ELSE late
    /\ objects' = objects \cup {r}
    /\ UNCHANGED <<identity, spent, rows, cache, jobs, handler, faults>>

\* process_receipt reads the receipt, and commits its transaction later.
ClaimReceipt(r) ==
    /\ r \in (objects \cap issued) \ (jobs \cup booked)
    /\ owner[r] # None
    /\ jobs' = jobs \cup {r}
    /\ UNCHANGED <<identity, spent, rows, cache, objects, handler, late, faults>>

\* The commit fails when the receipt or the user is gone.
BookReceipt(r) ==
    /\ r \in jobs
    /\ booked' = IF owner[r] # None THEN booked \cup {r} ELSE booked
    /\ jobs' = jobs \ {r}
    /\ UNCHANGED <<identity, spent, users, issued, owner, cache, objects, handler, late, faults>>

HandlerDies(h) ==
    /\ ~At(h, "idle")
    /\ Fault
    /\ Ends(h)
    /\ UNCHANGED <<identity, spent, rows, cache, objects, jobs, late>>

-----------------------------------------------------------------------------
Authenticate(h) ==
    \/ CheckCached(h) \/ DropStale(h) \/ LookUp(h)
    \/ CreateUser(h) \/ ReadBack(h) \/ CacheUser(h)

FinishDeletion(h) ==
    \/ ReadIds(h) \/ DeleteRows(h) \/ DeleteFirebaseUser(h) \/ InvalidateCache(h)

Next ==
    \/ \E h \in Handlers :
        \/ Begin(h) \/ Authenticate(h)
        \/ CreateReceipt(h) \/ PatchMe(h) \/ RefreshCache(h)
        \/ DeleteImages(h) \/ FinishDeletion(h)
        \/ HandlerDies(h)
    \/ \E r \in Receipts : PutImage(r) \/ ClaimReceipt(r) \/ BookReceipt(r)

Spec == Init /\ [][Next]_vars

\* Handlers go on, the person asks for the deletion whenever a request can, and
\* the worker finishes what it has claimed.
Fairness ==
    /\ \A h \in Handlers :
        /\ WF_vars(Begin(h)) /\ WF_vars(Authenticate(h))
        /\ WF_vars(RefreshCache(h))
        /\ SF_vars(DeleteImages(h)) /\ WF_vars(FinishDeletion(h))
    /\ \A r \in Receipts : WF_vars(BookReceipt(r))

FairSpec == Spec /\ Fairness

-----------------------------------------------------------------------------
(* Properties.                                                             *)

\* The positions before a handler has a user to act for.
Before == {"idle", "cached", "stale", "lookup", "create", "created"}

\* Nobody is turned away for being second: however many requests create the user
\* at the same time, the losers of the race go on with the winner's row.  A
\* request fails before it has its user only if it dies, or if an account was
\* deleted since it began.
SignInGetsThrough ==
    [][\A h \in Handlers :
        handler[h].pc \in Before \ {"idle"} /\ Ends(h) /\ faults' = faults
            => spent \ users # handler[h].dead]_vars

\* Every receipt and every transaction belongs to a user that exists: what
\* another request or the worker commits while an account is deleted is either
\* deleted with it or makes the deletion fail.
RowsHaveOwner ==
    /\ \A r \in issued : owner[r] \in users \cup {None}
    /\ \A r \in booked : owner[r] # None

\* A request acts for a user that was there at some time since it began: never
\* for one deleted before, though the cache may still hold it, and never for the
\* row it could not insert.
NoActingForDeleted ==
    \A h \in Handlers : handler[h].pc \notin Before => handler[h].seen \in spent \ handler[h].dead

\* The only images without a receipt are those the client put after the deletion
\* had listed its receipts: a failing object store loses none.
OnlyLateImagesLeft == \A r \in objects : owner[r] = None => r \in late

\* A person who keeps asking gets the account deleted, although an attempt may
\* fail after its images are gone: as long as the Firebase user exists, without
\* which the request is refused.
DeletionGetsThrough ==
    \A u \in Ids : (u \in users /\ identity) ~> (u \notin users \/ ~identity)

=============================================================================
