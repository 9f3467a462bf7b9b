---------------------------- MODULE FeatureRequests ----------------------------
(***************************************************************************)
(* The board of feature requests: users propose and vote, admins moderate  *)
(* (backend/app/services/feature_requests.py and its routes), and the part *)
(* of the account deletion that clears a user's rows from the board        *)
(* (backend/app/services/account_deletion.py).                             *)
(*                                                                         *)
(* Requests are served by two API processes while a new version is rolled  *)
(* out.  A handler reads in one step and commits in a later one; in        *)
(* between, the others commit.  The database refuses a commit that breaks  *)
(* a constraint, and the handler rolls back.                               *)
(***************************************************************************)
CONSTANTS
    Requests,    \* ids of feature requests
    Users,
    Admins,      \* users with is_admin
    Processes,   \* concurrent handlers
    Statuses,    \* FeatureRequestPublicStatus
    UnderReview, \* FeatureRequestPublicStatus.UNDER_REVIEW
    None

\* What is taken of the constants; the instance for TLC assumes it.
AdminsAssumption == Admins \subseteq Users
StatusesAssumption == UnderReview \in Statuses
NoneAssumption == None \notin Requests \cup Users \cup Statuses

VARIABLES
    board,    \* feature_requests: the row of each request, if it has one
    votes,    \* feature_request_votes: pairs of a request and a voter
    members,  \* the users that exist
    call,     \* what each handler is doing, with what it has read
    shown     \* history: requests that have been public

vars == <<board, votes, members, call, shown>>

-----------------------------------------------------------------------------
States == {"pending", "approved", "rejected"}
NoRow == [state : {"absent", "deleted"}, public : {None}, creator : {None}, reviewer : {None}]
Row == [state : States, public : Statuses \cup {None},
        creator : Users, reviewer : Users \cup {None}]

Missing(state) == [state |-> state, public |-> None, creator |-> None, reviewer |-> None]

Idle == [op |-> "idle"]
Call ==
    {Idle}
    \cup [op : {"moderate"}, request : Requests, read : Row, next : Row]
    \cup [op : {"vote"}, request : Requests, user : Users, voted : BOOLEAN, had : BOOLEAN]
    \cup [op : {"leave"}, user : Users, doomed : SUBSET (Requests \X Users),
          reviewed : SUBSET Requests]

TypeOK ==
    /\ board \in [Requests -> Row \cup NoRow]
    /\ votes \subseteq Requests \X Users
    /\ members \subseteq Users
    /\ call \in [Processes -> Call]
    /\ shown \subseteq Requests

Init ==
    /\ board = [r \in Requests |-> Missing("absent")]
    /\ votes = {}
    /\ members = Users
    /\ call = [p \in Processes |-> Idle]
    /\ shown = {}

-----------------------------------------------------------------------------
(* Helpers.                                                                *)

Exists(r) == board[r].state \in States
Unused(r) == board[r].state = "absent"

\* _apply_public_state_rules.
PublicStatus(state, public) ==
    IF state # "approved" THEN None ELSE IF public = None THEN UnderReview ELSE public

\* A slip: no check constraint.
AnyState(row) == row \in Row

\* ck_feature_requests_public_state_consistency.
Consistent(row) == (row.state = "approved") <=> (row.public # None)

\* A slip: every request that exists can be voted on.
VoteOnAny(r, u) == Exists(r)

\* get_feature_request_for_user_vote.
MayVote(r, u) == board[r].state = "approved" \/ board[r].creator = u

\* An ORM object writes the columns that differ from what was read.
Written(row, read, next) ==
    [f \in DOMAIN row |-> IF next[f] = read[f] THEN row[f] ELSE next[f]]

Store(r, row) ==
    /\ board' = [board EXCEPT ![r] = row]
    /\ shown' = IF row.state = "approved" THEN shown \cup {r} ELSE shown

Begins(p, c) == call[p] = Idle /\ call' = [call EXCEPT ![p] = c]
Ends(p) == call' = [call EXCEPT ![p] = Idle]

-----------------------------------------------------------------------------
(* Slips: what a definition would be with the mistake its comment names.   *)

\* The votes are cleared as they were read, and nothing refers to a request.
LeaveUnreferenced(p) ==
    LET u == call[p].user IN
    /\ call[p].op = "leave"
    /\ votes' = votes \ call[p].doomed
    /\ board' = [r \in Requests |-> IF board[r].creator = u THEN Missing("deleted") ELSE board[r]]
    /\ members' = members \ {u}
    /\ Ends(p)
    /\ UNCHANGED shown

-----------------------------------------------------------------------------
(* Creating.  Titles and descriptions are taken to pass the validation; a  *)
(* refused one changes nothing.                                            *)

Create(r, u) ==
    /\ Unused(r) /\ u \in members
    /\ Store(r, [state |-> "pending", public |-> None, creator |-> u, reviewer |-> None])
    /\ votes' = votes \cup {<<r, u>>}
    /\ UNCHANGED <<members, call>>

\* An admin's own request is public at once, and has no first vote.
CreateInternal(r, a, public) ==
    /\ Unused(r) /\ a \in Admins \cap members
    /\ Store(r, [state |-> "approved", public |-> PublicStatus("approved", public),
                 creator |-> a, reviewer |-> a])
    /\ UNCHANGED <<votes, members, call>>

-----------------------------------------------------------------------------
(* Moderating: state is None, and public is "unset", where the payload     *)
(* leaves the field out.                                                   *)

ReadForModeration(p, a, r, state, public) ==
    /\ a \in Admins \cap members
    /\ Exists(r)
    /\ LET row == board[r]
           newState == IF state = None THEN row.state ELSE state
           given == IF public = "unset" THEN row.public ELSE public
       IN Begins(p, [op |-> "moderate", request |-> r, read |-> row,
                     next |-> [row EXCEPT !.state = newState,
                                          !.public = PublicStatus(newState, given),
                                          !.reviewer = a]])
    /\ UNCHANGED <<board, votes, members, shown>>

\* A row that is gone, a reviewer that is gone and a row that breaks the
\* constraint make the commit fail.
Moderate(p) ==
    LET r == call[p].request
        row == Written(board[r], call[p].read, call[p].next)
    IN
    /\ call[p].op = "moderate"
    /\ IF Exists(r) /\ Consistent(row) /\ row.reviewer \in members \cup {None}
       THEN Store(r, row) ELSE UNCHANGED <<board, shown>>
    /\ Ends(p)
    /\ UNCHANGED <<votes, members>>

-----------------------------------------------------------------------------
(* Voting.                                                                 *)

ReadForVote(p, u, r, voted) ==
    /\ u \in members
    /\ Exists(r) /\ MayVote(r, u)
    /\ Begins(p, [op |-> "vote", request |-> r, user |-> u, voted |-> voted,
                  had |-> <<r, u>> \in votes])
    /\ UNCHANGED <<board, votes, members, shown>>

\* A vote that another request has cast or removed meanwhile is left as it is;
\* one without its request or its user is refused.
Vote(p) ==
    LET v == <<call[p].request, call[p].user>> IN
    /\ call[p].op = "vote"
    /\ votes' =
        IF call[p].voted /\ ~call[p].had /\ Exists(call[p].request) /\ call[p].user \in members
        THEN votes \cup {v}
        ELSE IF ~call[p].voted /\ call[p].had THEN votes \ {v} ELSE votes
    /\ Ends(p)
    /\ UNCHANGED <<board, members, shown>>

-----------------------------------------------------------------------------
(* delete_account_for_user, on the board: first the votes it finds on the  *)
(* user's requests and those of the user are deleted and the user's        *)
(* reviews are made anonymous, then the requests and the user are deleted, *)
(* and all of it is committed.                                             *)

Owned(u) == {r \in Requests : board[r].creator = u}
ReviewedBy(u) == {r \in Requests : board[r].reviewer = u}

BeginLeaving(p, u) ==
    /\ u \in members
    /\ Begins(p, [op |-> "leave", user |-> u, reviewed |-> ReviewedBy(u),
                  doomed |-> {v \in votes : v[1] \in Owned(u) \/ v[2] = u}])
    /\ UNCHANGED <<board, votes, members, shown>>

\* A vote or a review that came in between holds a request, or the user: the
\* deletion fails and is rolled back.
Leave(p) ==
    LET u == call[p].user
        left == votes \ call[p].doomed
    IN
    /\ call[p].op = "leave"
    /\ IF /\ u \in members
          /\ ~\E v \in left : v[1] \in Owned(u) \/ v[2] = u
          /\ ReviewedBy(u) \subseteq Owned(u) \cup call[p].reviewed
       THEN /\ votes' = left
            /\ board' = [r \in Requests |-> IF r \in Owned(u) THEN Missing("deleted")
                           ELSE IF r \in ReviewedBy(u) THEN [board[r] EXCEPT !.reviewer = None]
                           ELSE board[r]]
            /\ members' = members \ {u}
       ELSE UNCHANGED <<votes, board, members>>
    /\ Ends(p)
    /\ UNCHANGED shown

-----------------------------------------------------------------------------
Next ==
    \/ \E r \in Requests :
        \/ \E u \in Users : Create(r, u)
        \/ \E a \in Admins, s \in Statuses \cup {None} : CreateInternal(r, a, s)
    \/ \E p \in Processes :
        \/ \E a \in Admins, r \in Requests, state \in States \cup {None},
              public \in Statuses \cup {None, "unset"} :
                ReadForModeration(p, a, r, state, public)
        \/ \E u \in Users, r \in Requests, voted \in BOOLEAN : ReadForVote(p, u, r, voted)
        \/ \E u \in Users : BeginLeaving(p, u)
        \/ Moderate(p) \/ Vote(p) \/ Leave(p)

Spec == Init /\ [][Next]_vars

-----------------------------------------------------------------------------
(* Properties.                                                             *)

\* However two admins' moderations fall between each other, each of which
\* writes only the columns it changed, a request has a public status exactly
\* while it is approved.
PublicStateConsistent ==
    \A r \in Requests : Exists(r) => (board[r].state = "approved" <=> board[r].public # None)

\* Only the creator votes on a request that has never been public, whatever
\* happens between the check and the commit of the vote.
OutsidersVoteOnShown ==
    \A v \in votes : v[2] # board[v[1]].creator => v[1] \in shown

\* A deletion of an account leaves no vote without its request or its voter,
\* and no request or review of a user that is gone, even if votes and
\* moderations are committed while it runs.
BoardRefersToMembers ==
    /\ \A v \in votes : Exists(v[1]) /\ v[2] \in members
    /\ \A r \in Requests : Exists(r) =>
        board[r].creator \in members /\ board[r].reviewer \in members \cup {None}

=============================================================================
