------------------------ MODULE FeatureRequestsProofs ------------------------
(***************************************************************************)
(* For any number of requests, users, admins and concurrent handlers:      *)
(* what is shown, voted on and referred to on the board stays consistent,  *)
(* however reads and commits of different handlers fall between each other.*)
(***************************************************************************)
EXTENDS FeatureRequests, TLAPS

-----------------------------------------------------------------------------
(* The inductive invariant.                                                *)

Assumptions == AdminsAssumption /\ StatusesAssumption /\ NoneAssumption

\* What is approved has been public.
ApprovedIsShown == \A r \in Requests : board[r].state = "approved" => r \in shown

\* Moderations and checked votes do not change whose a request is.
CreatorsStand ==
    \A p \in Processes :
        /\ call[p].op = "moderate" => call[p].next.creator = call[p].read.creator
        /\ call[p].op = "vote" =>
            /\ board[call[p].request].state # "absent"
            /\ Exists(call[p].request) =>
                \/ call[p].request \in shown
                \/ board[call[p].request].creator = call[p].user

IInv ==
    /\ TypeOK
    /\ PublicStateConsistent
    /\ OutsidersVoteOnShown
    /\ BoardRefersToMembers
    /\ ApprovedIsShown
    /\ CreatorsStand

-----------------------------------------------------------------------------
(* Rows and calls.                                                         *)

\* A row is there or not, by its state.
LEMMA Rows ==
    ASSUME NEW row \in Row \cup NoRow
    PROVE  /\ row \in Row <=> row.state \in States
           /\ row \in NoRow <=> row.state \in {"absent", "deleted"}
           /\ row \in NoRow => row.creator = None /\ row.reviewer = None /\ row.public = None
  BY DEF Row, NoRow, States

\* What an operation has read is what its record holds.
LEMMA Calls ==
    ASSUME NEW c \in Call
    PROVE  /\ c.op = "moderate" => c.request \in Requests /\ c.read \in Row /\ c.next \in Row
           /\ c.op = "vote" => /\ c.request \in Requests /\ c.user \in Users
                               /\ c.voted \in BOOLEAN /\ c.had \in BOOLEAN
           /\ c.op = "leave" => /\ c.user \in Users /\ c.reviewed \in SUBSET Requests
                                /\ c.doomed \in SUBSET (Requests \X Users)
  BY DEF Call, Idle

\* The columns that the ORM writes make a row again, of the same creator.
LEMMA WrittenRow ==
    ASSUME NEW row \in Row, NEW read \in Row, NEW next \in Row,
           next.creator = read.creator
    PROVE  /\ Written(row, read, next) \in Row
           /\ Written(row, read, next).creator = row.creator
<1>1. DOMAIN row = {"state", "public", "creator", "reviewer"}
  BY DEF Row
<1> DEFINE Column(f) == IF next[f] = read[f] THEN row[f] ELSE next[f]
<1>2. Written(row, read, next) =
        [state |-> Column("state"), public |-> Column("public"),
         creator |-> Column("creator"), reviewer |-> Column("reviewer")]
  BY <1>1 DEF Written
<1>3. /\ Column("state") \in States /\ Column("public") \in Statuses \cup {None}
      /\ Column("creator") = row.creator /\ Column("reviewer") \in Users \cup {None}
  BY DEF Row
<1>4. row.creator \in Users
  BY DEF Row
<1> HIDE DEF Column
<1> QED BY <1>2, <1>3, <1>4 DEF Row

-----------------------------------------------------------------------------
(* The actions.                                                            *)

\* A call that begins or ends leaves the board alone.
LEMMA CallsChange ==
    ASSUME Assumptions, IInv, UNCHANGED <<board, votes, members, shown>>,
           NEW p \in Processes, NEW c \in Call,
           c.op = "moderate" => c.next.creator = c.read.creator,
           c.op = "vote" =>
              /\ board[c.request].state # "absent"
              /\ Exists(c.request) =>
                  c.request \in shown \/ board[c.request].creator = c.user,
           call' = [call EXCEPT ![p] = c]
    PROVE  IInv'
<1>1. TypeOK'
  BY DEF IInv, TypeOK
<1>2. CreatorsStand'
  BY DEF IInv, TypeOK, CreatorsStand, Exists
<1> QED BY <1>1, <1>2 DEF IInv, PublicStateConsistent, OutsidersVoteOnShown,
           BoardRefersToMembers, ApprovedIsShown, Exists

\* A row that is new, or written by a moderation, keeps the board consistent.
LEMMA StoreKept ==
    ASSUME Assumptions, IInv, NEW r \in Requests, NEW row \in Row, Store(r, row),
           Consistent(row), row.creator \in members, row.reviewer \in members \cup {None},
           board[r].state = "absent" \/ (Exists(r) /\ row.creator = board[r].creator),
           votes' = votes \/ (votes' = votes \cup {<<r, row.creator>>}),
           UNCHANGED members,
           \/ UNCHANGED call
           \/ \E p \in Processes : call' = [call EXCEPT ![p] = Idle]
    PROVE  IInv'
<1>1. /\ board' = [board EXCEPT ![r] = row]
      /\ shown' = IF row.state = "approved" THEN shown \cup {r} ELSE shown
  BY DEF Store
<1>2. row.state \in States /\ row.creator \in Users
  BY DEF Row
<1>3. /\ shown \subseteq shown' /\ shown' \subseteq Requests
      /\ board' \in [Requests -> Row \cup NoRow]
      /\ \A q \in Requests : board'[q] = IF q = r THEN row ELSE board[q]
  BY <1>1 DEF IInv, TypeOK
<1>4. call' \in [Processes -> Call]
      /\ \A p \in Processes : call'[p] = call[p] \/ call'[p] = Idle
  BY DEF IInv, TypeOK, Call
<1>5. TypeOK'
  BY <1>2, <1>3, <1>4 DEF IInv, TypeOK
<1>6. PublicStateConsistent'
  BY <1>3 DEF IInv, PublicStateConsistent, Consistent, Exists
<1>7. \A v \in votes : v[1] \in Requests /\ v[2] \in Users /\ Exists(v[1])
  BY DEF IInv, TypeOK, BoardRefersToMembers
<1>8. OutsidersVoteOnShown'
  <2>1. \A v \in votes : board'[v[1]].creator = board[v[1]].creator
    BY <1>3, <1>7 DEF Exists, States
  <2> QED BY <1>3, <2>1 DEF IInv, OutsidersVoteOnShown
<1>9. BoardRefersToMembers'
  BY <1>2, <1>3, <1>7 DEF IInv, BoardRefersToMembers, Exists
<1>10. ApprovedIsShown'
  BY <1>1, <1>3 DEF IInv, ApprovedIsShown
<1>11. CreatorsStand'
  <2> SUFFICES ASSUME NEW p \in Processes
               PROVE  /\ call'[p].op = "moderate" => call'[p].next.creator = call'[p].read.creator
                      /\ call'[p].op = "vote" =>
                          /\ board'[call'[p].request].state # "absent"
                          /\ board'[call'[p].request].state \in States =>
                              \/ call'[p].request \in shown'
                              \/ board'[call'[p].request].creator = call'[p].user
    BY DEF CreatorsStand, Exists
  <2>1. CASE call'[p] = Idle
    BY <2>1 DEF Idle
  <2>2. CASE call'[p] = call[p]
    <3>1. call[p] \in Call
      BY DEF IInv, TypeOK
    <3>2. call[p].op = "vote" => call[p].request \in Requests
      BY <3>1, Calls
    <3> QED BY <1>2, <1>3, <2>2, <3>2 DEF IInv, CreatorsStand, Exists, States
  <2> QED BY <1>4, <2>1, <2>2
<1> QED BY <1>5, <1>6, <1>8, <1>9, <1>10, <1>11 DEF IInv

\* Whatever an admin gives, an approved request gets a public status and no other does.
LEMMA PublicStatusRow ==
    ASSUME Assumptions, NEW state \in States, NEW public \in Statuses \cup {None}
    PROVE  /\ PublicStatus(state, public) \in Statuses \cup {None}
           /\ state = "approved" <=> PublicStatus(state, public) # None
  BY DEF Assumptions, StatusesAssumption, NoneAssumption, PublicStatus

\* POST /feature-requests: a pending request of a member.
LEMMA CreateKept ==
    ASSUME Assumptions, IInv, NEW r \in Requests, NEW u \in Users, Create(r, u)
    PROVE  IInv'
<1> DEFINE row == [state |-> "pending", public |-> None, creator |-> u, reviewer |-> None]
<1>1. row \in Row /\ Consistent(row) /\ row.creator = u /\ row.reviewer = None
  BY DEF Row, States, Consistent
<1>2. Store(r, row) /\ u \in members /\ votes' = votes \cup {<<r, u>>}
  BY DEF Create
<1>3. board[r].state = "absent" /\ UNCHANGED <<members, call>>
  BY DEF Create, Unused
<1> HIDE DEF row
<1> QED BY <1>1, <1>2, <1>3, StoreKept

\* An admin posts a request that is public at once.
LEMMA CreateInternalKept ==
    ASSUME Assumptions, IInv, NEW r \in Requests, NEW a \in Admins,
           NEW s \in Statuses \cup {None}, CreateInternal(r, a, s)
    PROVE  IInv'
<1> DEFINE row == [state |-> "approved", public |-> PublicStatus("approved", s),
                   creator |-> a, reviewer |-> a]
<1>1. PublicStatus("approved", s) \in Statuses \cup {None} /\ PublicStatus("approved", s) # None
  BY PublicStatusRow DEF States
<1>2. row \in Row /\ Consistent(row) /\ row.creator = a /\ row.reviewer = a
  BY <1>1 DEF Row, States, Consistent, Assumptions, AdminsAssumption
<1>3. Store(r, row) /\ a \in members
  BY DEF CreateInternal
<1>4. board[r].state = "absent" /\ UNCHANGED <<votes, members, call>>
  BY DEF CreateInternal, Unused
<1> HIDE DEF row
<1> QED BY <1>2, <1>3, <1>4, StoreKept

\* A moderation reads the request it is about.
LEMMA ReadForModerationKept ==
    ASSUME Assumptions, IInv, NEW p \in Processes, NEW a \in Admins, NEW r \in Requests,
           NEW state \in States \cup {None}, NEW public \in Statuses \cup {None, "unset"},
           ReadForModeration(p, a, r, state, public)
    PROVE  IInv'
<1> DEFINE row == board[r]
           newState == IF state = None THEN row.state ELSE state
           given == IF public = "unset" THEN row.public ELSE public
           next == [row EXCEPT !.state = newState, !.public = PublicStatus(newState, given),
                               !.reviewer = a]
           c == [op |-> "moderate", request |-> r, read |-> row, next |-> next]
<1>1. row \in Row
  BY Rows DEF ReadForModeration, Exists, IInv, TypeOK
<1>2. newState \in States /\ given \in Statuses \cup {None}
  BY <1>1 DEF Row
<1>3. PublicStatus(newState, given) \in Statuses \cup {None}
  <2> HIDE DEF newState, given
  <2> QED BY <1>2, PublicStatusRow
<1>4. next \in Row /\ next.creator = row.creator
  <2> HIDE DEF newState, given
  <2> QED BY <1>1, <1>2, <1>3 DEF Row, Assumptions, AdminsAssumption
<1>5. call' = [call EXCEPT ![p] = c] /\ UNCHANGED <<board, votes, members, shown>>
  BY DEF ReadForModeration, Begins
<1> HIDE DEF row, next
<1>6. c \in Call /\ c.op = "moderate" /\ c.next = next /\ c.read = row
  BY <1>1, <1>4 DEF Call
<1> HIDE DEF c
<1> QED BY <1>4, <1>5, <1>6, CallsChange

\* What the database refuses changes nothing.
LEMMA NothingStored ==
    ASSUME Assumptions, IInv, UNCHANGED <<board, votes, members, shown>>,
           NEW p \in Processes, Ends(p)
    PROVE  IInv'
<1>1. Idle \in Call /\ Idle.op = "idle"
  BY DEF Call, Idle
<1>2. call' = [call EXCEPT ![p] = Idle]
  BY DEF Ends
<1> QED BY <1>1, <1>2, CallsChange

\* A moderation writes what it decided over what is there.
LEMMA ModerateKept ==
    ASSUME Assumptions, IInv, NEW p \in Processes, Moderate(p)
    PROVE  IInv'
<1> DEFINE r == call[p].request
           row == Written(board[r], call[p].read, call[p].next)
<1>1. call[p] \in Call /\ call[p].op = "moderate"
  BY DEF IInv, TypeOK, Moderate
<1>2. r \in Requests /\ call[p].read \in Row /\ call[p].next \in Row
      /\ call[p].next.creator = call[p].read.creator
  BY <1>1, Calls DEF IInv, CreatorsStand
<1>3. CASE Exists(r) /\ Consistent(row) /\ row.reviewer \in members \cup {None}
  <2>1. Store(r, row) /\ call' = [call EXCEPT ![p] = Idle] /\ UNCHANGED <<votes, members>>
    BY <1>3 DEF Moderate, Ends
  <2>2. board[r] \in Row
    BY <1>2, <1>3, Rows DEF Exists, IInv, TypeOK
  <2>3. row \in Row /\ row.creator = board[r].creator
    BY <1>2, <2>2, WrittenRow
  <2>4. board[r].creator \in members
    BY <1>2, <1>3 DEF IInv, BoardRefersToMembers
  <2> HIDE DEF row, r
  <2> QED BY <1>2, <1>3, <2>1, <2>3, <2>4, StoreKept
<1>4. CASE ~(Exists(r) /\ Consistent(row) /\ row.reviewer \in members \cup {None})
  <2>1. UNCHANGED <<board, votes, members, shown>> /\ Ends(p)
    BY <1>4 DEF Moderate
  <2> QED BY <2>1, NothingStored
<1> QED BY <1>3, <1>4

\* A vote reads the request and its votes.
LEMMA ReadForVoteKept ==
    ASSUME Assumptions, IInv, NEW p \in Processes, NEW u \in Users, NEW r \in Requests,
           NEW voted \in BOOLEAN, ReadForVote(p, u, r, voted)
    PROVE  IInv'
<1> DEFINE had == <<r, u>> \in votes
           c == [op |-> "vote", request |-> r, user |-> u, voted |-> voted, had |-> had]
<1>1. call' = [call EXCEPT ![p] = c] /\ UNCHANGED <<board, votes, members, shown>>
  BY DEF ReadForVote, Begins
<1>2. had \in BOOLEAN
  OBVIOUS
<1>3. Exists(r) /\ (r \in shown \/ board[r].creator = u)
  BY DEF ReadForVote, MayVote, IInv, ApprovedIsShown
<1> HIDE DEF had
<1>4. c \in Call /\ c.op = "vote" /\ c.request = r /\ c.user = u
  BY <1>2 DEF Call
<1>5. board[r].state # "absent"
  BY <1>3 DEF Exists, States
<1> HIDE DEF c
<1> QED BY <1>1, <1>3, <1>4, <1>5, CallsChange

\* A vote is added or taken back.
LEMMA VoteKept ==
    ASSUME Assumptions, IInv, NEW p \in Processes, Vote(p)
    PROVE  IInv'
<1> DEFINE r == call[p].request
           u == call[p].user
<1>1. call[p] \in Call /\ call[p].op = "vote"
  BY DEF IInv, TypeOK, Vote
<1>2. r \in Requests /\ u \in Users
  BY <1>1, Calls
<1>3. Exists(r) => r \in shown \/ board[r].creator = u
  BY <1>1 DEF IInv, CreatorsStand
<1>4. \A v \in votes' : v \in votes \/ (v = <<r, u>> /\ Exists(r) /\ u \in members)
  BY DEF Vote
<1>5. UNCHANGED <<board, members, shown>> /\ call' = [call EXCEPT ![p] = Idle]
  BY DEF Vote, Ends
<1>6. call' \in [Processes -> Call] /\ \A q \in Processes : call'[q] = call[q] \/ call'[q] = Idle
  BY <1>5 DEF IInv, TypeOK, Call
<1>7. TypeOK'
  BY <1>2, <1>4, <1>5, <1>6 DEF IInv, TypeOK
<1>8. OutsidersVoteOnShown'
  BY <1>3, <1>4, <1>5 DEF IInv, OutsidersVoteOnShown
<1>9. BoardRefersToMembers'
  BY <1>4, <1>5 DEF IInv, BoardRefersToMembers, Exists
<1>10. CreatorsStand'
  <2>1. Idle.op = "idle"
    BY DEF Idle
  <2> QED BY <1>5, <1>6, <2>1 DEF IInv, CreatorsStand, Exists
<1> QED BY <1>5, <1>7, <1>8, <1>9, <1>10 DEF IInv, PublicStateConsistent, ApprovedIsShown, Exists

\* An account deletion begins: no row changes.
LEMMA BeginLeavingKept ==
    ASSUME Assumptions, IInv, NEW p \in Processes, NEW u \in Users, BeginLeaving(p, u)
    PROVE  IInv'
<1> DEFINE doomed == {v \in votes : v[1] \in Owned(u) \/ v[2] = u}
           c == [op |-> "leave", user |-> u, reviewed |-> ReviewedBy(u), doomed |-> doomed]
<1>1. call' = [call EXCEPT ![p] = c] /\ UNCHANGED <<board, votes, members, shown>>
  BY DEF BeginLeaving, Begins
<1>2. doomed \in SUBSET (Requests \X Users) /\ ReviewedBy(u) \in SUBSET Requests
  BY DEF ReviewedBy, IInv, TypeOK
<1> HIDE DEF doomed
<1>3. c \in Call /\ c.op = "leave"
  BY <1>2 DEF Call
<1> HIDE DEF c
<1> QED BY <1>1, <1>3, CallsChange

\* Whoever leaves takes along what refers to them, or stays.
LEMMA LeaveKept ==
    ASSUME Assumptions, IInv, NEW p \in Processes, Leave(p)
    PROVE  IInv'
<1> DEFINE u == call[p].user
           left == votes \ call[p].doomed
           clear == /\ u \in members
                    /\ ~\E v \in left : v[1] \in Owned(u) \/ v[2] = u
                    /\ ReviewedBy(u) \subseteq Owned(u) \cup call[p].reviewed
<1>1. CASE ~clear
  <2>1. UNCHANGED <<board, votes, members, shown>> /\ Ends(p)
    BY <1>1 DEF Leave
  <2> QED BY <2>1, NothingStored
<1>2. CASE clear
  <2>1. /\ votes' = left /\ members' = members \ {u} /\ shown' = shown
        /\ call' = [call EXCEPT ![p] = Idle]
        /\ board' = [r \in Requests |-> IF r \in Owned(u) THEN Missing("deleted")
                       ELSE IF r \in ReviewedBy(u) THEN [board[r] EXCEPT !.reviewer = None]
                       ELSE board[r]]
    BY <1>2 DEF Leave, Ends
  <2>2. u \in Users
    BY Calls DEF Leave, IInv, TypeOK
  <2>3. \A r \in Requests : board[r] \in Row \cup NoRow
    BY DEF IInv, TypeOK
  <2>4. Missing("deleted") \in NoRow /\ Missing("deleted").state = "deleted"
    BY DEF Missing, NoRow
  <2>5. \A r \in ReviewedBy(u) : board[r] \in Row
    BY <2>2, <2>3 DEF ReviewedBy, Row, NoRow, Assumptions, NoneAssumption
  <2>6. \A r \in ReviewedBy(u) :
          LET row == [board[r] EXCEPT !.reviewer = None] IN
          /\ row \in Row /\ row.state = board[r].state /\ row.public = board[r].public
          /\ row.creator = board[r].creator /\ row.reviewer = None
    BY <2>5 DEF Row
  <2>7. \A r \in Requests \ Owned(u) :
          /\ board'[r] \in Row \cup NoRow
          /\ board'[r].state = board[r].state /\ board'[r].public = board[r].public
          /\ board'[r].creator = board[r].creator
          /\ board'[r].reviewer = board[r].reviewer \/ board'[r].reviewer = None
          /\ board'[r].reviewer # u
    BY <2>1, <2>2, <2>3, <2>6 DEF ReviewedBy, Assumptions, NoneAssumption
  <2>8. \A r \in Owned(u) : board'[r] = Missing("deleted")
    BY <2>1 DEF Owned
  <2>9. call' \in [Processes -> Call] /\ \A q \in Processes : call'[q] = call[q] \/ call'[q] = Idle
    BY <2>1 DEF IInv, TypeOK, Call
  <2>10. board' \in [Requests -> Row \cup NoRow]
    BY <2>1, <2>4, <2>7, <2>8 DEF Owned
  <2>11. TypeOK'
    BY <2>1, <2>9, <2>10 DEF IInv, TypeOK
  <2>12. PublicStateConsistent'
    BY <2>4, <2>7, <2>8 DEF IInv, PublicStateConsistent, Exists, States
  <2>13. \A v \in votes' : v \in votes /\ v[1] \in Requests \ Owned(u) /\ v[2] # u
    BY <1>2, <2>1 DEF IInv, TypeOK
  <2>14. OutsidersVoteOnShown'
    BY <2>1, <2>7, <2>13 DEF IInv, OutsidersVoteOnShown
  <2>15. BoardRefersToMembers'
    <3>1. \A v \in votes' : Exists(v[1])' /\ v[2] \in members'
      BY <2>1, <2>7, <2>13 DEF IInv, BoardRefersToMembers, Exists
    <3>2. ASSUME NEW r \in Requests, Exists(r)'
          PROVE  board'[r].creator \in members' /\ board'[r].reviewer \in members' \cup {None}
      <4>1. r \notin Owned(u)
        BY <2>4, <2>8, <3>2 DEF Exists, States
      <4>2. board[r].creator # u
        BY <4>1 DEF Owned
      <4>3. Exists(r)
        BY <2>7, <3>2, <4>1 DEF Exists
      <4>4. board[r].creator \in members /\ board[r].reviewer \in members \cup {None}
        BY <4>3 DEF IInv, BoardRefersToMembers
      <4>5. /\ board'[r].creator = board[r].creator /\ board'[r].reviewer # u
            /\ board'[r].reviewer = board[r].reviewer \/ board'[r].reviewer = None
        BY <2>7, <4>1
      <4>6. members' = members \ {u}
        BY <2>1
      <4> QED BY <4>2, <4>4, <4>5, <4>6
    <3> QED BY <3>1, <3>2 DEF BoardRefersToMembers
  <2>16. ApprovedIsShown'
    BY <2>1, <2>4, <2>7, <2>8 DEF IInv, ApprovedIsShown
  <2>17. CreatorsStand'
    <3> SUFFICES ASSUME NEW q \in Processes
                 PROVE  /\ call'[q].op = "moderate" => call'[q].next.creator = call'[q].read.creator
                        /\ call'[q].op = "vote" =>
                            /\ board'[call'[q].request].state # "absent"
                            /\ board'[call'[q].request].state \in States =>
                                \/ call'[q].request \in shown'
                                \/ board'[call'[q].request].creator = call'[q].user
      BY DEF CreatorsStand, Exists
    <3>1. CASE call'[q] = Idle
      BY <3>1 DEF Idle
    <3>2. CASE call'[q] = call[q]
      <4>1. call[q].op = "vote" => call[q].request \in Requests
        BY Calls DEF IInv, TypeOK
      <4> QED BY <2>1, <2>4, <2>7, <2>8, <3>2, <4>1 DEF IInv, CreatorsStand, Exists, States
    <3> QED BY <2>9, <3>1, <3>2
  <2> QED BY <2>11, <2>12, <2>14, <2>15, <2>16, <2>17 DEF IInv
<1> QED BY <1>1, <1>2

-----------------------------------------------------------------------------
(* The theorems.                                                           *)

\* There are no requests and no votes at first.
LEMMA InitHolds == Init => IInv
  BY DEF Init, IInv, TypeOK, PublicStateConsistent, OutsidersVoteOnShown, BoardRefersToMembers,
         ApprovedIsShown, CreatorsStand, Exists, Missing, NoRow, States, Call, Idle

\* One case for each action.
LEMMA NextKept == ASSUME Assumptions, IInv, [Next]_vars PROVE IInv'
<1>1. CASE UNCHANGED vars
  BY <1>1 DEF vars, IInv, TypeOK, PublicStateConsistent, OutsidersVoteOnShown,
     BoardRefersToMembers, ApprovedIsShown, CreatorsStand, Exists
<1>2. CASE Next
  BY <1>2, CreateKept, CreateInternalKept, ReadForModerationKept, ModerateKept,
     ReadForVoteKept, VoteKept, BeginLeavingKept, LeaveKept DEF Next
<1> QED BY <1>1, <1>2

\* The board keeps its types, however handlers overlap.
THEOREM BoardTypes == ASSUME Assumptions PROVE Spec => []TypeOK
<1>1. IInv /\ [Next]_vars => IInv'
  BY NextKept
<1>2. IInv => TypeOK
  BY DEF IInv
<1> QED BY InitHolds, <1>1, <1>2, PTL DEF Spec

\* A request has a public status exactly while it is approved, although
\* overlapping moderations each write only the columns they changed.
THEOREM PublicStateTheorem == ASSUME Assumptions PROVE Spec => []PublicStateConsistent
<1>1. IInv /\ [Next]_vars => IInv'
  BY NextKept
<1>2. IInv => PublicStateConsistent
  BY DEF IInv
<1> QED BY InitHolds, <1>1, <1>2, PTL DEF Spec

\* Only its creator votes on a request that has never been public.
THEOREM OutsidersTheorem == ASSUME Assumptions PROVE Spec => []OutsidersVoteOnShown
<1>1. IInv /\ [Next]_vars => IInv'
  BY NextKept
<1>2. IInv => OutsidersVoteOnShown
  BY DEF IInv
<1> QED BY InitHolds, <1>1, <1>2, PTL DEF Spec

\* No vote, request or review of somebody who left stays on the board.
THEOREM MembersTheorem == ASSUME Assumptions PROVE Spec => []BoardRefersToMembers
<1>1. IInv /\ [Next]_vars => IInv'
  BY NextKept
<1>2. IInv => BoardRefersToMembers
  BY DEF IInv
<1> QED BY InitHolds, <1>1, <1>2, PTL DEF Spec
=============================================================================
