----------------------------- MODULE MCCommunity -----------------------------
(* Accounts and, beside it, the board of feature requests for TLC.  They   *)
(* share no state, so a behaviour of this instance is one of either:       *)
(* interleaving them would multiply the states and add nothing.            *)
EXTENDS Accounts

CONSTANTS Requests, Users, Admins, Processes, Statuses, UnderReview

VARIABLES part, board, votes, members, call, shown

boardVars == <<board, votes, members, call, shown>>

Board == INSTANCE FeatureRequestsProofs

ASSUME MaxFaultsAssumption /\ NoneAssumption
ASSUME Board!AdminsAssumption /\ Board!StatusesAssumption /\ Board!NoneAssumption

BothInit == part \in {"account", "board"} /\ Init /\ Board!Init

BothNext ==
    \/ part = "account" /\ Next /\ UNCHANGED <<part, boardVars>>
    \/ part = "board" /\ Board!Next /\ UNCHANGED <<part, vars>>

\* A behaviour of the board owes the account's handlers nothing.
BothSpec == BothInit /\ [][BothNext]_<<part, vars, boardVars>> /\ (part = "account" => Fairness)

PublicStateConsistent == Board!TypeOK /\ Board!PublicStateConsistent
OutsidersVoteOnShown == Board!OutsidersVoteOnShown
BoardRefersToMembers == Board!BoardRefersToMembers
=============================================================================
