------------------------------ MODULE MCUserData ------------------------------
(* What a user keeps, and what is computed from it, for TLC: categories,   *)
(* transactions, bill reminders, rates, trends and breakdowns.  They share *)
(* no state, so a behaviour of this instance is one of any of them, and    *)
(* the others stay in their first state: interleaving them would multiply  *)
(* the states and add nothing.                                             *)
EXTENDS Categories, TLC

CONSTANTS Payers, Hiders, Tx, Items, Names, Empty, Blanks, NewItem, Imported, MaxLines, MaxLineNo,
          Devices, BillMonths, MonthsInYear, BillWeek, LastToday, Spring, Autumn,
          LastDay, Business, Forgotten,
          Rows, TrendMonths, Ticks, Week, ByDay, ByWeek, Now,
          Amounts, Cats, Main, Second

VARIABLES part,
          tx, items, job, exporter, txFile, edit, refused, read,
          bill, loaded, today,
          cached, pair, rateDay, rate,
          range, occurred, created, trend,
          parent, visible, booked, header, request, breakdown

transactionVars == <<tx, items, job, exporter, txFile, edit, refused, read>>
billVars == <<bill, loaded, today>>
rateVars == <<cached, pair, rateDay, rate>>
trendVars == <<range, occurred, created, trend>>
breakdownVars == <<parent, visible, booked, header, request, breakdown>>
allVars == <<part, vars, transactionVars, billVars, rateVars, trendVars, breakdownVars>>

\* The built-in tree: there is one of Tops, and Subs are below it.
BuiltinWorker == [t \in Tops |-> "UNCATEGORIZED"]
BuiltinParent == [s \in Subs |-> CHOOSE t \in Tops : TRUE]
BuiltinCodes ==
    CHOOSE f \in [Tops \cup Subs -> Codes] : \A s, t \in Tops \cup Subs : f[s] = f[t] => s = t

\* Three years of two months, the second of which is, as February, a day shorter
\* in one year than in the others; a week is no multiple of a month.
ThreeYears == <<2, 2, 2, 1, 2, 2>>
TwoMonths == <<2, 2>>

Transaction == INSTANCE TransactionsProofs WITH premium <- exporter, file <- txFile
Bill == INSTANCE BillReminders WITH MonthLengths <- BillMonths, Week <- BillWeek
Rates == INSTANCE FxRates WITH today <- rateDay, answer <- rate
Trend == INSTANCE Trends WITH MonthLengths <- TrendMonths, answer <- trend
Parts == INSTANCE BreakdownProofs WITH Items <- Amounts, items <- booked, answer <- breakdown

ASSUME LimitsAssumption /\ BuiltinAssumption /\ IdsAssumption
ASSUME Transaction!Assumptions
ASSUME Bill!CalendarAssumption /\ Bill!HorizonAssumption
ASSUME Trend!CalendarAssumption /\ Trend!NowAssumption /\ Trend!NoneAssumption
ASSUME Rates!DaysAssumption /\ Rates!NoneAssumption /\ Parts!CategoriesAssumption

-----------------------------------------------------------------------------
\* A part that does not move is in one of the states it can begin in.
BillStill ==
    /\ bill = [recurrence |-> "none", anchor |-> 1, paid |-> 0, skipped |-> 0, active |-> TRUE]
    /\ loaded = [d \in Devices |-> None] /\ today = 1
TrendStill ==
    /\ range = [from |-> None, to |-> None] /\ trend = None
    /\ occurred = [r \in Rows |-> 0] /\ created = [r \in Rows |-> 0]
BreakdownStill ==
    /\ parent = [c \in Cats |-> None] /\ visible = Cats
    /\ booked = [i \in Amounts |-> [tx |-> CHOOSE t \in Tx : TRUE, cat |-> None]]
    /\ header = [t \in Tx |-> None]
    /\ request = [cats |-> {}, subs |-> {}] /\ breakdown = None

\* All trees of three categories, up to their names: only Main has others right
\* below it, or Main has Second below it, and Second the third.
Trees ==
    /\ parent \in [Cats -> {Main, Second, None}]
    /\ parent[Main] = None /\ parent[Second] # Second
    /\ \A c \in Cats : parent[c] # None => parent[Second] = Main

\* A bound: what one user hides is of no account to another, nor to an export or
\* an import, so nothing is hidden while there is a file with something in it.
HidingBound ==
    \A u \in Users : hidden'[u] # {} => u \in Hiders /\ file' = {}

\* A bound: an old transaction is exported as a recent one is, or left out as one
\* without a date is.
DatesBound ==
    \A t \in DOMAIN tx' : tx'[t].date # (IF exporter THEN "old" ELSE "unknown")

\* A bound: the name of one item is of no account to another, so of two items one
\* has a name of which no language and no translation is known.
NamesBound ==
    \A i, j \in DOMAIN items' : \E k \in {i, j} : i # j => items'[k].lang = None /\ ~items'[k].base

AllInit ==
    /\ part \in {"categories", "transactions", "bill", "rates", "trend", "breakdown"}
    /\ premium = Payers /\ Init
    /\ (part # "transactions" => exporter = FALSE) /\ Transaction!Init
    /\ (part # "rates" => pair = FALSE) /\ Rates!Init
    /\ IF part = "bill" THEN Bill!Init ELSE BillStill
    /\ IF part = "trend" THEN Trend!Init ELSE TrendStill
    /\ IF part = "breakdown" THEN Trees /\ Parts!Init ELSE BreakdownStill

AllNext ==
    /\ UNCHANGED part
    /\ \/ /\ part = "categories" /\ Next /\ HidingBound
          /\ UNCHANGED <<transactionVars, billVars, rateVars, trendVars, breakdownVars>>
       \/ /\ part = "transactions" /\ Transaction!Next /\ DatesBound /\ NamesBound
          /\ UNCHANGED <<vars, billVars, rateVars, trendVars, breakdownVars>>
       \/ /\ part = "bill" /\ Bill!Next
          /\ UNCHANGED <<vars, transactionVars, rateVars, trendVars, breakdownVars>>
       \/ /\ part = "rates" /\ Rates!Next
          /\ UNCHANGED <<vars, transactionVars, billVars, trendVars, breakdownVars>>
       \/ /\ part = "trend" /\ Trend!Next
          /\ UNCHANGED <<vars, transactionVars, billVars, rateVars, breakdownVars>>
       \/ /\ part = "breakdown" /\ Parts!Next
          /\ UNCHANGED <<vars, transactionVars, billVars, rateVars, trendVars>>

AllSpec == AllInit /\ [][AllNext]_allVars

\* A part that stands still is as it begins: its own instance looks at that state.
EditsAreStored == part = "transactions" => Transaction!TypeOK /\ Transaction!EditsAreStored
TranslationFitsName == part = "transactions" => Transaction!TranslationFitsName
ImportRestores == Transaction!ImportRestores
ExportAnswers == Transaction!ExportAnswers
ShownIsAccepted == part = "bill" => Bill!TypeOK /\ Bill!ShownIsAccepted
HandledMovesOn == Bill!HandledMovesOn
RatesAreHonest == part = "rates" => Rates!TypeOK /\ Rates!RatesAreHonest
TrendCountsOnce == part = "trend" => Trend!TypeOK /\ Trend!TrendCountsOnce
DrillDownAgrees == part = "breakdown" => Parts!TypeOK /\ Parts!DrillDownAgrees
=============================================================================
