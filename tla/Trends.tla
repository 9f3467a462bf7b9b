-------------------------------- MODULE Trends --------------------------------
(***************************************************************************)
(* The trend of a user's spending over a range of time: which rows are of  *)
(* the range, which of the range of the same length before, and into which *)
(* bucket, a day, a week or a month, each row goes                         *)
(* (backend/app/services/transactions/read_models.py,                      *)
(* backend/app/api/routers/transactions_analytics.py).                     *)
(*                                                                         *)
(* An instant is a number of ticks, the smallest step of the clock.  The   *)
(* app sends bounds in UTC.  A row stands for what was spent with it: every *)
(* row is converted and added by itself, so the sums are right exactly if  *)
(* the rows are.                                                           *)
(***************************************************************************)
EXTENDS Integers, Sequences

CONSTANTS
    Rows,
    MonthLengths,  \* days in each month of the calendar
    Ticks,         \* ticks in a day
    Week,          \* days in a week
    ByDay, ByWeek, \* the longest ranges, in days, shown by day and by week
    Now,
    None

\* What is taken of the constants; the instance for TLC assumes it.
CalendarAssumption ==
    /\ MonthLengths \in Seq(Nat \ {0})
    /\ Ticks \in Nat \ {0} /\ Week \in Nat \ {0} /\ ByDay \in Nat /\ ByWeek \in Nat

VARIABLES
    range,   \* from_occurred_at and to_occurred_at of the request
    occurred, created, \* of each row
    answer

vars == <<range, occurred, created, answer>>

-----------------------------------------------------------------------------
First[m \in 1..(Len(MonthLengths) + 1)] == IF m = 1 THEN 1 ELSE First[m - 1] + MonthLengths[m - 1]
Days == 1..(First[Len(MonthLengths) + 1] - 1)
Instants == 0..(Ticks * (First[Len(MonthLengths) + 1] - 1) - 1)

\* Today is in the calendar, and None is no instant.
NowAssumption == Now \in Instants
NoneAssumption == None \notin Int

DateOf(t) == t \div Ticks + 1
Smaller(a, b) == IF a < b THEN a ELSE b
Bigger(a, b) == IF a < b THEN b ELSE a
Smallest(S) == CHOOSE n \in S : \A m \in S : n <= m

Bucket == [start : Days, end : Days, rows : SUBSET Rows]

TypeOK ==
    /\ range \in [from : Instants \cup {None}, to : Instants \cup {None}]
    /\ occurred \in [Rows -> Instants \cup {None}]
    /\ created \in [Rows -> Instants]
    /\ \/ answer = None
       \/ /\ answer.buckets \subseteq Bucket
          /\ answer.current \subseteq Rows /\ answer.previous \subseteq Rows

Init ==
    /\ range \in [from : Instants \cup {None}, to : Instants \cup {None}]
    /\ occurred \in [Rows -> Instants \cup {None}]
    /\ created \in [Rows -> {t \in Instants : t <= Now /\ t % Ticks = 0}]
    /\ answer = None

-----------------------------------------------------------------------------
(* The range and the one before it.                                        *)

\* _build_filtered_transaction_ids_query: a row without a date is in no range
\* that has a bound.
Within(from, to) ==
    {r \in Rows : /\ from # None => occurred[r] # None /\ occurred[r] >= from
                  /\ to # None => occurred[r] # None /\ occurred[r] <= to}

\* _resolve_analytics_period_bounds
End == IF range.to = None THEN Now ELSE range.to

\* A slip: the range before ends where the present one begins.
TouchingEnd == range.from

\* _build_previous_period_filters, for a range with a beginning.
Window == IF End > range.from THEN End - range.from ELSE Ticks
PreviousEnd == range.from - 1
PreviousRows == Within(PreviousEnd - Window, PreviousEnd)

\* resolve_conversion_date
SpendDate(r) == DateOf(IF occurred[r] # None THEN occurred[r] ELSE created[r])

-----------------------------------------------------------------------------
(* The buckets.                                                            *)

\* _infer_analytics_bucket_unit
Span == Bigger(1, DateOf(End) - DateOf(range.from) + 1)
Unit ==
    IF range.from = None THEN "month"
    ELSE IF Span <= ByDay THEN "day" ELSE IF Span <= ByWeek THEN "week" ELSE "month"

LastOfMonth(d) == (CHOOSE n \in {First[m + 1] : m \in 1..Len(MonthLengths)} :
                    n > d /\ \A m \in 1..Len(MonthLengths) : First[m] <= d \/ First[m] >= n) - 1

\* The last day of the bucket that begins on a day.
BucketEnd(d, end) ==
    CASE Unit = "day" -> d
      [] Unit = "week" -> Smaller(d + Week - 1, end)
      [] Unit = "month" -> Smaller(LastOfMonth(d), end)

\* _iter_trend_bucket_ranges
Ranges(start, end) ==
    LET from[d \in start..(end + 1)] ==
            IF d > end THEN {} ELSE {<<d, BucketEnd(d, end)>>} \cup from[BucketEnd(d, end) + 1]
    IN IF start > end THEN {} ELSE from[start]

\* Where the first bucket begins.
StartDate(rows) ==
    IF range.from # None THEN DateOf(range.from)
    ELSE IF rows # {} THEN Smallest({SpendDate(r) : r \in rows}) ELSE DateOf(End)

-----------------------------------------------------------------------------
\* get_transaction_trend_summary
Summarise ==
    LET rows == Within(range.from, range.to) IN
    /\ answer = None
    /\ answer' =
        [current |-> rows,
         previous |-> IF range.from = None THEN {} ELSE PreviousRows,
         buckets |-> {[start |-> b[1], end |-> b[2],
                       rows |-> {r \in rows : b[1] <= SpendDate(r) /\ SpendDate(r) <= b[2]}] :
                        b \in Ranges(StartDate(rows), DateOf(End))}]
    /\ UNCHANGED <<range, occurred, created>>

Next == Summarise
Spec == Init /\ [][Next]_vars

-----------------------------------------------------------------------------
(* Properties.                                                             *)

\* Spending counts once: no row is of the range and of the one before it, or in
\* two buckets, and the buckets add up to the total, but for rows dated after
\* today where the request names no end.  The range before is as long as this one.
TrendCountsOnce ==
    answer # None =>
        /\ answer.current \cap answer.previous = {}
        /\ \A r \in answer.current, b, c \in answer.buckets :
            r \in b.rows /\ r \in c.rows => b = c
        /\ \A r \in answer.current :
            \/ \E b \in answer.buckets : r \in b.rows
            \/ range.to = None /\ SpendDate(r) > DateOf(Now)
        /\ range.from # None /\ range.from < End =>
            \A r \in Rows : r \in answer.previous <=>
                occurred[r] # None /\ occurred[r] < range.from
                /\ range.from - occurred[r] <= End - range.from + 1

=============================================================================
