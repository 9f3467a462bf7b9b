----------------------------- MODULE BillReminders -----------------------------
(***************************************************************************)
(* A bill that falls due again and again: the server, which holds which of *)
(* its due dates was paid and which was skipped last and accepts only      *)
(* dates of the schedule (backend/app/api/routers/planning.py), and the    *)
(* devices, which compute by themselves the due date that they show and    *)
(* send (expense_tracker_app/lib/core/planning_logic.dart,                 *)
(* screens/bill_reminders_screen.dart).                                    *)
(*                                                                         *)
(* The server counts in dates, a device in instants of its local clock.    *)
(* The calendar is a parameter: days are numbered, and a few short months  *)
(* and weeks have all the cases of the real ones.                          *)
(***************************************************************************)
EXTENDS Integers, Sequences

CONSTANTS
    Devices,
    MonthLengths, \* days in each month of the calendar, from the first year on
    MonthsInYear,
    Week,         \* days in a week
    LastToday,    \* bound on the days that pass; the next year is in the calendar
    Spring,       \* the day on which clocks go forward by an hour
    Autumn,       \* the day on which they go back
    None

\* What is taken of the constants; the instance for TLC assumes it.
CalendarAssumption ==
    /\ MonthLengths \in Seq(Nat \ {0})
    /\ MonthsInYear \in Nat \ {0} /\ Week \in Nat \ {0} /\ LastToday \in Nat \ {0}
    /\ Spring \in Nat /\ Autumn \in Nat

VARIABLES
    bill,   \* the reminder on the server
    loaded, \* the reminder as each device has loaded it
    today

vars == <<bill, loaded, today>>

-----------------------------------------------------------------------------
(* The calendar.                                                           *)

Months == 1..Len(MonthLengths)
First[m \in 1..(Len(MonthLengths) + 1)] == IF m = 1 THEN 1 ELSE First[m - 1] + MonthLengths[m - 1]
Days == 1..(First[Len(MonthLengths) + 1] - 1)
MonthOf(d) == CHOOSE m \in Months : First[m] <= d /\ d < First[m + 1]
DayOf(d) == d - First[MonthOf(d)] + 1
YearOf(d) == (MonthOf(d) - 1) \div MonthsInYear
InYear(d, year) == year * MonthsInYear + ((MonthOf(d) - 1) % MonthsInYear) + 1

\* The calendar goes on past the days that are looked at, by a week and by the
\* rest of the year and another.
HorizonAssumption ==
    /\ LastToday + Week \in Days
    /\ (YearOf(LastToday) + 2) * MonthsInYear <= Len(MonthLengths)

Smaller(a, b) == IF a < b THEN a ELSE b
Bigger(a, b) == IF a < b THEN b ELSE a

Recurrences == {"none", "daily", "weekly", "monthly", "yearly"}

\* No date at all is before every date.
Never == 0
Reminder == [recurrence : Recurrences, anchor : Days, paid : Days \cup {Never},
             skipped : Days \cup {Never}, active : BOOLEAN]

TypeOK ==
    /\ bill \in Reminder
    /\ loaded \in [Devices -> Reminder \cup {None}]
    /\ today \in 1..LastToday

Init ==
    /\ bill \in {b \in Reminder : /\ b.anchor <= LastToday /\ b.active
                                  /\ b.paid = Never /\ b.skipped = Never}
    /\ loaded = [d \in Devices |-> None]
    /\ today = 1

-----------------------------------------------------------------------------
(* The server's schedule.                                                  *)

\* A slip: the day is not clamped to the length of the month.
MonthlyUnclamped(anchor, month) == First[month] + DayOf(anchor) - 1

MonthlyDueDate(anchor, month) ==
    First[month] + Smaller(DayOf(anchor), MonthLengths[month]) - 1

YearlyDueDate(anchor, year) == MonthlyDueDate(anchor, InYear(anchor, year))

ExpectedDueDate(anchor, recurrence, target) ==
    CASE recurrence = "none" -> anchor
      [] recurrence = "daily" -> Bigger(target, anchor)
      [] recurrence = "weekly" ->
            IF target <= anchor THEN anchor
            ELSE anchor + ((target - anchor) \div Week) * Week
      [] recurrence = "yearly" -> YearlyDueDate(anchor, YearOf(target))
      [] recurrence = "monthly" -> MonthlyDueDate(anchor, MonthOf(target))

OnSchedule(b, due) ==
    /\ due >= b.anchor
    /\ due = ExpectedDueDate(b.anchor, b.recurrence, due)

-----------------------------------------------------------------------------
(* What a device shows.  An instant is a number of hours.                  *)

Start(d) == 24 * d - (IF Spring < d /\ d <= Autumn THEN 1 ELSE 0)
DateOf(t) == CHOOSE d \in 0..(t \div 24 + 1) : Start(d) <= t /\ t < Start(d + 1)

ShownMonthly(anchor, month) ==
    Start(First[month] + Smaller(DayOf(anchor), MonthLengths[month]) - 1)
ShownYearly(anchor, year) == ShownMonthly(anchor, InYear(anchor, year))
ShownWeekly(anchor, d) ==
    IF anchor > d THEN Start(anchor)
    ELSE Start(anchor) + (((Start(d) - Start(anchor)) \div 24) \div Week) * Week * 24

\* latestHandledBillReminderDueDate: one in the past of everything if there is none.
Handled(b) == Start(Bigger(b.paid, b.skipped))

\* The due date of the present period, or the next one if that was dealt with.
InPeriod(b, current, next) ==
    IF Start(b.anchor) > current THEN Start(b.anchor)
    ELSE IF Handled(b) >= current THEN next ELSE current

\* billReminderDueDateForList
DueForList(b) ==
    CASE ~b.active -> None
      [] b.active /\ b.recurrence = "none" ->
            IF Handled(b) >= Start(b.anchor) THEN None ELSE Start(b.anchor)
      [] b.active /\ b.recurrence = "daily" -> InPeriod(b, Start(today), Start(today) + 24)
      [] b.active /\ b.recurrence = "weekly" ->
            LET current == ShownWeekly(b.anchor, today) IN
            InPeriod(b, current, Start(DateOf(current)) + Week * 24)
      [] b.active /\ b.recurrence = "yearly" ->
            InPeriod(b, ShownYearly(b.anchor, YearOf(today)), ShownYearly(b.anchor, YearOf(today) + 1))
      [] b.active /\ b.recurrence = "monthly" ->
            InPeriod(b, ShownMonthly(b.anchor, MonthOf(today)), ShownMonthly(b.anchor, MonthOf(today) + 1))

Shown(d) == IF loaded[d] = None THEN None ELSE DueForList(loaded[d])

-----------------------------------------------------------------------------
(* Actions.                                                                *)

\* A new day; or clocks and lists are looked at another time.
Tomorrow ==
    /\ today < LastToday
    /\ today' = today + 1
    /\ UNCHANGED <<bill, loaded>>

\* list_bill_reminders leaves out an inactive bill that was never paid.
Listed(b) == IF b.active \/ b.paid # Never THEN b ELSE None

Load(d) ==
    /\ loaded' = [loaded EXCEPT ![d] = Listed(bill)]
    /\ UNCHANGED <<bill, today>>

\* The button of the due date that is shown; the list is loaded again.
MarkPaid(d) ==
    /\ Shown(d) # None
    /\ OnSchedule(bill, DateOf(Shown(d)))
    /\ bill' = [bill EXCEPT !.paid = Bigger(@, DateOf(Shown(d)))]
    /\ loaded' = [loaded EXCEPT ![d] = Listed(bill')]
    /\ UNCHANGED today

Skip(d) ==
    /\ Shown(d) # None
    /\ bill.active /\ bill.recurrence # "none"
    /\ OnSchedule(bill, DateOf(Shown(d)))
    /\ bill' = [bill EXCEPT !.skipped = Bigger(@, DateOf(Shown(d)))]
    /\ loaded' = [loaded EXCEPT ![d] = Listed(bill')]
    /\ UNCHANGED today

\* An answer that the bill is not there makes the device load the list again.
Delete(d) ==
    /\ loaded[d] # None
    /\ bill' = [bill EXCEPT !.active = FALSE]
    /\ loaded' = [loaded EXCEPT ![d] = Listed(bill')]
    /\ UNCHANGED today

Next ==
    \/ Tomorrow
    \/ \E d \in Devices : Load(d) \/ MarkPaid(d) \/ Skip(d) \/ Delete(d)

Spec == Init /\ [][Next]_vars

-----------------------------------------------------------------------------
(* Properties.                                                             *)

\* The server accepts as paid every due date that a device shows, however old
\* the device's list and whatever the lengths of the months and years between.
ShownIsAccepted ==
    \A d \in Devices : Shown(d) # None => OnSchedule(bill, DateOf(Shown(d)))

\* "daily reminders roll forward one day after being marked paid", and others by
\* a week, "to the next scheduled occurrence" or "to history": a due date that
\* was dealt with is not shown again.
HandledMovesOn ==
    [][\A d \in Devices : MarkPaid(d) \/ Skip(d) => Shown(d)' # Shown(d)]_vars

=============================================================================
