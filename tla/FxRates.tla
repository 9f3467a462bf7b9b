------------------------------- MODULE FxRates -------------------------------
(***************************************************************************)
(* The rate of one pair of currencies on a day: kept in exchange_rates,    *)
(* fetched from the first provider or, where it has none, from the second, *)
(* and taken from another day as the last resort                           *)
(* (backend/app/services/fx_rates.py).                                     *)
(*                                                                         *)
(* The first provider publishes rates on business days only and answers    *)
(* for any other day with the last one before; the second publishes every  *)
(* day but forgets some, for which the client asks for its latest.  An     *)
(* answer says which day it is of, or does not in a form that can be read. *)
(* A rate is known by the provider and the day it is of.  Lookups do not   *)
(* await, so each is one step.                                             *)
(***************************************************************************)
EXTENDS Naturals

CONSTANTS
    LastDay,   \* bound on the days
    Business,  \* the days on which the first provider publishes
    Forgotten, \* the days the second provider has no page for
    None

\* What is taken of the constants; the instance for TLC assumes it.
DaysAssumption == LastDay \in Nat \ {0} /\ Business \subseteq 1..LastDay

VARIABLES
    cached, \* exchange_rates: what is stored under each day
    pair,   \* whether the first provider has the two currencies
    today,
    answer  \* the last lookup and what it returned

vars == <<cached, pair, today, answer>>

-----------------------------------------------------------------------------
Days == 1..LastDay
Rate == [by : {"frankfurter", "currency_api"}, of : Days, dated : BOOLEAN]
Row == [rate : Rate, fallback : BOOLEAN]
Lookup == [rate : Rate, date : Days, fallback : BOOLEAN]

\* None is neither.
NoneAssumption == None \notin Row \cup Lookup

TypeOK ==
    /\ cached \in [Days -> Row \cup {None}]
    /\ pair \in BOOLEAN
    /\ today \in Days
    /\ answer \in [asked : Days, lookup : Lookup \cup {None}] \cup {None}

Init ==
    /\ cached = [d \in Days |-> None]
    /\ pair \in BOOLEAN
    /\ today = 1
    /\ answer = None

-----------------------------------------------------------------------------
(* The providers.                                                          *)

\* The rate of day d, as it is read: one without a date is taken for the target's.
Latest(days) == CHOOSE d \in days : \A e \in days : e <= d
Readings(by, d, latest, target) ==
    LET Read(date, dated) == [rate |-> [by |-> by, of |-> d, dated |-> dated],
                              date |-> date, fallback |-> latest \/ date # target]
    IN {Read(d, TRUE), Read(target, FALSE)}

\* A provider that cannot be reached, or whose rate cannot be read, has no
\* answer.  Today's rate comes out during the day.
FromFrankfurter(target) ==
    LET published == {{d \in Business : d <= target /\ d <= today},
                      {d \in Business : d <= target /\ d < today}}
    IN {None} \cup (UNION {Readings("frankfurter", Latest(days), FALSE, target) :
                            days \in published \ {{}}})

\* No page for the day, or none yet: the latest instead.
FromCurrencyApi(target) ==
    LET page == {target} \cap ((1..today) \ Forgotten)
        latest == IF target < today /\ target \notin Forgotten THEN {}
                  ELSE {today - 1, today} \cap Days
    IN {None} \cup (UNION {Readings("currency_api", d, FALSE, target) : d \in page})
              \cup (UNION {Readings("currency_api", d, TRUE, target) : d \in latest})

\* _fetch_rate_from_provider
Fetched(target) ==
    (IF pair THEN FromFrankfurter(target) \ {None} ELSE {}) \cup FromCurrencyApi(target)

-----------------------------------------------------------------------------
(* The lookup.                                                             *)

Stored == {d \in Days : cached[d] # None}
FromRow(d, fallback) == [rate |-> cached[d].rate, date |-> d, fallback |-> fallback]

\* A slip: the rate is stored for the day that was asked for.
UnderTarget(target, fetched) == target

\* The day under which a rate is stored.
KeptUnder(target, fetched) == fetched.date

\* The stored rate of the day itself.
Exact(target) ==
    /\ target \in Stored
    /\ answer' = [asked |-> target, lookup |-> FromRow(target, cached[target].fallback)]
    /\ UNCHANGED <<cached, pair, today>>

\* What a provider answers is stored, over what is there for its day.
Fetch(target) ==
    /\ target \notin Stored
    /\ \E f \in Fetched(target) \ {None} :
        /\ cached' = [cached EXCEPT ![KeptUnder(target, f)] =
                        [rate |-> f.rate, fallback |-> f.fallback]]
        /\ answer' = [asked |-> target, lookup |-> f]
    /\ UNCHANGED <<pair, today>>

\* Neither answers: the last day before it, else the last of all.
Fallback(target) ==
    LET before == {d \in Stored : d <= target} IN
    /\ target \notin Stored
    /\ answer' = [asked |-> target, lookup |->
                    IF before # {} THEN FromRow(Latest(before), TRUE)
                    ELSE IF Stored # {} THEN FromRow(Latest(Stored), TRUE) ELSE None]
    /\ UNCHANGED <<cached, pair, today>>

Tomorrow ==
    /\ today < LastDay
    /\ today' = today + 1
    /\ UNCHANGED <<cached, pair, answer>>

Next ==
    \/ \E d \in Days : Exact(d) \/ Fetch(d) \/ Fallback(d)
    \/ Tomorrow

Spec == Init /\ [][Next]_vars

-----------------------------------------------------------------------------
(* Properties.                                                             *)

\* A rate is of the day it is said to be of, unless it came without a date: then
\* one of the second provider's is marked, and one of the first's is of the last
\* business day before.
Honest(kept, date, fallback) ==
    \/ kept.of = date
    \/ ~kept.dated /\ IF kept.by = "frankfurter" THEN kept.of < date ELSE fallback

\* Whatever the providers answer, from the day itself or another one, with a date
\* or without, and however often they fail: an amount is converted with a rate
\* that is honest about its day, fetched or stored by any earlier lookup, and one
\* said to be of another day than was asked for is marked as such.
RatesAreHonest ==
    answer # None /\ answer.lookup # None =>
        /\ Honest(answer.lookup.rate, answer.lookup.date, answer.lookup.fallback)
        /\ answer.lookup.date # answer.asked => answer.lookup.fallback

=============================================================================
