------------------------------- MODULE MonthWindow -----------------------------
(****************************************************************************)
(* The window of days by which the manager selects the orders of "month m": *)
(* confirmedPayment, getAllStore and getTotalProfitInAMonth of the admin    *)
(* service, and the dashboards of the seller service, all compute it with   *)
(*     currentDate.setMonth(month - 1)                                      *)
(* from today, and Between(first day, last day), each at 00:00.             *)
(*                                                                          *)
(* A date is a day; a month has the same length every year.                 *)
(****************************************************************************)
EXTENDS Integers

CONSTANTS
    LastMonth,   \* 12 in the code
    Length       \* Length[m]: the days of month m

Months == 1 .. LastMonth
Date   == {d \in [year : Nat, month : Months, day : Nat] : d.day \in 1 .. Length[d.month]}

(* A day that month m does not have falls into month m + 1, as it does with *)
(* the lengths of the calendar, whose last month is one of the longest.     *)
ASSUME MonthAssumption ==
    /\ LastMonth \in Nat \ {0}
    /\ Length \in [Months -> Nat \ {0}]
    /\ \A m, n \in Months : Length[n] > Length[m] =>
           m < LastMonth /\ Length[n] - Length[m] <= Length[m + 1]

Earlier(d, e) ==
    \/ d.year < e.year
    \/ d.year = e.year /\ d.month < e.month
    \/ d.year = e.year /\ d.month = e.month /\ d.day < e.day

SetMonthOffByOneSlip(d, m) ==
    IF m < LastMonth THEN [d EXCEPT !.month = m + 1] ELSE [d EXCEPT !.month = m]

(* Date.prototype.setMonth keeps the day of the month; a day that month m   *)
(* does not have runs over into the next month.                             *)
SetMonth(d, m) ==
    IF d.day <= Length[m]
    THEN [d EXCEPT !.month = m]
    ELSE [d EXCEPT !.month = m + 1, !.day = d.day - Length[m]]

FirstIsSecondSlip(d) == [d EXCEPT !.day = 2]

First(d) == [d EXCEPT !.day = 1]

LastRunsOverSlip(d) ==
    IF d.month = LastMonth THEN [d EXCEPT !.day = Length[d.month]]
    ELSE [d EXCEPT !.month = d.month + 1, !.day = 2]

Last(d) == [d EXCEPT !.day = Length[d.month]]

(* Between two midnights: nothing of the last day but its first instant,    *)
(* which is left out here.                                                  *)
InWindow(d, today, m) ==
    LET w == SetMonth(today, m)
    IN  ~Earlier(d, First(w)) /\ Earlier(d, Last(w))

(* today's day of the month exists in month m *)
Regular(today, m) == today.day <= Length[m]
================================================================================
