------------------------------- MODULE Statistics ------------------------------
(****************************************************************************)
(* The figures that sellers and administrators are shown, computed while    *)
(* Payments goes on:                                                        *)
(*   chart      getDataIncomeEachMonth: a store's income, month by month    *)
(*   dashboard  getStatisticalDataDashBoard: a store's income in a month    *)
(*   income     getAllStore: every store's income in a month                *)
(*   profits    getDataIncomeEachMonthAdmin: the payments, month by month   *)
(* Each asks the database once for every cell of its table, awaiting the    *)
(* answer before the next; the chart asks the clock for every cell as well. *)
(*                                                                          *)
(* A figure is the sum over rows; the rows are kept here.                   *)
(****************************************************************************)
EXTENDS Payments

Cell  == [store : Stores, month : Months]
Entry == [cell : Cell, day : Date, rows : SUBSET Order \cup SUBSET Payment]

VARIABLE view    \* view[r]: what the handler of a view has gathered

statistics == <<vars, view>>

NoView == [at |-> "new", on |-> NewYear, todo |-> {}, entries |-> {},
           began |-> {}, paid |-> {}]    \* history: both tables when it began

StatisticsInit == Init /\ view = [r \in Requests |-> NoView]

Cells(j) ==
    CASE j.kind \in {"chart", "profits"} -> {[store |-> j.store, month |-> m] : m \in Months}
      [] j.kind = "dashboard"            -> {[store |-> j.store, month |-> j.month]}
      [] j.kind = "income"               -> {[store |-> s, month |-> j.month] : s \in Stores}

ViewBegin(r) ==
    /\ view[r].at = "new" /\ job[r].kind \in Views
    /\ view' = [view EXCEPT ![r] = [at |-> "reading", on |-> today, entries |-> {},
                                    todo |-> Cells(job[r]),
                                    began |-> orders, paid |-> payments]]
    /\ UNCHANGED vars

OrdersOfMonthBeforeSlip(c, day) ==
    LET m == IF c.month = 1 THEN LastMonth ELSE c.month - 1
    IN  {o \in orders : o.storeId = c.store /\ InWindow(o.createdAt, day, m)}

OrdersIn(c, day) ==
    {o \in orders : o.storeId = c.store /\ InWindow(o.createdAt, day, c.month)}

PaymentsIn(c, day) == {p \in payments : p.month = c.month /\ p.year = day.year}

(* The next month of the list, or any of the stores of the page. *)
ViewCell(r) ==
    /\ view[r].at = "reading"
    /\ \E c \in view[r].todo :
          LET j   == job[r]
              day == IF j.kind = "chart" THEN today ELSE view[r].on
          IN  /\ \A d \in view[r].todo : c.month <= d.month
              /\ view' = [view EXCEPT
                    ![r].todo = @ \ {c},
                    ![r].at = IF view[r].todo = {c} THEN "done" ELSE "reading",
                    ![r].entries = @ \cup
                        {[cell |-> c, day |-> day,
                          rows |-> IF j.kind = "profits" THEN PaymentsIn(c, day)
                                   ELSE OrdersIn(c, day)]}]
    /\ UNCHANGED vars

(* The manager dies, and with it the views it was gathering. *)
StatisticsCrash ==
    /\ Crash
    /\ view' = [r \in Requests |-> IF view[r].at = "reading"
                                   THEN [NoView EXCEPT !.at = "lost"] ELSE view[r]]

StatisticsNext ==
    \/ \E r \in Requests : ViewBegin(r) \/ ViewCell(r)
    \/ /\ \/ \E r \in Requests : \/ BookOrder(r) \/ Confirm(r) \/ EditFind(r)
                                 \/ SaveStoreSelect(r) \/ SaveStoreUpdate(r)
          \/ Tick
       /\ UNCHANGED view
    \/ StatisticsCrash

StatisticsSpec == StatisticsInit /\ [][StatisticsNext]_statistics

--------------------------------------------------------------------------------
(* Properties *)

Sold(r) == job[r].kind \in Views \ {"profits"}    \* it shows orders

(* What a view shows for a store and month, on a day that the month has too, *)
(* is orders of that store and month of this year, all of those stored when  *)
(* the view was asked for but the ones of the month's last day, although     *)
(* orders are booked and days pass while it is gathered.                     *)
ViewsAreTheMonth ==
    \A r \in Requests : Sold(r) => \A e \in view[r].entries :
        LET Month(O) == {o \in O : /\ o.storeId = e.cell.store
                                   /\ o.createdAt.year = e.day.year
                                   /\ o.createdAt.month = e.cell.month}
        IN  Regular(e.day, e.cell.month) =>
               /\ e.rows \subseteq Month(orders)
               /\ \A o \in Month(view[r].began) :
                     o.createdAt.day < Length[e.cell.month] => o \in e.rows

(* No order is counted in two cells of a view, and no payment: on days that *)
(* all its months have, even when midnight or New Year falls between them.  *)
CountedOnce ==
    \A r \in Requests :
        (\A e \in view[r].entries : Regular(e.day, e.cell.month)) =>
            \A e, f \in view[r].entries : e # f => e.rows \cap f.rows = {}

(* The profit of a month is never more than 17 % of the income the stores   *)
(* are shown with for that month afterwards, on a day the month has: what   *)
(* was billed is on the administrator's list, to the last order, while      *)
(* confirmations come one at a time and on such days.                       *)
ProfitWithinIncome ==
    \A r \in Requests :
        LET v    == view[r]
            m    == job[r].month
            paid == {p \in v.paid : p.month = m /\ p.year = v.on.year}
        IN  /\ job[r].kind = "income" /\ v.at = "done" /\ Regular(v.on, m)
            /\ alone /\ \A p \in payments : Regular(p.on, p.month)
            => 100 * MapThenSumSet(LAMBDA p : p.totalProfit, paid)
                  <= 17 * TotalIncome(UNION {e.rows : e \in v.entries})
================================================================================
