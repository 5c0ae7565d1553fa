---------------------------- MODULE Statistics_proofs --------------------------
(****************************************************************************)
(* The figures shown: each cell of a view holds the orders of its store and *)
(* month, and no two cells share one, for any calendar, stores and requests *)
(* and although orders are stored and days pass while a view is gathered.   *)
(* The views add nothing to what Payments does, and the income they show    *)
(* covers the profit stored.                                                *)
(****************************************************************************)
EXTENDS Statistics, Payments_proofs

(* A cell is asked for once. *)
CellsOnce(r) ==
    /\ view[r].todo \subseteq Cells(job[r])
    /\ \A e \in view[r].entries : e.cell \in Cells(job[r]) \ view[r].todo
    /\ \A e, f \in view[r].entries : e.cell = f.cell => e = f

(* An entry that shows orders was read from the window of its day: at least *)
(* what was there when the view began.                                      *)
Windowed(r) ==
    /\ view[r].began \subseteq orders
    /\ Sold(r) => \A e \in view[r].entries :
          /\ e.day \in Date /\ e.rows \subseteq orders
          /\ \A o \in e.rows : o.storeId = e.cell.store
                               /\ InWindow(o.createdAt, e.day, e.cell.month)
          /\ \A o \in view[r].began :
                o.storeId = e.cell.store /\ InWindow(o.createdAt, e.day, e.cell.month)
                => o \in e.rows

Paying(r) ==
    job[r].kind = "profits" =>
        \A e \in view[r].entries : \A p \in e.rows : p.month = e.cell.month

Begun(r) ==
    /\ job[r].kind \notin Views => view[r].entries = {} /\ view[r].todo = {}
    /\ view[r].on \in Date
    /\ DOMAIN view[r] = {"at", "on", "todo", "entries", "began", "paid"}

ViewOK(r) == CellsOnce(r) /\ Windowed(r) /\ Paying(r) /\ Begun(r)

ViewInv == /\ Types
           /\ DOMAIN view = Requests
           /\ \A r \in Requests : ViewOK(r)

--------------------------------------------------------------------------------
(* The views only look: what Payments may do is all that happens to its     *)
(* tables.                                                                  *)
LEMMA OnlyPayments == [StatisticsNext]_statistics => [Next]_vars
<1> SUFFICES ASSUME [StatisticsNext]_statistics PROVE [Next]_vars
    OBVIOUS
<1>1. CASE \E r \in Requests : ViewBegin(r) \/ ViewCell(r)
    BY <1>1 DEF ViewBegin, ViewCell
<1>2. CASE \/ \E r \in Requests : \/ BookOrder(r) \/ Confirm(r) \/ EditFind(r)
                                  \/ SaveStoreSelect(r) \/ SaveStoreUpdate(r)
           \/ Tick
    BY <1>2 DEF Next
<1>3. CASE StatisticsCrash
    BY <1>3 DEF StatisticsCrash, Next
<1>4. CASE UNCHANGED statistics
    BY <1>4 DEF statistics
<1>5. QED  BY <1>1, <1>2, <1>3, <1>4 DEF StatisticsNext

(* Payments goes on underneath the statistics as it does without them. *)
THEOREM StatisticsOnlyLook == StatisticsSpec => Spec
<1>1. QED  BY OnlyPayments, PTL DEF StatisticsSpec, StatisticsInit, Spec

LEMMA OrdersStay ==
    ASSUME Types, [Next]_vars
    PROVE  orders \subseteq orders' /\ job' = job
<1>1. CASE UNCHANGED vars  BY <1>1 DEF vars
<1>2. ASSUME NEW r \in Requests,
             BookOrder(r) \/ Confirm(r) \/ EditFind(r)
             \/ SaveStoreSelect(r) \/ SaveStoreUpdate(r)
      PROVE  orders \subseteq orders' /\ job' = job
    BY <1>2 DEF BookOrder, Confirm, ConfirmOrders, ConfirmFindStore, ConfirmExisting,
                ConfirmInsert, EditFind, SaveStoreSelect, SaveStoreUpdate, tables
<1>3. CASE Crash \/ Tick  BY <1>3 DEF Crash, Tick, tables
<1>4. QED  BY <1>1, <1>2, <1>3 DEF Next

LEMMA CellsType ==
    ASSUME NEW j \in Job, j.kind \in Views
    PROVE  Cells(j) \subseteq Cell
<1>1. CASE j.kind \in {"chart", "profits"}
    BY <1>1 DEF Cells, Job, Cell
<1>2. CASE j.kind = "dashboard"
    BY <1>2 DEF Cells, Job, Cell
<1>3. CASE j.kind = "income"
    BY <1>3 DEF Cells, Job, Cell
<1>4. QED  BY <1>1, <1>2, <1>3 DEF Views

LEMMA KeptView ==
    ASSUME ViewInv, NEW r \in Requests, view'[r] = view[r],
           orders \subseteq orders', job' = job
    PROVE  ViewOK(r)'
<1>1. ViewOK(r)
    BY DEF ViewInv
<1>2. QED  BY <1>1 DEF ViewOK, CellsOnce, Windowed, Paying, Begun, Sold

LEMMA BeginView ==
    ASSUME ViewInv, NEW r \in Requests, ViewBegin(r)
    PROVE  ViewOK(r)'
<1>1. /\ view'[r] = [at |-> "reading", on |-> today, entries |-> {},
                     todo |-> Cells(job[r]), began |-> orders, paid |-> payments]
      /\ job[r].kind \in Views /\ UNCHANGED vars
    BY DEF ViewBegin, ViewInv
<1>2. today \in Date /\ job' = job /\ orders' = orders
    BY <1>1 DEF ViewInv, Types, vars
<1>3. QED  BY <1>1, <1>2 DEF ViewOK, CellsOnce, Windowed, Paying, Begun, Sold

LEMMA CellOfView ==
    ASSUME ViewInv, NEW r \in Requests, ViewCell(r)
    PROVE  ViewOK(r)'
<1> DEFINE day == IF job[r].kind = "chart" THEN today ELSE view[r].on
<1>1. ViewOK(r) /\ UNCHANGED vars /\ Types
    BY DEF ViewInv, ViewCell
<1>2. PICK c \in view[r].todo :
        view' = [view EXCEPT
            ![r].todo = @ \ {c},
            ![r].at = IF view[r].todo = {c} THEN "done" ELSE "reading",
            ![r].entries = @ \cup
                {[cell |-> c, day |-> day,
                  rows |-> IF job[r].kind = "profits" THEN PaymentsIn(c, day)
                           ELSE OrdersIn(c, day)]}]
    BY DEF ViewCell
<1> DEFINE new == [cell |-> c, day |-> day,
                   rows |-> IF job[r].kind = "profits" THEN PaymentsIn(c, day)
                            ELSE OrdersIn(c, day)]
<1>3. /\ view'[r].todo = view[r].todo \ {c}
      /\ view'[r].entries = view[r].entries \cup {new}
      /\ view'[r].began = view[r].began /\ view'[r].on = view[r].on
      /\ DOMAIN view'[r] = DOMAIN view[r]
    <2>1. /\ r \in DOMAIN view
          /\ DOMAIN view[r] = {"at", "on", "todo", "entries", "began", "paid"}
        BY <1>1 DEF ViewInv, ViewOK, Begun
    <2> HIDE DEF day
    <2>2. QED  BY <1>2, <2>1
<1>4. job' = job /\ orders' = orders
    BY <1>1 DEF vars
<1>5. day \in Date
    BY <1>1 DEF ViewOK, Begun, Types
<1>6. job[r].kind \in Views
    BY <1>1 DEF ViewOK, Begun
<1>7. CellsOnce(r)'
    BY <1>1, <1>3, <1>4 DEF ViewOK, CellsOnce
<1>8. Windowed(r)'
    <2>1. new.day \in Date /\ new.cell = c /\ new.day = day
        BY <1>5
    <2>2. job[r].kind # "profits" => new.rows = OrdersIn(c, day)
        OBVIOUS
    <2>3. OrdersIn(c, day) = {o \in orders : o.storeId = c.store
                                              /\ InWindow(o.createdAt, day, c.month)}
        BY DEF OrdersIn
    <2> HIDE DEF day, new
    <2>4. QED  BY <1>1, <1>3, <1>4, <2>1, <2>2, <2>3 DEF ViewOK, Windowed, Sold
<1>9. Paying(r)'
    <2>1. job[r].kind = "profits" => \A p \in new.rows : p.month = new.cell.month
        BY DEF PaymentsIn
    <2> HIDE DEF new
    <2>2. QED  BY <1>1, <1>3, <1>4, <2>1 DEF ViewOK, Paying
<1>10. Begun(r)'
    BY <1>1, <1>3, <1>4, <1>6 DEF ViewOK, Begun
<1>11. QED  BY <1>7, <1>8, <1>9, <1>10 DEF ViewOK

LEMMA LostView ==
    ASSUME ViewInv, NEW r \in Requests, view'[r] = [NoView EXCEPT !.at = "lost"],
           job' = job
    PROVE  ViewOK(r)'
<1>1. /\ view'[r].todo = {} /\ view'[r].entries = {} /\ view'[r].began = {}
      /\ view'[r].on = NewYear
      /\ DOMAIN view'[r] = {"at", "on", "todo", "entries", "began", "paid"}
    BY DEF NoView
<1>2. NewYear \in Date
    BY MonthAssumption DEF NewYear, Date, Months
<1>3. QED  BY <1>1, <1>2 DEF ViewOK, CellsOnce, Windowed, Paying, Begun

LEMMA ViewStep == ViewInv /\ BillInv /\ [StatisticsNext]_statistics => ViewInv'
<1> SUFFICES ASSUME ViewInv, BillInv, [StatisticsNext]_statistics PROVE ViewInv'
    OBVIOUS
<1>1. orders \subseteq orders' /\ job' = job /\ Types'
    BY OnlyPayments, OrdersStay, BillNext DEF ViewInv, BillInv
<1>2. CASE UNCHANGED view
    BY <1>1, <1>2, KeptView DEF ViewInv
<1>3. ASSUME NEW r \in Requests, ViewBegin(r) PROVE ViewInv'
    <2>1. /\ DOMAIN view' = Requests
          /\ \A s \in Requests \ {r} : view'[s] = view[s]
        BY <1>3 DEF ViewBegin, ViewInv
    <2>2. QED  BY <1>1, <1>3, <2>1, KeptView, BeginView DEF ViewInv
<1>4. ASSUME NEW r \in Requests, ViewCell(r) PROVE ViewInv'
    <2>1. /\ DOMAIN view' = Requests
          /\ \A s \in Requests \ {r} : view'[s] = view[s]
        BY <1>4 DEF ViewCell, ViewInv
    <2>2. QED  BY <1>1, <1>4, <2>1, KeptView, CellOfView DEF ViewInv
<1>5. CASE StatisticsCrash
    <2>1. /\ DOMAIN view' = Requests
          /\ \A s \in Requests : \/ view'[s] = view[s]
                                  \/ view'[s] = [NoView EXCEPT !.at = "lost"]
        BY <1>5 DEF StatisticsCrash
    <2>2. QED  BY <1>1, <2>1, KeptView, LostView DEF ViewInv
<1>6. QED
    BY <1>2, <1>3, <1>4, <1>5 DEF StatisticsNext, statistics

LEMMA ViewStart == StatisticsInit => ViewInv
<1> SUFFICES ASSUME StatisticsInit PROVE ViewInv
    OBVIOUS
<1>1. Types
    BY BillInit DEF StatisticsInit, BillInv
<1>2. NewYear \in Date
    BY MonthAssumption DEF NewYear, Date, Months
<1>3. DOMAIN view = Requests /\ \A r \in Requests : view[r] = NoView
    BY DEF StatisticsInit
<1>4. QED
    BY <1>1, <1>2, <1>3 DEF ViewInv, ViewOK, CellsOnce, Windowed, Paying, Begun, NoView

(* What a view has gathered is what its handler read, in every state.       *)
THEOREM ViewsHold == StatisticsSpec => [](ViewInv /\ BillInv)
<1>1. StatisticsInit => ViewInv /\ BillInv
    BY ViewStart, BillInit DEF StatisticsInit
<1>2. ViewInv /\ BillInv /\ [StatisticsNext]_statistics => ViewInv' /\ BillInv'
    BY ViewStep, BillNext, OnlyPayments
<1>3. QED  BY <1>1, <1>2, PTL DEF StatisticsSpec

--------------------------------------------------------------------------------
(* A cell that was read is one of the view's, and its month is a month. *)
LEMMA EntryCell ==
    ASSUME ViewInv, NEW r \in Requests, NEW e \in view[r].entries
    PROVE  e.cell \in Cells(job[r]) /\ e.cell \in Cell /\ job[r].kind \in Views
<1>1. job[r] \in Job
    BY DEF ViewInv, Types
<1>2. e.cell \in Cells(job[r]) /\ job[r].kind \in Views
    BY DEF ViewInv, ViewOK, CellsOnce, Begun
<1>3. QED  BY <1>1, <1>2, CellsType

LEMMA ShownMonth ==
    ASSUME ViewInv, NEW r \in Requests, Sold(r), NEW e \in view[r].entries,
           Regular(e.day, e.cell.month), NEW o \in orders
    PROVE  InWindow(o.createdAt, e.day, e.cell.month) <=>
               /\ o.createdAt.year = e.day.year
               /\ o.createdAt.month = e.cell.month
               /\ o.createdAt.day < Length[e.cell.month]
<1>1. e.cell.month \in Months
    BY EntryCell DEF Cell
<1>2. e.day \in Date
    BY DEF ViewInv, ViewOK, Windowed
<1>3. o.createdAt \in Date
    BY OrderDate DEF ViewInv, Types
<1>4. QED  BY <1>1, <1>2, <1>3, RegularWindow

LEMMA MonthShown == ViewInv => ViewsAreTheMonth
<1> SUFFICES ASSUME ViewInv, NEW r \in Requests, Sold(r), NEW e \in view[r].entries,
                    Regular(e.day, e.cell.month)
             PROVE  LET Month(O) == {o \in O : /\ o.storeId = e.cell.store
                                                /\ o.createdAt.year = e.day.year
                                                /\ o.createdAt.month = e.cell.month}
                    IN  /\ e.rows \subseteq Month(orders)
                        /\ \A o \in Month(view[r].began) :
                              o.createdAt.day < Length[e.cell.month] => o \in e.rows
    BY DEF ViewsAreTheMonth
<1>1. Windowed(r)
    BY DEF ViewInv, ViewOK
<1>2. ASSUME NEW o \in e.rows
      PROVE  /\ o \in orders /\ o.storeId = e.cell.store
             /\ o.createdAt.year = e.day.year /\ o.createdAt.month = e.cell.month
    <2>1. /\ o \in orders /\ o.storeId = e.cell.store
          /\ InWindow(o.createdAt, e.day, e.cell.month)
        BY <1>1 DEF Windowed
    <2>2. QED  BY <2>1, ShownMonth
<1>3. ASSUME NEW o \in view[r].began, o.storeId = e.cell.store,
             o.createdAt.year = e.day.year, o.createdAt.month = e.cell.month,
             o.createdAt.day < Length[e.cell.month]
      PROVE  o \in e.rows
    <2>1. o \in orders
        BY <1>1 DEF Windowed
    <2>2. InWindow(o.createdAt, e.day, e.cell.month)
        BY <1>3, <2>1, ShownMonth
    <2>3. QED  BY <1>1, <1>3, <2>2 DEF Windowed
<1>4. QED  BY <1>2, <1>3

LEMMA OnceCounted == ViewInv => CountedOnce
<1> SUFFICES ASSUME ViewInv, NEW r \in Requests,
                    \A e \in view[r].entries : Regular(e.day, e.cell.month),
                    NEW e \in view[r].entries, NEW f \in view[r].entries, e # f,
                    NEW o \in e.rows, o \in f.rows
             PROVE  FALSE
    BY DEF CountedOnce
<1>1. e.cell # f.cell
    BY DEF ViewInv, ViewOK, CellsOnce
<1>2. /\ e.cell \in Cells(job[r]) /\ e.cell \in Cell
      /\ f.cell \in Cells(job[r]) /\ f.cell \in Cell /\ job[r].kind \in Views
    BY EntryCell
<1>3. e.cell.store # f.cell.store \/ e.cell.month # f.cell.month
    BY <1>1, <1>2 DEF Cell
<1>4. CASE job[r].kind = "profits"
    <2>1. e.cell.store = f.cell.store
        BY <1>2, <1>4 DEF Cells
    <2>2. o.month = e.cell.month /\ o.month = f.cell.month
        BY <1>4 DEF ViewInv, ViewOK, Paying
    <2>3. QED  BY <1>3, <2>1, <2>2
<1>5. CASE job[r].kind # "profits"
    <2>1. Sold(r)
        BY <1>2, <1>5 DEF Sold
    <2>2. /\ o \in orders
          /\ o.storeId = e.cell.store /\ InWindow(o.createdAt, e.day, e.cell.month)
          /\ o.storeId = f.cell.store /\ InWindow(o.createdAt, f.day, f.cell.month)
        BY <2>1 DEF ViewInv, ViewOK, Windowed
    <2>3. o.createdAt.month = e.cell.month /\ o.createdAt.month = f.cell.month
        BY <2>1, <2>2, ShownMonth
    <2>4. QED  BY <1>3, <2>2, <2>3
<1>6. QED  BY <1>4, <1>5

(* A cell shows the orders of its store and month, none left out that was   *)
(* stored when the view was asked for: ViewsAreTheMonth, for every instance. *)
THEOREM MonthsShown == StatisticsSpec => []ViewsAreTheMonth
<1>1. QED  BY ViewsHold, MonthShown, PTL

(* No order and no payment is in two cells: CountedOnce, for every instance. *)
THEOREM NothingTwice == StatisticsSpec => []CountedOnce
<1>1. QED  BY ViewsHold, OnceCounted, PTL

(* What Payments proves of payments holds while figures are shown.          *)
THEOREM StillTheMonth == StatisticsSpec => []BillIsTheMonth
<1>1. QED  BY ViewsHold, BillImplies, PTL

--------------------------------------------------------------------------------
(* What a view holds of both tables when it began, and of its cells.        *)
Gathered(r) ==
    /\ view[r].paid \subseteq payments
    /\ \A p \in view[r].paid : p.of \subseteq view[r].began
    /\ view[r].at = "done" => view[r].todo = {}
    /\ view[r].at \in {"reading", "done"} =>
           \A c \in Cells(job[r]) \ view[r].todo : \E e \in view[r].entries : e.cell = c
    /\ job[r].kind = "income" => \A e \in view[r].entries : e.day = view[r].on

Gathering == \A r \in Requests : Gathered(r)

LEMMA PaymentsStay ==
    ASSUME [Next]_vars
    PROVE  payments \subseteq payments'
<1>1. CASE UNCHANGED vars  BY <1>1 DEF vars
<1>2. ASSUME NEW r \in Requests, ConfirmInsert(r) PROVE payments \subseteq payments'
    BY <1>2 DEF ConfirmInsert
<1>3. ASSUME NEW r \in Requests,
             \/ BookOrder(r) \/ ConfirmOrders(r) \/ ConfirmFindStore(r)
             \/ ConfirmExisting(r) \/ EditFind(r) \/ SaveStoreSelect(r)
             \/ SaveStoreUpdate(r)
      PROVE  payments \subseteq payments'
    BY <1>3 DEF BookOrder, ConfirmOrders, ConfirmFindStore, ConfirmExisting, EditFind,
                SaveStoreSelect, SaveStoreUpdate, tables
<1>4. CASE Crash \/ Tick
    BY <1>4 DEF Crash, Tick, tables
<1>5. QED  BY <1>1, <1>2, <1>3, <1>4 DEF Next, Confirm

LEMMA GatheringKept ==
    ASSUME Gathering, NEW r \in Requests, view'[r] = view[r],
           payments \subseteq payments', job' = job
    PROVE  Gathered(r)'
<1>1. Cells(job[r])' = Cells(job[r])
    BY DEF Cells
<1>2. Gathered(r)
    BY DEF Gathering
<1>3. QED  BY <1>1, <1>2 DEF Gathered

LEMMA GatheringNext ==
    ViewInv /\ Typed /\ Gathering /\ [StatisticsNext]_statistics => Gathering'
<1> SUFFICES ASSUME ViewInv, Typed, Gathering, [StatisticsNext]_statistics
             PROVE  Gathering'
    OBVIOUS
<1>1. payments \subseteq payments' /\ job' = job
    BY OnlyPayments, PaymentsStay, OrdersStay DEF ViewInv
<1>2. CASE UNCHANGED view
    BY <1>1, <1>2, GatheringKept DEF Gathering
<1>3. ASSUME NEW r \in Requests, ViewBegin(r) PROVE Gathering'
  <2>1. \A s \in Requests \ {r} : view'[s] = view[s]
      BY <1>3 DEF ViewBegin, ViewInv
  <2>2. /\ view'[r] = [at |-> "reading", on |-> today, entries |-> {},
                       todo |-> Cells(job[r]), began |-> orders, paid |-> payments]
        /\ UNCHANGED vars
      BY <1>3 DEF ViewBegin, ViewInv
  <2>3. payments' = payments /\ Cells(job[r])' = Cells(job[r])
      BY <1>1, <2>2 DEF vars, Cells
  <2>4. \A p \in payments : p.of \subseteq orders
      BY DEF Typed
  <2>5. Gathered(r)'
      BY <2>2, <2>3, <2>4 DEF Gathered
  <2>6. QED  BY <1>1, <2>1, <2>5, GatheringKept DEF Gathering
<1>4. ASSUME NEW r \in Requests, ViewCell(r) PROVE Gathering'
  <2>1. /\ \A s \in Requests \ {r} : view'[s] = view[s]
        /\ UNCHANGED vars
      BY <1>4 DEF ViewCell, ViewInv
  <2> DEFINE day == IF job[r].kind = "chart" THEN today ELSE view[r].on
             new(c) == [cell |-> c, day |-> day,
                        rows |-> IF job[r].kind = "profits" THEN PaymentsIn(c, day)
                                 ELSE OrdersIn(c, day)]
  <2>2. PICK c \in view[r].todo :
          /\ view' = [view EXCEPT
                ![r].todo = @ \ {c},
                ![r].at = IF view[r].todo = {c} THEN "done" ELSE "reading",
                ![r].entries = @ \cup {new(c)}]
      BY <1>4 DEF ViewCell
  <2>3. new(c).cell = c /\ (job[r].kind = "income" => new(c).day = view[r].on)
      OBVIOUS
  <2>4. /\ r \in DOMAIN view
        /\ DOMAIN view[r] = {"at", "on", "todo", "entries", "began", "paid"}
      BY DEF ViewInv, ViewOK, Begun
  <2>5. view[r].at = "reading"
      BY <1>4 DEF ViewCell
  <2> HIDE DEF new, day
  <2>6. /\ view'[r].todo = view[r].todo \ {c}
        /\ view'[r].at = IF view[r].todo = {c} THEN "done" ELSE "reading"
        /\ view'[r].entries = view[r].entries \cup {new(c)}
        /\ view'[r].began = view[r].began /\ view'[r].paid = view[r].paid
        /\ view'[r].on = view[r].on
      BY <2>2, <2>4
  <2>7. Cells(job[r])' = Cells(job[r])
      BY <1>1 DEF Cells
  <2>8. /\ view[r].paid \subseteq payments
        /\ \A p \in view[r].paid : p.of \subseteq view[r].began
        /\ \A d \in Cells(job[r]) \ view[r].todo : \E e \in view[r].entries : e.cell = d
        /\ job[r].kind = "income" => \A e \in view[r].entries : e.day = view[r].on
      BY <2>5 DEF Gathering, Gathered
  <2>9. view'[r].at = "done" => view'[r].todo = {}
      BY <2>6
  <2>10. \A d \in Cells(job[r]) \ view'[r].todo : \E e \in view'[r].entries : e.cell = d
    <3> SUFFICES ASSUME NEW d \in Cells(job[r]), d \notin view'[r].todo
                 PROVE  \E e \in view'[r].entries : e.cell = d
        OBVIOUS
    <3>1. CASE d = c
        BY <2>3, <2>6, <3>1
    <3>2. CASE d # c
        BY <2>6, <2>8, <3>2
    <3>3. QED  BY <3>1, <3>2
  <2>11. job[r].kind = "income" => \A e \in view'[r].entries : e.day = view'[r].on
      BY <2>3, <2>6, <2>8
  <2>12. Gathered(r)'
      BY <1>1, <2>6, <2>7, <2>8, <2>9, <2>10, <2>11 DEF Gathered
  <2>13. QED  BY <1>1, <2>1, <2>12, GatheringKept DEF Gathering
<1>5. CASE StatisticsCrash
  <2> SUFFICES ASSUME NEW r \in Requests PROVE Gathered(r)'
      BY DEF Gathering
  <2>1. CASE view'[r] = view[r]
      BY <1>1, <2>1, GatheringKept
  <2>2. CASE view'[r] = [NoView EXCEPT !.at = "lost"]
    <3>1. /\ view'[r].at = "lost" /\ view'[r].todo = {} /\ view'[r].entries = {}
          /\ view'[r].paid = {}
        BY <2>2 DEF NoView
    <3>2. QED  BY <3>1 DEF Gathered
  <2>3. QED  BY <1>5, <2>1, <2>2 DEF StatisticsCrash
<1>6. QED
    BY <1>2, <1>3, <1>4, <1>5 DEF StatisticsNext, statistics

LEMMA GatheringInit == StatisticsInit => Gathering
<1> SUFFICES ASSUME StatisticsInit, NEW r \in Requests PROVE Gathered(r)
    BY DEF Gathering
<1>1. view[r] = NoView
    BY DEF StatisticsInit
<1>2. /\ view[r].at = "new" /\ view[r].todo = {} /\ view[r].entries = {}
      /\ view[r].paid = {}
    BY <1>1 DEF NoView
<1>3. QED  BY <1>2 DEF Gathered

LEMMA ProfitIs ==
    ASSUME NEW P, P \subseteq Payment
    PROVE  MapThenSumSet(LAMBDA p : p.totalProfit, P) = Total(Profit, P)
<1> DEFINE A(f) == f = [s \in SUBSET P |-> IF s = {} THEN 0
                                          ELSE Pick(s).totalProfit + f[s \ {Pick(s)}]]
<1>1. MapThenSumSet(LAMBDA p : p.totalProfit, P) = (CHOOSE f : A(f))[P]
    BY DEF MapThenSumSet, MapThenFoldSet, Pick
<1>2. ASSUME NEW f PROVE A(f) <=> Sums(Profit, P, f)
  <2>1. \A s \in SUBSET P : s # {} => Profit[Pick(s)] = Pick(s).totalProfit
      BY PickIn DEF Profit
  <2>2. [s \in SUBSET P |-> IF s = {} THEN 0 ELSE Pick(s).totalProfit + f[s \ {Pick(s)}]]
        = [s \in SUBSET P |-> IF s = {} THEN 0 ELSE Profit[Pick(s)] + f[s \ {Pick(s)}]]
      BY <2>1
  <2>3. QED  BY <2>2 DEF Sums
<1> HIDE DEF A
<1>3. (CHOOSE f : A(f)) = (CHOOSE f : Sums(Profit, P, f))
    BY <1>2, Zenon
<1>4. QED  BY <1>1, <1>3, TotalIs

(* The orders that payments P billed.                                       *)
Billed(P) == UNION {p.of : p \in P}

(* Payments that share no order: their profit is 17 % of what they billed.  *)
LEMMA ProfitOfBills ==
    ASSUME NEW P, P \subseteq Payment, IsFiniteSet(P), IsFiniteSet(Billed(P)),
           \A p \in P : 100 * p.totalProfit = 17 * TotalIncome(p.of),
           \A p, q \in P : p # q => p.of \cap q.of = {}
    PROVE  100 * Total(Profit, P) = 17 * TotalIncome(Billed(P))
<1> DEFINE B == {W \in FiniteSubsetsOf(P) :
                    100 * Total(Profit, W) # 17 * TotalIncome(Billed(W))}
<1>0. B \subseteq FiniteSubsetsOf(P)
    OBVIOUS
<1>1. ASSUME B # {} PROVE FALSE
  <2>1. PICK W \in B : \A V \in B : V \subseteq W => V = W
    <3> HIDE DEF B
    <3>1. QED  BY <1>0, <1>1, LeastSet
  <2>2. /\ W \subseteq P /\ IsFiniteSet(W)
        /\ 100 * Total(Profit, W) # 17 * TotalIncome(Billed(W))
      BY DEF FiniteSubsetsOf
  <2>3. W # {}
    <3> SUFFICES ASSUME W = {} PROVE FALSE
        OBVIOUS
    <3>1. Billed(W) = {}
        BY DEF Billed
    <3>2. TotalIncome(Billed(W)) = 0 /\ Total(Profit, W) = 0
        BY <3>1, TotalEmpty, IncomeIs
    <3>3. QED  BY <2>2, <3>2
  <2>4. PICK p : p \in W
      BY <2>3
  <2> DEFINE U == W \ {p}
  <2>5. U \in FiniteSubsetsOf(P) /\ U # W /\ IsFiniteSet(U) /\ U \subseteq P
      BY <2>2, <2>4, FS_Subset DEF FiniteSubsetsOf
  <2>6. 100 * Total(Profit, U) = 17 * TotalIncome(Billed(U))
      BY <2>1, <2>5
  <2>7. Total(Profit, W) = p.totalProfit + Total(Profit, U)
    <3>1. NatOn(Profit, W) /\ Profit[p] = p.totalProfit
        BY <2>2, <2>4 DEF NatOn, Profit, Payment
    <3>2. Total(Profit, W) = Profit[p] + Total(Profit, W \ {p})
        BY <2>2, <2>4, <3>1, TotalAny
    <3>3. QED  BY <3>1, <3>2
  <2>8. /\ Billed(W) = p.of \cup Billed(U) /\ p.of \cap Billed(U) = {}
        /\ p.of \subseteq Billed(P) /\ Billed(U) \subseteq Billed(P)
        /\ Billed(P) \subseteq Order
      BY <2>2, <2>4 DEF Billed, Payment
  <2>9. IsFiniteSet(p.of) /\ IsFiniteSet(Billed(U))
      BY <2>8, FS_Subset
  <2>10. TotalIncome(Billed(W)) = TotalIncome(p.of) + TotalIncome(Billed(U))
      BY <2>8, <2>9, IncomeUnion
  <2>11. /\ p.totalProfit \in Nat /\ Total(Profit, U) \in Nat
         /\ TotalIncome(p.of) \in Nat /\ TotalIncome(Billed(U)) \in Nat
    <3>1. p.totalProfit \in Nat /\ NatOn(Profit, U)
        BY <2>2, <2>4, <2>5 DEF NatOn, Profit, Payment
    <3>2. QED  BY <2>5, <2>8, <2>9, <3>1, TotalNat, IncomeNat
  <2> DEFINE a == p.totalProfit
             b == Total(Profit, U)
             c == TotalIncome(p.of)
             d == TotalIncome(Billed(U))
             s == Total(Profit, W)
             t == TotalIncome(Billed(W))
  <2>12. 100 * a = 17 * c
      BY <2>2, <2>4
  <2>13. /\ a \in Nat /\ b \in Nat /\ c \in Nat /\ d \in Nat
         /\ s = a + b /\ t = c + d /\ 100 * b = 17 * d /\ 100 * s # 17 * t
      BY <2>2, <2>6, <2>7, <2>10, <2>11
  <2> HIDE DEF a, b, c, d, s, t
  <2>14. QED  BY <2>12, <2>13
<1>2. P \in FiniteSubsetsOf(P)
    BY DEF FiniteSubsetsOf
<1>3. QED  BY <1>1, <1>2

(* ProfitWithinIncome: the orders that the payments of the month billed are *)
(* among the rows the administrator is shown.                               *)
LEMMA ProfitShown ==
    ViewInv /\ BillInv /\ Tidy /\ Typed /\ (alone => Own) /\ Gathering
        => ProfitWithinIncome
<1> SUFFICES ASSUME ViewInv, BillInv, Tidy, Typed, alone => Own, Gathering,
                    NEW r \in Requests, job[r].kind = "income", view[r].at = "done",
                    Regular(view[r].on, job[r].month), alone,
                    \A p \in payments : Regular(p.on, p.month)
             PROVE  LET paid == {p \in view[r].paid : p.month = job[r].month
                                                      /\ p.year = view[r].on.year}
                    IN  100 * MapThenSumSet(LAMBDA p : p.totalProfit, paid)
                           <= 17 * TotalIncome(UNION {e.rows : e \in view[r].entries})
    BY DEF ProfitWithinIncome
<1> DEFINE m    == job[r].month
           paid == {p \in view[r].paid : p.month = m /\ p.year = view[r].on.year}
           rows == UNION {e.rows : e \in view[r].entries}
<1>1. paid \subseteq payments /\ IsFiniteSet(paid) /\ paid \subseteq Payment
  <2>1. paid \subseteq payments
      BY DEF Gathering, Gathered
  <2>2. QED  BY <2>1, FS_Subset DEF Tidy, Typed
<1>2. /\ Billed(paid) \subseteq orders /\ rows \subseteq orders
      /\ IsFiniteSet(orders) /\ orders \subseteq Order
  <2>1. Billed(paid) \subseteq orders
      BY <1>1 DEF Billed, Typed
  <2>2. rows \subseteq orders
      BY DEF ViewInv, ViewOK, Windowed, Sold, Views
  <2>3. QED  BY <2>1, <2>2 DEF Typed, BillInv, Types
<1>3. IsFiniteSet(Billed(paid)) /\ IsFiniteSet(rows)
    BY <1>2, FS_Subset
<1>4. \A p, q \in paid : p # q => p.of \cap q.of = {}
  <2>1. BilledOnce
      BY BillsApart
  <2>2. QED  BY <1>1, <2>1 DEF BilledOnce
<1>5. \A p \in paid : 100 * p.totalProfit = 17 * TotalIncome(p.of)
    BY <1>1 DEF Typed
<1> HIDE DEF paid, rows
<1>6. 100 * Total(Profit, paid) = 17 * TotalIncome(Billed(paid))
    BY <1>1, <1>3, <1>4, <1>5, ProfitOfBills
<1>7. Billed(paid) \subseteq rows
  <2> SUFFICES ASSUME NEW p \in paid, NEW o \in p.of PROVE o \in rows
      BY DEF Billed
  <2>1. /\ p \in payments /\ p.month = m /\ p.year = view[r].on.year
        /\ o \in view[r].began
      BY <1>1 DEF paid, Gathering, Gathered
  <2>2. /\ o \in orders /\ o.storeId = p.storeId /\ o.createdAt.year = p.year
        /\ o.createdAt.month = m /\ o.createdAt.day < Length[m]
    <3>1. BillIsTheMonth
        BY BillImplies
    <3>2. QED  BY <2>1, <3>1 DEF BillIsTheMonth
  <2> DEFINE c == [store |-> p.storeId, month |-> m]
  <2>3. c \in Cells(job[r])
    <3>1. p.storeId \in Stores
        BY <2>1 DEF Tidy
    <3>2. QED  BY <3>1 DEF Cells
  <2>4. PICK e \in view[r].entries : e.cell = c
      BY <2>3 DEF Gathering, Gathered
  <2>5. e.day = view[r].on
      BY DEF Gathering, Gathered
  <2>6. o \in e.rows
    <3>1. /\ Sold(r) /\ Regular(e.day, e.cell.month)
          /\ e.cell.store = p.storeId /\ e.cell.month = m
        BY <2>4, <2>5 DEF Sold, Views
    <3>2. ViewsAreTheMonth
        BY MonthShown
    <3>3. QED  BY <2>1, <2>2, <2>5, <3>1, <3>2 DEF ViewsAreTheMonth
  <2>7. QED  BY <2>6 DEF rows
<1>8. TotalIncome(Billed(paid)) <= TotalIncome(rows)
    BY <1>2, <1>3, <1>7, IncomeMore
<1>9. TotalIncome(Billed(paid)) \in Nat /\ TotalIncome(rows) \in Nat
    BY <1>2, <1>3, IncomeNat
<1>10. MapThenSumSet(LAMBDA p : p.totalProfit, paid) = Total(Profit, paid)
    BY <1>1, ProfitIs
<1>11. 100 * Total(Profit, paid) <= 17 * TotalIncome(rows)
    BY <1>6, <1>8, <1>9
<1>12. QED  BY <1>10, <1>11 DEF paid, rows

(* The profit of a month is at most 17 % of the income shown afterwards.    *)
THEOREM ProfitIsCovered == StatisticsSpec => []ProfitWithinIncome
<1> DEFINE I == ViewInv /\ BillInv /\ Tidy /\ Typed /\ (alone => Own) /\ Gathering
<1>1. StatisticsInit => I
    BY ViewStart, BillInit, TidyInit, TypedInit, OwnInit, GatheringInit
    DEF StatisticsInit
<1>2. I /\ [StatisticsNext]_statistics => I'
    BY ViewStep, BillNext, TidyNext, TypedNext, OwnNext, GatheringNext, OnlyPayments
    DEF BillInv
<1>3. I => ProfitWithinIncome
    BY ProfitShown
<1>4. QED  BY <1>1, <1>2, <1>3, PTL DEF StatisticsSpec
================================================================================
