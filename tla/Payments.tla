-------------------------------- MODULE Payments -------------------------------
(****************************************************************************)
(* The monthly bill of a store: confirmedPayment of the admin service sums  *)
(* the orders the store received in a month, notes the month in the store's *)
(* paidMonth and stores a payment of 17 %.  It interleaves with bookings,   *)
(* which add orders, with the handlers that save the whole store row        *)
(* (editProfile, banStore, unBanStore), and with other confirmations.       *)
(****************************************************************************)
EXTENDS MonthWindow, FiniteSets, FiniteSetsExt

CONSTANTS
    Stores,
    Requests,      \* messages to the manager, each handled once
    Asks,          \* Asks[r]: the Job records request r may carry
    LastYear,      \* bound: the last year modelled
    MaxInFlight    \* bound: handlers running at once

Views == {"chart", "dashboard", "income", "profits"}      \* see Statistics
Kinds == {"order", "confirm", "edit"} \cup Views
Job   == [kind : Kinds, store : Stores, month : Months, price : Nat]

ASSUME PaymentsAssumption ==
    /\ Requests # {} /\ IsFiniteSet(Requests)
    /\ \A r \in Requests : \A j \in Asks[r] : j \in Job
    /\ LastYear \in Nat /\ MaxInFlight \in Nat

Order   == [id : Requests, storeId : Stores, totalPrice : Nat, createdAt : Date]
Payment == [id : Requests, storeId : Stores, month : Months, year : Nat,
            totalProfit : Nat,
            of : SUBSET Order, on : Date]      \* history: the orders summed, the day
Paid    == [Months -> Nat]                     \* how often paidMonth lists a month

VARIABLES
    today,
    orders,              \* table order
    paidMonth,           \* column of table store
    payments,            \* table payment
    pc, job, mem, reply, \* the handler of each request
    alone                \* history: no two handlers ever ran at once

tables == <<orders, paidMonth, payments>>
vars   == <<today, orders, paidMonth, payments, pc, job, mem, reply, alone>>

NewYear == [year |-> 0, month |-> 1, day |-> 1]
Blank   == [on |-> NewYear, ordersInAMonth |-> {}, findStore |-> [m \in Months |-> 0],
            dirty |-> FALSE]
Memory  == [on : Date, ordersInAMonth : SUBSET Order, findStore : Paid, dirty : BOOLEAN]

Init ==
    /\ today = NewYear
    /\ orders = {} /\ payments = {}
    /\ paidMonth = [s \in Stores |-> [m \in Months |-> 0]]
    /\ pc = [r \in Requests |-> "new"]
    /\ job \in {f \in [Requests -> UNION {Asks[r] : r \in Requests}] :
                    \A r \in Requests : f[r] \in Asks[r]}
    /\ mem = [r \in Requests |-> Blank]
    /\ reply = [r \in Requests |-> "none"]
    /\ alone = TRUE

Busy == {r \in Requests : pc[r] \notin {"new", "done", "lost"}}

Arrives(r, k) == /\ pc[r] = "new" /\ job[r].kind = k
                 /\ Cardinality(Busy) < MaxInFlight
                 /\ alone' = (alone /\ Busy = {})

Goto(r, l)   == pc' = [pc EXCEPT ![r] = l]
Answer(r, m) == /\ Goto(r, "done")
                /\ reply' = [reply EXCEPT ![r] = m]
                /\ mem' = [mem EXCEPT ![r] = Blank]

(* Definitions named ...Slip are mistakes one could make in the code they   *)
(* precede; each is caught by a property of this module.                    *)

(* bookingTour stores an order; the rest of a booking does not matter here. *)
BookOrder(r) ==
    /\ Arrives(r, "order")
    /\ orders' = orders \cup {[id |-> r, storeId |-> job[r].store,
                               totalPrice |-> job[r].price, createdAt |-> today]}
    /\ Answer(r, "oke")
    /\ UNCHANGED <<today, paidMonth, payments, job>>

--------------------------------------------------------------------------------
(* confirmedPayment *)

ConfirmOrders(r) ==
    /\ Arrives(r, "confirm")
    /\ mem' = [mem EXCEPT ![r].on = today,
                          ![r].ordersInAMonth =
                              {o \in orders : /\ o.storeId = job[r].store
                                              /\ InWindow(o.createdAt, today, job[r].month)}]
    /\ Goto(r, "findStore")
    /\ UNCHANGED <<today, tables, job, reply>>

ConfirmFindStore(r) ==
    /\ pc[r] = "findStore"
    /\ mem' = [mem EXCEPT ![r].findStore = paidMonth[job[r].store]]
    /\ Goto(r, "existing")
    /\ UNCHANGED <<today, tables, job, reply, alone>>

ExistingLastMonthSlip(r) ==
    {p \in payments : p.storeId = job[r].store /\ p.month = job[r].month - 1
                      /\ p.year = mem[r].on.year}

Existing(r) ==
    {p \in payments : p.storeId = job[r].store /\ p.month = job[r].month
                      /\ p.year = mem[r].on.year}

(* The month is noted even if the store is found to have paid. *)
ConfirmExistingNotesSlip(r) ==
    /\ pc[r] = "existing"
    /\ \/ /\ Existing(r) # {}
          /\ paidMonth' = [paidMonth EXCEPT ![job[r].store][job[r].month] = @ + 1]
          /\ Answer(r, "Store Paid")
       \/ /\ Existing(r) = {}
          /\ Goto(r, "saveStore")
          /\ UNCHANGED <<paidMonth, mem, reply>>
    /\ UNCHANGED <<today, orders, payments, job, alone>>

ConfirmExisting(r) ==
    /\ pc[r] = "existing"
    /\ \/ /\ Existing(r) # {}
          /\ Answer(r, "Store Paid")
       \/ /\ Existing(r) = {}
          /\ Goto(r, "saveStore")
          /\ UNCHANGED <<mem, reply>>
    /\ UNCHANGED <<today, tables, job, alone>>

(* editProfile, banStore and unBanStore read the store and save all of it. *)
EditFind(r) ==
    /\ Arrives(r, "edit")
    /\ mem' = [mem EXCEPT ![r].findStore = paidMonth[job[r].store]]
    /\ Goto(r, "saveStore")
    /\ UNCHANGED <<today, tables, job, reply>>

SavedTakesAwaySlip(r) ==
    IF job[r].kind = "confirm" THEN [mem[r].findStore EXCEPT ![job[r].month] = @ - 1]
    ELSE mem[r].findStore

SavedForgetsSlip(r) ==
    IF job[r].kind = "confirm" THEN [m \in Months |-> IF m = job[r].month THEN 1 ELSE 0]
    ELSE mem[r].findStore

(* The paidMonth of the object saved. *)
Saved(r) ==
    IF job[r].kind = "confirm" THEN [mem[r].findStore EXCEPT ![job[r].month] = @ + 1]
    ELSE mem[r].findStore

(* repository.save: the SELECT, and the UPDATE of the column if it differed. *)
SaveStoreSelect(r) ==
    /\ pc[r] = "saveStore"
    /\ mem' = [mem EXCEPT ![r].dirty = Saved(r) # paidMonth[job[r].store]]
    /\ Goto(r, "updateStore")
    /\ UNCHANGED <<today, tables, job, reply, alone>>

SaveStoreUpdate(r) ==
    /\ pc[r] = "updateStore"
    /\ paidMonth' = IF mem[r].dirty THEN [paidMonth EXCEPT ![job[r].store] = Saved(r)]
                    ELSE paidMonth
    /\ \/ /\ job[r].kind = "edit"
          /\ Answer(r, "oke")
       \/ /\ job[r].kind = "confirm"
          /\ Goto(r, "insert")
          /\ UNCHANGED <<mem, reply>>
    /\ UNCHANGED <<today, orders, payments, job, alone>>

TotalIncome(S) == MapThenSumSet(LAMBDA o : o.totalPrice, S)

(* totalProfit is an integer column: an amount with cents is refused. *)
Fractional(r) == (17 * TotalIncome(mem[r].ordersInAMonth)) % 100 # 0

ConfirmInsert(r) ==
    /\ pc[r] = "insert"
    /\ \/ /\ Fractional(r)
          /\ Answer(r, "error")
          /\ UNCHANGED payments
       \/ /\ ~Fractional(r)
          /\ payments' = payments \cup
                 {[id |-> r, storeId |-> job[r].store, month |-> job[r].month,
                   year |-> mem[r].on.year,
                   totalProfit |-> (17 * TotalIncome(mem[r].ordersInAMonth)) \div 100,
                   of |-> mem[r].ordersInAMonth, on |-> mem[r].on]}
          /\ Answer(r, "oke")
    /\ UNCHANGED <<today, orders, paidMonth, job, alone>>

--------------------------------------------------------------------------------
(* The manager dies; the messages were acknowledged and are not delivered again. *)
Crash ==
    /\ Busy # {}
    /\ pc' = [r \in Requests |-> IF r \in Busy THEN "lost" ELSE pc[r]]
    /\ mem' = [r \in Requests |-> Blank]
    /\ UNCHANGED <<today, tables, job, reply, alone>>

(* Some days pass. *)
Tick ==
    /\ today' \in {d \in [year : 0 .. LastYear, month : Months,
                          day : UNION {1 .. Length[m] : m \in Months}] :
                       d \in Date /\ Earlier(today, d)}
    /\ UNCHANGED <<tables, pc, job, mem, reply, alone>>

Confirm(r) == ConfirmOrders(r) \/ ConfirmFindStore(r) \/ ConfirmExisting(r)
              \/ ConfirmInsert(r)

Next == \/ \E r \in Requests : \/ BookOrder(r) \/ Confirm(r) \/ EditFind(r)
                               \/ SaveStoreSelect(r) \/ SaveStoreUpdate(r)
        \/ Crash
        \/ Tick

Spec == Init /\ [][Next]_vars

--------------------------------------------------------------------------------
(* Properties *)

Pcs == {"new", "findStore", "existing", "saveStore", "updateStore", "insert",
        "done", "lost"}

(* Tables, program counters and what handlers hold have their types, and an *)
(* order or payment is stored by at most one request.                       *)
TypeOK ==
    /\ today \in Date
    /\ orders \subseteq Order /\ payments \subseteq Payment
    /\ \A p, q \in payments : p.id = q.id => p = q
    /\ paidMonth \in [Stores -> Paid]
    /\ pc \in [Requests -> Pcs] /\ job \in [Requests -> Job]
    /\ mem \in [Requests -> Memory] /\ alone \in BOOLEAN

(* A payment confirmed on a day that its month has too is for orders of that *)
(* store in that month, and leaves out none of them made before the day of   *)
(* the confirmation except those of the month's last day, whatever is booked *)
(* and confirmed meanwhile.                                                  *)
BillIsTheMonth ==
    \A p \in payments : Regular(p.on, p.month) =>
        LET Due == {o \in orders : /\ o.storeId = p.storeId
                                   /\ o.createdAt.year = p.year
                                   /\ o.createdAt.month = p.month
                                   /\ o.createdAt.day < Length[p.month]}
        IN  /\ p.of \subseteq Due
            /\ \A o \in Due : Earlier(o.createdAt, p.on) => o \in p.of

(* While handlers run one at a time and payments are confirmed on days that *)
(* their months have, no order is billed twice, in one month or in two.     *)
BilledOnce ==
    (alone /\ \A p \in payments : Regular(p.on, p.month)) =>
        \A p, q \in payments : p # q =>
            /\ p.of \cap q.of = {}
            /\ <<p.storeId, p.month, p.year>> # <<q.storeId, q.month, q.year>>

(* While handlers run one at a time, paidMonth lists the month of every      *)
(* payment of the store as often as it was paid, although edits and bans     *)
(* save the whole row and the manager may die between the two tables.        *)
PaidMonthsShown ==
    alone => \A s \in Stores, m \in Months :
        Cardinality({p \in payments : p.storeId = s /\ p.month = m}) <= paidMonth[s][m]

(* The store is asked to pay once: while handlers run one at a time, a month *)
(* is listed more often than it was paid only through confirmations that     *)
(* failed after the store was saved, by an amount with cents or a crash.     *)
ShownOncePerPayment ==
    alone => \A s \in Stores, m \in Months :
        paidMonth[s][m] <=
            Cardinality({p \in payments : p.storeId = s /\ p.month = m})
            + Cardinality({r \in Requests :
                  /\ job[r].kind = "confirm" /\ job[r].store = s /\ job[r].month = m
                  /\ reply[r] = "error" \/ pc[r] \in {"insert", "lost"}})

(* A store pays a month of a year once: 'Store Paid' (admin.service.ts:123). *)
PaidOnce ==
    \A p, q \in payments :
        <<p.storeId, p.month, p.year>> = <<q.storeId, q.month, q.year>> => p = q
================================================================================
