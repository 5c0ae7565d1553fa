------------------------------ MODULE Payments_proofs --------------------------
(****************************************************************************)
(* What is proved of payments, for every calendar, number of years, stores  *)
(* and requests:                                                            *)
(*   - what the month window selects: the month asked for without its last  *)
(*     day if today's day exists in it, the month after it otherwise;       *)
(*   - a payment is the bill of its month; the invariant behind it says the *)
(*     same of what a confirmation holds between reading the orders and     *)
(*     storing the payment;                                                 *)
(*   - the tables have their types, and a payment is exactly 17 % of the    *)
(*     orders it bills (by induction over finite sets, see the sums below); *)
(*   - while handlers run one at a time, paidMonth and the payments agree   *)
(*     and no order is billed twice.                                        *)
(****************************************************************************)
EXTENDS Payments, FiniteSetTheorems, WellFoundedInduction, TLAPS

(* The month window. *)

(* The fields of a date. *)
LEMMA DateFields ==
    ASSUME NEW d \in Date
    PROVE  /\ d.year \in Nat /\ d.month \in Months /\ d.day \in Nat
           /\ 1 <= d.day /\ d.day <= Length[d.month]
           /\ Length[d.month] \in Nat
    BY MonthAssumption DEF Date

(* setMonth gives a date of this year, in the month asked for or the next. *)
LEMMA SetMonthDate ==
    ASSUME NEW on \in Date, NEW m \in Months
    PROVE  /\ SetMonth(on, m) \in Date
           /\ SetMonth(on, m).year = on.year
           /\ Regular(on, m) => SetMonth(on, m).month = m
           /\ ~Regular(on, m) =>
                 m + 1 \in Months /\ SetMonth(on, m).month = m + 1
<1> USE DEF Regular
<1>1. /\ on.year \in Nat /\ on.month \in Months /\ on.day \in Nat
      /\ 1 <= on.day /\ on.day <= Length[on.month]
      /\ Length[on.month] \in Nat /\ Length[m] \in Nat
      /\ on = [year |-> on.year, month |-> on.month, day |-> on.day]
    BY DateFields, MonthAssumption DEF Date
<1>2. CASE on.day <= Length[m]
  <2>1. SetMonth(on, m) = [year |-> on.year, month |-> m, day |-> on.day]
      BY <1>1, <1>2 DEF SetMonth, Date
  <2>2. QED  BY <1>1, <1>2, <2>1 DEF Date
<1>3. CASE ~(on.day <= Length[m])
  <2>1. /\ m < LastMonth
        /\ on.day - Length[m] <= Length[m + 1]
        /\ on.day - Length[m] >= 1
      <3>1. Length[on.month] > Length[m]
          BY <1>1, <1>3
      <3>2. m < LastMonth /\ Length[on.month] - Length[m] <= Length[m + 1]
          BY <3>1, <1>1, MonthAssumption
      <3>3. m + 1 \in Months /\ Length[m + 1] \in Nat
          BY <3>2, MonthAssumption DEF Months
      <3> QED  BY <1>1, <1>3, <3>2, <3>3
  <2>2. m + 1 \in Months /\ Length[m + 1] \in Nat
      BY <2>1, MonthAssumption DEF Months
  <2>3. SetMonth(on, m)
            = [year |-> on.year, month |-> m + 1, day |-> on.day - Length[m]]
      BY <1>1, <1>3 DEF SetMonth, Date
  <2>4. on.day - Length[m] \in 1 .. Length[m + 1]
      BY <1>1, <2>1, <2>2
  <2>5. QED  BY <1>1, <1>3, <2>2, <2>3, <2>4 DEF Date
<1>4. QED  BY <1>2, <1>3

(* The days from the first of w's month to the day before its last. *)
LEMMA BetweenFirstAndLast ==
    ASSUME NEW d \in Date, NEW w \in Date
    PROVE  (~Earlier(d, First(w)) /\ Earlier(d, Last(w))) <=>
               (d.year = w.year /\ d.month = w.month /\ d.day < Length[w.month])
<1>1. /\ d.year \in Nat /\ d.month \in Months /\ d.day \in Nat /\ 1 <= d.day
      /\ w.year \in Nat /\ w.month \in Months /\ Length[w.month] \in Nat
    BY DateFields
<1>2. First(w).year = w.year /\ First(w).month = w.month /\ First(w).day = 1
    BY DEF First, Date
<1>3. Last(w).year = w.year /\ Last(w).month = w.month /\ Last(w).day = Length[w.month]
    BY DEF Last, Date
<1>4. d.month \in Int /\ w.month \in Int
    BY <1>1, MonthAssumption DEF Months
<1>5. QED  BY <1>1, <1>2, <1>3, <1>4 DEF Earlier

(* On a day of the month that month m has, confirmedPayment and the          *)
(* dashboards select the days of month m of this year but its last.          *)
THEOREM RegularWindow ==
    ASSUME NEW on \in Date, NEW d \in Date, NEW m \in Months, Regular(on, m)
    PROVE  InWindow(d, on, m) <=>
               (d.year = on.year /\ d.month = m /\ d.day < Length[m])
<1>1. /\ SetMonth(on, m) \in Date
      /\ SetMonth(on, m).year = on.year /\ SetMonth(on, m).month = m
    BY SetMonthDate
<1>2. QED  BY <1>1, BetweenFirstAndLast DEF InWindow

(* On a day that month m does not have, they select the days of the month   *)
(* after m, so that what is called the bill of m is that of m + 1.          *)
THEOREM OverflowWindow ==
    ASSUME NEW on \in Date, NEW d \in Date, NEW m \in Months, ~Regular(on, m)
    PROVE  /\ m + 1 \in Months
           /\ InWindow(d, on, m) <=>
                  (d.year = on.year /\ d.month = m + 1 /\ d.day < Length[m + 1])
<1>1. /\ SetMonth(on, m) \in Date /\ m + 1 \in Months
      /\ SetMonth(on, m).year = on.year /\ SetMonth(on, m).month = m + 1
    BY SetMonthDate
<1>2. QED  BY <1>1, BetweenFirstAndLast DEF InWindow

(* Bills of different months of one store share no order if each was        *)
(* confirmed on a day its month has.                                        *)
THEOREM RegularWindowsDisjoint ==
    ASSUME NEW t1 \in Date, NEW t2 \in Date, NEW d \in Date,
           NEW m \in Months, NEW n \in Months, m # n,
           Regular(t1, m), Regular(t2, n)
    PROVE  ~(InWindow(d, t1, m) /\ InWindow(d, t2, n))
    BY RegularWindow

--------------------------------------------------------------------------------
(* A payment is the bill of its month. *)

(* S is what confirmedPayment summed for store s and month m on day on: the *)
(* orders of the window, all of them that were made on an earlier day.      *)
Bill(s, m, on, S) ==
    /\ on \in Date /\ ~Earlier(today, on)
    /\ \A o \in S : o \in orders /\ o.storeId = s /\ InWindow(o.createdAt, on, m)
    /\ \A o \in orders :
           o.storeId = s /\ InWindow(o.createdAt, on, m) /\ Earlier(o.createdAt, on)
               => o \in S

(* Request r holds the orders it will bill. *)
Holds(r) ==
    \/ pc[r] \in {"findStore", "existing", "insert"}
    \/ pc[r] \in {"saveStore", "updateStore"} /\ job[r].kind = "confirm"

Types ==
    /\ today \in Date
    /\ orders \subseteq Order
    /\ job \in [Requests -> Job]
    /\ DOMAIN pc = Requests
    /\ DOMAIN mem = Requests

Held == \A r \in Requests : Holds(r) =>
            Bill(job[r].store, job[r].month, mem[r].on, mem[r].ordersInAMonth)

Stored == \A p \in payments :
            p.month \in Months /\ p.year = p.on.year /\ Bill(p.storeId, p.month, p.on, p.of)

BillInv == Types /\ Held /\ Stored

--------------------------------------------------------------------------------
(* Days are ordered. *)
LEMMA EarlierOrder ==
    ASSUME NEW a \in Date, NEW b \in Date, NEW c \in Date
    PROVE  /\ ~Earlier(a, a)
           /\ Earlier(a, b) /\ ~Earlier(a, c) => ~Earlier(b, c)
<1>1. ASSUME NEW d \in Date
      PROVE  d.year \in Int /\ d.month \in Int /\ d.day \in Int
  <2>1. d.year \in Nat /\ d.month \in Months /\ d.day \in Nat
      BY DateFields
  <2>2. QED  BY <2>1, MonthAssumption DEF Months
<1>2. /\ a.year \in Int /\ a.month \in Int /\ a.day \in Int
      /\ b.year \in Int /\ b.month \in Int /\ b.day \in Int
      /\ c.year \in Int /\ c.month \in Int /\ c.day \in Int
    BY <1>1
<1>3. QED  BY <1>2 DEF Earlier

LEMMA OrderDate ==
    ASSUME NEW o \in Order
    PROVE  o.createdAt \in Date
    BY DEF Order

(* A bill stays one while days pass and while orders are made today. *)
LEMMA BillStable ==
    ASSUME Types, NEW s, NEW m, NEW on, NEW S, Bill(s, m, on, S),
           today' \in Date, today' = today \/ Earlier(today, today'),
           orders \subseteq orders',
           \A o \in orders' : o \in orders \/ o.createdAt = today
    PROVE  Bill(s, m, on, S)'
<1>1. today \in Date /\ on \in Date /\ ~Earlier(today, on)
    BY DEF Types, Bill
<1>2. ~Earlier(today', on)
    BY <1>1, EarlierOrder
<1>3. \A o \in orders' :
          o.storeId = s /\ InWindow(o.createdAt, on, m) /\ Earlier(o.createdAt, on) => o \in S
    BY <1>1 DEF Bill
<1>4. \A o \in S : o \in orders' /\ o.storeId = s /\ InWindow(o.createdAt, on, m)
    BY DEF Bill
<1>5. QED  BY <1>1, <1>2, <1>3, <1>4 DEF Bill

(* A step keeps the invariant if it disturbs no bill, starts none and stores *)
(* none.                                                                     *)
LEMMA NothingNew ==
    ASSUME BillInv, UNCHANGED <<orders, payments, job>>,
           today' \in Date, today' = today \/ Earlier(today, today'),
           DOMAIN pc' = Requests, DOMAIN mem' = Requests,
           \A r \in Requests : Holds(r)' =>
               /\ Holds(r)
               /\ mem'[r].on = mem[r].on
               /\ mem'[r].ordersInAMonth = mem[r].ordersInAMonth
    PROVE  BillInv'
<1>1. Types'
    BY DEF BillInv, Types
<1>2. ASSUME NEW s, NEW m, NEW on, NEW S, Bill(s, m, on, S)
      PROVE  Bill(s, m, on, S)'
    BY <1>2, BillStable DEF BillInv
<1>3. Held'
  <2> SUFFICES ASSUME NEW r \in Requests, Holds(r)'
               PROVE  Bill(job[r].store, job[r].month, mem[r].on, mem[r].ordersInAMonth)'
      BY DEF Held
  <2>1. Bill(job[r].store, job[r].month, mem[r].on, mem[r].ordersInAMonth)
      BY DEF BillInv, Held
  <2>2. /\ job' = job /\ orders' = orders
        /\ mem'[r].on = mem[r].on /\ mem'[r].ordersInAMonth = mem[r].ordersInAMonth
      OBVIOUS
  <2>3. mem[r].on \in Date /\ ~Earlier(today, mem[r].on)
      BY <2>1 DEF Bill
  <2>4. ~Earlier(today', mem[r].on)
      BY <2>3, EarlierOrder DEF BillInv, Types
  <2>5. QED  BY <2>1, <2>2, <2>3, <2>4 DEF Bill
<1>4. Stored'
    BY <1>2 DEF BillInv, Stored
<1>5. QED  BY <1>1, <1>3, <1>4 DEF BillInv

LEMMA BillInit == Init => BillInv
<1> SUFFICES ASSUME Init PROVE BillInv
    OBVIOUS
<1>1. NewYear \in Date
    BY MonthAssumption DEF NewYear, Date, Months
<1>2. job \in [Requests -> Job]
    BY PaymentsAssumption DEF Init
<1>3. QED  BY <1>1, <1>2 DEF Init, BillInv, Types, Held, Stored, Holds

LEMMA BillNext == BillInv /\ [Next]_vars => BillInv'
<1> SUFFICES ASSUME BillInv, [Next]_vars PROVE BillInv'
    OBVIOUS
<1>0. Types
    BY DEF BillInv
<1>1. CASE UNCHANGED vars
    BY <1>0, <1>1, NothingNew DEF vars, Types, Holds
<1>2. ASSUME NEW r \in Requests, BookOrder(r) PROVE BillInv'
  <2>1. /\ orders \subseteq orders'
        /\ \A o \in orders' : o \in orders \/ o.createdAt = today
        /\ UNCHANGED <<today, payments, job>>
      BY <1>2 DEF BookOrder
  <2>2. Types'
    <3>1. job[r] \in Job
        BY <1>0 DEF Types
    <3>2. orders' \subseteq Order
        BY <1>0, <1>2, <3>1 DEF BookOrder, Types, Order, Job
    <3>3. QED  BY <1>0, <1>2, <3>2 DEF BookOrder, Answer, Goto, Types
  <2>3. ASSUME NEW s, NEW m, NEW on, NEW S, Bill(s, m, on, S)
        PROVE  Bill(s, m, on, S)'
      BY <1>0, <2>1, <2>2, <2>3, BillStable DEF Types
  <2>4. Held'
    <3> SUFFICES ASSUME NEW q \in Requests, Holds(q)'
                 PROVE  Bill(job[q].store, job[q].month, mem[q].on, mem[q].ordersInAMonth)'
        BY DEF Held
    <3>1. q # r /\ Holds(q) /\ mem'[q] = mem[q]
        BY <1>0, <1>2, <2>1 DEF BookOrder, Answer, Goto, Types, Holds
    <3>2. Bill(job[q].store, job[q].month, mem[q].on, mem[q].ordersInAMonth)
        BY <3>1 DEF BillInv, Held
    <3>3. QED  BY <3>1, <3>2, <2>1, <2>3 DEF Bill
  <2>5. Stored'
      BY <2>1, <2>3 DEF BillInv, Stored
  <2>6. QED  BY <2>2, <2>4, <2>5 DEF BillInv
<1>3. ASSUME NEW r \in Requests, ConfirmOrders(r) PROVE BillInv'
  <2>1. Types'
      BY <1>0, <1>3 DEF ConfirmOrders, Goto, Types, tables
  <2>2. UNCHANGED <<today, orders, payments, job>>
      BY <1>3 DEF ConfirmOrders, tables
  <2>3. ASSUME NEW q \in Requests, Holds(q)'
        PROVE  Bill(job[q].store, job[q].month, mem[q].on, mem[q].ordersInAMonth)'
    <3>1. CASE q = r
      <4>1. /\ mem'[r].on = today
            /\ mem'[r].ordersInAMonth =
                   {o \in orders : /\ o.storeId = job[r].store
                                   /\ InWindow(o.createdAt, today, job[r].month)}
          BY <1>0, <1>3 DEF ConfirmOrders, Types
      <4>2. today \in Date /\ ~Earlier(today, today)
          BY <1>0, EarlierOrder DEF Types
      <4>3. QED  BY <3>1, <4>1, <4>2, <2>2 DEF Bill
    <3>2. CASE q # r
      <4>1. Holds(q) /\ mem'[q] = mem[q]
          BY <1>0, <1>3, <2>2, <2>3, <3>2 DEF ConfirmOrders, Goto, Types, Holds
      <4>2. QED  BY <4>1, <2>2 DEF BillInv, Held, Bill
    <3>3. QED  BY <3>1, <3>2
  <2>4. Stored'
      BY <2>2 DEF BillInv, Stored, Bill
  <2>5. QED  BY <2>1, <2>3, <2>4 DEF BillInv, Held
<1>4. ASSUME NEW r \in Requests, ConfirmFindStore(r) PROVE BillInv'
  <2>1. \A q \in Requests : Holds(q)' => /\ Holds(q)
                                         /\ mem'[q].on = mem[q].on
                                         /\ mem'[q].ordersInAMonth = mem[q].ordersInAMonth
      BY <1>0, <1>4 DEF ConfirmFindStore, Goto, Types, Holds
  <2>2. QED  BY <1>0, <1>4, <2>1, NothingNew DEF ConfirmFindStore, Goto, Types, tables
<1>5. ASSUME NEW r \in Requests, ConfirmExisting(r) PROVE BillInv'
  <2>1. \A q \in Requests : Holds(q)' => Holds(q) /\ mem'[q] = mem[q]
      BY <1>0, <1>5 DEF ConfirmExisting, Answer, Goto, Types, Holds
  <2>2. QED  BY <1>0, <1>5, <2>1, NothingNew DEF ConfirmExisting, Answer, Goto, Types, tables
<1>6. ASSUME NEW r \in Requests, ConfirmInsert(r) PROVE BillInv'
  <2>1. UNCHANGED <<today, orders, job>> /\ pc[r] = "insert"
      BY <1>6 DEF ConfirmInsert
  <2>2. Types'
      BY <1>0, <1>6 DEF ConfirmInsert, Answer, Goto, Types
  <2>3. \A q \in Requests : Holds(q)' => Holds(q) /\ mem'[q] = mem[q]
      BY <1>0, <1>6, <2>1 DEF ConfirmInsert, Answer, Goto, Types, Holds
  <2>4. Held'
      BY <2>1, <2>3 DEF BillInv, Held, Bill
  <2>5. \A p \in payments' :
            \/ p \in payments
            \/ /\ p.storeId = job[r].store /\ p.month = job[r].month
               /\ p.year = mem[r].on.year /\ p.on = mem[r].on
               /\ p.of = mem[r].ordersInAMonth
      BY <1>6 DEF ConfirmInsert
  <2>6. Bill(job[r].store, job[r].month, mem[r].on, mem[r].ordersInAMonth)
      BY <2>1 DEF BillInv, Held, Holds
  <2>7. job[r].month \in Months
      BY <1>0 DEF Types, Job
  <2>8. Stored'
    <3> SUFFICES ASSUME NEW p \in payments'
                 PROVE  /\ p.month \in Months /\ p.year = p.on.year
                        /\ Bill(p.storeId, p.month, p.on, p.of)
        BY <2>1 DEF Stored, Bill
    <3>1. CASE p \in payments
        BY <3>1 DEF BillInv, Stored
    <3>2. CASE p \notin payments
        BY <3>2, <2>5, <2>6, <2>7
    <3>3. QED  BY <3>1, <3>2
  <2>9. QED  BY <2>2, <2>4, <2>8 DEF BillInv
<1>7. ASSUME NEW r \in Requests, EditFind(r) PROVE BillInv'
  <2>1. \A q \in Requests : Holds(q)' => Holds(q) /\ mem'[q] = mem[q]
      BY <1>0, <1>7 DEF EditFind, Arrives, Goto, Types, Holds
  <2>2. QED  BY <1>0, <1>7, <2>1, NothingNew DEF EditFind, Goto, Types, tables
<1>8. ASSUME NEW r \in Requests, SaveStoreSelect(r) PROVE BillInv'
  <2>1. \A q \in Requests : Holds(q)' => /\ Holds(q)
                                         /\ mem'[q].on = mem[q].on
                                         /\ mem'[q].ordersInAMonth = mem[q].ordersInAMonth
      BY <1>0, <1>8 DEF SaveStoreSelect, Goto, Types, Holds
  <2>2. QED  BY <1>0, <1>8, <2>1, NothingNew DEF SaveStoreSelect, Goto, Types, tables
<1>9. ASSUME NEW r \in Requests, SaveStoreUpdate(r) PROVE BillInv'
  <2>1. \A q \in Requests : Holds(q)' => Holds(q) /\ mem'[q] = mem[q]
      BY <1>0, <1>9 DEF SaveStoreUpdate, Answer, Goto, Types, Holds
  <2>2. QED  BY <1>0, <1>9, <2>1, NothingNew DEF SaveStoreUpdate, Answer, Goto, Types
<1>10. CASE Crash
  <2>1. \A q \in Requests : ~Holds(q)'
      BY <1>10 DEF Crash, Busy, Holds
  <2>2. QED  BY <1>0, <1>10, <2>1, NothingNew DEF Crash, Types, tables
<1>11. CASE Tick
  <2>1. today' \in Date /\ Earlier(today, today')
      BY <1>11 DEF Tick
  <2>2. UNCHANGED <<orders, payments, pc, job, mem>>
      BY <1>11 DEF Tick, tables
  <2>3. QED  BY <1>0, <2>1, <2>2, NothingNew DEF Types, Holds
<1>12. QED
    BY <1>1, <1>2, <1>3, <1>4, <1>5, <1>6, <1>7, <1>8, <1>9, <1>10, <1>11
    DEF Next, Confirm

(* The invariant says what BillIsTheMonth does: on regular days the window  *)
(* is the month without its last day.                                       *)
LEMMA BillImplies == BillInv => BillIsTheMonth
<1> SUFFICES ASSUME BillInv, NEW p \in payments, Regular(p.on, p.month)
             PROVE  LET Due == {o \in orders : /\ o.storeId = p.storeId
                                               /\ o.createdAt.year = p.year
                                               /\ o.createdAt.month = p.month
                                               /\ o.createdAt.day < Length[p.month]}
                    IN  /\ p.of \subseteq Due
                        /\ \A o \in Due : Earlier(o.createdAt, p.on) => o \in p.of
    BY DEF BillIsTheMonth
<1>1. /\ p.month \in Months /\ p.year = p.on.year /\ p.on \in Date
      /\ Bill(p.storeId, p.month, p.on, p.of)
    BY DEF BillInv, Stored, Bill
<1>2. \A o \in orders :
          InWindow(o.createdAt, p.on, p.month) <=>
              /\ o.createdAt.year = p.year /\ o.createdAt.month = p.month
              /\ o.createdAt.day < Length[p.month]
    BY <1>1, OrderDate, RegularWindow DEF BillInv, Types
<1>3. QED  BY <1>1, <1>2 DEF Bill

(* Every payment confirmed on a regular day bills the orders of its month   *)
(* and, but for the last day, misses none of an earlier day, however        *)
(* confirmedPayment, bookings, edits and crashes interleave.                *)
THEOREM PaymentsAreTheMonth == Spec => []BillIsTheMonth
<1>1. Spec => []BillInv
    BY BillInit, BillNext, PTL DEF Spec
<1>2. QED  BY <1>1, BillImplies, PTL

--------------------------------------------------------------------------------
(* Sums.  MapThenSumSet adds up a finite set by a recursive function on its *)
(* subsets.  That the function exists, and that the order does not matter,  *)
(* is shown on a least set that would be a counterexample.                  *)

Pick(s) == CHOOSE x \in s : TRUE

(* f sums v over every subset of S, one element after the other. *)
Sums(v, S, f) ==
    f = [s \in SUBSET S |-> IF s = {} THEN 0 ELSE v[Pick(s)] + f[s \ {Pick(s)}]]

Total(v, S) == MapThenSumSet(LAMBDA x : v[x], S)

(* The sum is the value of such a function, if there is one.                *)
LEMMA TotalIs ==
    ASSUME NEW v, NEW S
    PROVE  Total(v, S) = (CHOOSE f : Sums(v, S, f))[S]
    BY DEF Total, MapThenSumSet, MapThenFoldSet, Sums, Pick

Price  == [o \in Order |-> o.totalPrice]
Profit == [p \in Payment |-> p.totalProfit]

LEMMA IncomeIs ==
    ASSUME NEW S, S \subseteq Order
    PROVE  TotalIncome(S) = Total(Price, S)
<1> DEFINE A(f) == f = [s \in SUBSET S |-> IF s = {} THEN 0
                                          ELSE Pick(s).totalPrice + f[s \ {Pick(s)}]]
<1>1. TotalIncome(S) = (CHOOSE f : A(f))[S]
  BY DEF TotalIncome, MapThenSumSet, MapThenFoldSet, Pick
<1>2. \A s \in SUBSET S : s # {} => Pick(s) \in Order
  BY DEF Pick
<1>3. ASSUME NEW f PROVE A(f) <=> Sums(Price, S, f)
  <2>1. \A s \in SUBSET S : s # {} => Price[Pick(s)] = Pick(s).totalPrice
    BY <1>2 DEF Price
  <2>2. [s \in SUBSET S |-> IF s = {} THEN 0 ELSE Pick(s).totalPrice + f[s \ {Pick(s)}]]
       = [s \in SUBSET S |-> IF s = {} THEN 0 ELSE Price[Pick(s)] + f[s \ {Pick(s)}]]
    BY <2>1
  <2>3. QED BY <2>2 DEF Sums
<1> HIDE DEF A
<1>4. (CHOOSE f : A(f)) = (CHOOSE f : Sums(Price, S, f))
  BY <1>3, Zenon
<1>5. QED BY <1>1, <1>4, TotalIs

(* Of finite sets, one has no other below it: induction over a set is a     *)
(* contradiction from the least one that fails.                             *)
LEMMA LeastSet ==
    ASSUME NEW S, NEW B, B \subseteq FiniteSubsetsOf(S), B # {}
    PROVE  \E W \in B : \A V \in B : V \subseteq W => V = W
<1>1. PICK W \in B : \A V \in B : <<V, W>> \notin StrictSubsetOrdering(S)
    BY FS_StrictSubsetOrderingWellFounded, WFMin
<1>2. ASSUME NEW V \in B, V \subseteq W PROVE V = W
    BY <1>1, <1>2 DEF StrictSubsetOrdering, FiniteSubsetsOf
<1>3. QED  BY <1>2

LEMMA PickIn ==
    ASSUME NEW s, s # {}
    PROVE  Pick(s) \in s
    BY DEF Pick

LEMMA SumsAt ==
    ASSUME NEW v, NEW S, NEW f, Sums(v, S, f), NEW W, W \subseteq S
    PROVE  f[W] = IF W = {} THEN 0 ELSE v[Pick(W)] + f[W \ {Pick(W)}]
<1> DEFINE g == [s \in SUBSET S |-> IF s = {} THEN 0 ELSE v[Pick(s)] + f[s \ {Pick(s)}]]
<1>1. f = g
    BY DEF Sums
<1>2. g[W] = IF W = {} THEN 0 ELSE v[Pick(W)] + f[W \ {Pick(W)}]
    OBVIOUS
<1> HIDE DEF g
<1>3. QED  BY <1>1, <1>2

(* Two such functions agree where both are defined.                         *)
LEMMA SumsAgree ==
    ASSUME NEW v, NEW S, NEW f, Sums(v, S, f), NEW T, NEW g, Sums(v, T, g),
           NEW U, U \subseteq S, U \subseteq T, IsFiniteSet(U)
    PROVE  f[U] = g[U]
<1> DEFINE B == {W \in FiniteSubsetsOf(U) : f[W] # g[W]}
<1>0. B \subseteq FiniteSubsetsOf(U)
    OBVIOUS
<1> HIDE DEF B
<1>1. ASSUME B # {} PROVE FALSE
  <2>1. PICK W \in B : \A V \in B : V \subseteq W => V = W
      BY <1>0, <1>1, LeastSet
  <2>2. W \subseteq U /\ IsFiniteSet(W) /\ f[W] # g[W]
      BY DEF B, FiniteSubsetsOf
  <2>3. /\ f[W] = IF W = {} THEN 0 ELSE v[Pick(W)] + f[W \ {Pick(W)}]
        /\ g[W] = IF W = {} THEN 0 ELSE v[Pick(W)] + g[W \ {Pick(W)}]
      BY <2>2, SumsAt
  <2>4. W # {}
      BY <2>2, <2>3
  <2>5. W \ {Pick(W)} \in FiniteSubsetsOf(U) /\ W \ {Pick(W)} # W
      BY <2>2, <2>4, PickIn, FS_Subset DEF FiniteSubsetsOf
  <2>6. f[W \ {Pick(W)}] = g[W \ {Pick(W)}]
      BY <2>1, <2>5 DEF B
  <2>7. QED  BY <2>2, <2>3, <2>6
<1>2. U \in FiniteSubsetsOf(U)
    BY DEF FiniteSubsetsOf
<1>3. QED  BY <1>1, <1>2 DEF B

NatOn(v, S) == \A x \in S : v[x] \in Nat

LEMMA SumsNat ==
    ASSUME NEW v, NEW S, IsFiniteSet(S), NatOn(v, S),
           NEW f, Sums(v, S, f)
    PROVE  \A W \in SUBSET S : f[W] \in Nat
<1> DEFINE B == {W \in FiniteSubsetsOf(S) : f[W] \notin Nat}
<1>0. B \subseteq FiniteSubsetsOf(S)
    OBVIOUS
<1> HIDE DEF B
<1>1. ASSUME B # {} PROVE FALSE
  <2>1. PICK W \in B : \A V \in B : V \subseteq W => V = W
      BY <1>0, <1>1, LeastSet
  <2>2. W \subseteq S /\ IsFiniteSet(W) /\ f[W] \notin Nat
      BY DEF B, FiniteSubsetsOf
  <2>3. f[W] = IF W = {} THEN 0 ELSE v[Pick(W)] + f[W \ {Pick(W)}]
      BY <2>2, SumsAt
  <2>4. W # {}
      BY <2>2, <2>3
  <2>5. W \ {Pick(W)} \in FiniteSubsetsOf(S) /\ W \ {Pick(W)} # W
      BY <2>2, <2>4, PickIn, FS_Subset DEF FiniteSubsetsOf
  <2>6. f[W \ {Pick(W)}] \in Nat
      BY <2>1, <2>5 DEF B
  <2>7. v[Pick(W)] \in Nat
      BY <2>2, <2>4, PickIn DEF NatOn
  <2>8. QED  BY <2>2, <2>3, <2>4, <2>6, <2>7
<1>2. \A W \in SUBSET S : W \in FiniteSubsetsOf(S)
    BY FS_FiniteSubsetsOfFinite
<1>3. QED  BY <1>1, <1>2 DEF B

LEMMA SumsExist ==
    ASSUME NEW v, NEW S, IsFiniteSet(S)
    PROVE  \E f : Sums(v, S, f)
<1> DEFINE B == {W \in FiniteSubsetsOf(S) : ~ \E f : Sums(v, W, f)}
<1>0. B \subseteq FiniteSubsetsOf(S)
    OBVIOUS
<1> HIDE DEF B
<1>1. ASSUME B # {} PROVE FALSE
  <2>1. PICK W \in B : \A V \in B : V \subseteq W => V = W
      BY <1>0, <1>1, LeastSet
  <2>2. W \subseteq S /\ IsFiniteSet(W) /\ ~ \E f : Sums(v, W, f)
      BY DEF B, FiniteSubsetsOf
  <2> DEFINE h == [s \in SUBSET W |-> IF s = {} THEN 0
                                      ELSE v[Pick(s)] + Total(v, s \ {Pick(s)})]
  <2>3. ASSUME NEW s, s \subseteq W, s # W
        PROVE  Sums(v, s, CHOOSE f : Sums(v, s, f))
    <3>1. s \in FiniteSubsetsOf(S)
        BY <2>2, <2>3, FS_Subset DEF FiniteSubsetsOf
    <3>2. \E f : Sums(v, s, f)
        BY <2>1, <2>3, <3>1 DEF B
    <3>3. QED  BY <3>2
  <2>4. ASSUME NEW s, s \subseteq W, s # W PROVE h[s] = Total(v, s)
    <3> DEFINE g == CHOOSE f : Sums(v, s, f)
    <3>1. Sums(v, s, g) /\ Total(v, s) = g[s]
        BY <2>3, <2>4, TotalIs
    <3> HIDE DEF g
    <3>2. g[s] = IF s = {} THEN 0 ELSE v[Pick(s)] + g[s \ {Pick(s)}]
        BY <3>1, SumsAt
    <3>3. CASE s = {}
        BY <3>1, <3>2, <3>3
    <3>4. CASE s # {}
      <4> DEFINE u == s \ {Pick(s)}
                 k == CHOOSE f : Sums(v, u, f)
      <4>1. u \subseteq s /\ u \subseteq W /\ u # W /\ IsFiniteSet(u)
          BY <2>2, <2>4, <3>4, PickIn, FS_Subset
      <4>2. Sums(v, u, k) /\ Total(v, u) = k[u]
          BY <2>3, <4>1, TotalIs
      <4> HIDE DEF k
      <4>3. k[u] = g[u]
          BY <3>1, <4>1, <4>2, SumsAgree
      <4>4. h[s] = v[Pick(s)] + Total(v, u)
          BY <2>4, <3>4
      <4>5. QED  BY <3>1, <3>2, <3>4, <4>2, <4>3, <4>4
    <3>5. QED  BY <3>3, <3>4
  <2>5. ASSUME NEW s \in SUBSET W, s # {}
        PROVE  h[s \ {Pick(s)}] = Total(v, s \ {Pick(s)})
    <3>1. s \ {Pick(s)} \subseteq W /\ s \ {Pick(s)} # W
        BY <2>5, PickIn
    <3> HIDE DEF h
    <3>2. QED  BY <2>4, <3>1
  <2>6. h = [s \in SUBSET W |-> IF s = {} THEN 0 ELSE v[Pick(s)] + h[s \ {Pick(s)}]]
    <3> DEFINE i == [s \in SUBSET W |-> IF s = {} THEN 0 ELSE v[Pick(s)] + h[s \ {Pick(s)}]]
    <3>1. ASSUME NEW s \in SUBSET W PROVE h[s] = i[s]
      <4>1. h[s] = IF s = {} THEN 0 ELSE v[Pick(s)] + Total(v, s \ {Pick(s)})
          OBVIOUS
      <4> HIDE DEF h
      <4>2. QED  BY <4>1, <2>5
    <3>2. QED  BY <3>1
  <2>7. Sums(v, W, h)
      BY <2>6 DEF Sums
  <2>8. QED  BY <2>2, <2>7
<1>2. S \in FiniteSubsetsOf(S)
    BY DEF FiniteSubsetsOf
<1>3. QED  BY <1>1, <1>2 DEF B

(* What a total is: nothing for nothing; and otherwise any element may be   *)
(* taken first.                                                             *)
LEMMA TotalStep ==
    ASSUME NEW v, NEW S, IsFiniteSet(S)
    PROVE  Total(v, S) = IF S = {} THEN 0 ELSE v[Pick(S)] + Total(v, S \ {Pick(S)})
<1> DEFINE g == CHOOSE f : Sums(v, S, f)
           u == S \ {Pick(S)}
           k == CHOOSE f : Sums(v, u, f)
<1>1. IsFiniteSet(u) /\ u \subseteq S
    BY FS_Subset
<1>2. Sums(v, S, g) /\ Total(v, S) = g[S]
    BY SumsExist, TotalIs
<1>3. Sums(v, u, k) /\ Total(v, u) = k[u]
    BY <1>1, SumsExist, TotalIs
<1> HIDE DEF g, k
<1>4. k[u] = g[u]
    BY <1>1, <1>2, <1>3, SumsAgree
<1>5. g[S] = IF S = {} THEN 0 ELSE v[Pick(S)] + g[u]
    BY <1>2, SumsAt
<1>6. QED  BY <1>2, <1>3, <1>4, <1>5

LEMMA TotalNat ==
    ASSUME NEW v, NEW S, IsFiniteSet(S), NatOn(v, S)
    PROVE  Total(v, S) \in Nat
<1> DEFINE g == CHOOSE f : Sums(v, S, f)
<1>1. Sums(v, S, g) /\ Total(v, S) = g[S]
    BY SumsExist, TotalIs
<1> HIDE DEF g
<1>2. QED  BY <1>1, SumsNat

LEMMA TotalAny ==
    ASSUME NEW v, NEW S, IsFiniteSet(S), NatOn(v, S), NEW a \in S
    PROVE  Total(v, S) = v[a] + Total(v, S \ {a})
<1> DEFINE B == {W \in FiniteSubsetsOf(S) :
                    \E x \in W : Total(v, W) # v[x] + Total(v, W \ {x})}
<1>0. B \subseteq FiniteSubsetsOf(S)
    OBVIOUS
<1>1. ASSUME B # {} PROVE FALSE
  <2>1. PICK W \in B : \A V \in B : V \subseteq W => V = W
    <3> HIDE DEF B
    <3>1. QED  BY <1>0, <1>1, LeastSet
  <2>2. PICK x \in W : Total(v, W) # v[x] + Total(v, W \ {x})
      OBVIOUS
  <2>3. W \subseteq S /\ IsFiniteSet(W)
      BY DEF FiniteSubsetsOf
  <2> DEFINE y == Pick(W)
  <2>4. /\ y \in W
        /\ Total(v, W) = v[y] + Total(v, W \ {y})
      BY <2>3, TotalStep, PickIn
  <2> HIDE DEF y
  <2>5. y # x
      BY <2>2, <2>4
  <2>6. ASSUME NEW w \in W, NEW z \in W \ {w}
        PROVE  Total(v, W \ {w}) = v[z] + Total(v, (W \ {w}) \ {z})
    <3>1. W \ {w} \in FiniteSubsetsOf(S) /\ W \ {w} # W
        BY <2>3, FS_Subset DEF FiniteSubsetsOf
    <3>2. W \ {w} \notin B
        BY <2>1, <3>1
    <3>3. QED  BY <3>1, <3>2
  <2>7. Total(v, W \ {y}) = v[x] + Total(v, (W \ {y}) \ {x})
      BY <2>5, <2>4, <2>6
  <2>8. Total(v, W \ {x}) = v[y] + Total(v, (W \ {x}) \ {y})
      BY <2>5, <2>4, <2>6
  <2>9. (W \ {y}) \ {x} = (W \ {x}) \ {y}
      OBVIOUS
  <2>10. /\ v[x] \in Nat /\ v[y] \in Nat
         /\ Total(v, (W \ {x}) \ {y}) \in Nat
    <3>1. IsFiniteSet((W \ {x}) \ {y}) /\ (W \ {x}) \ {y} \subseteq S
        BY <2>3, FS_Subset
    <3>2. NatOn(v, (W \ {x}) \ {y}) /\ v[x] \in Nat /\ v[y] \in Nat
        BY <2>3, <2>4 DEF NatOn
    <3>3. QED  BY <3>1, <3>2, TotalNat
  <2>11. Total(v, (W \ {y}) \ {x}) = Total(v, (W \ {x}) \ {y})
      BY <2>9
  <2> DEFINE c == Total(v, (W \ {x}) \ {y})
             p == v[x]
             q == v[y]
             s == Total(v, W)
             i == Total(v, W \ {x})
             j == Total(v, W \ {y})
  <2>12. /\ s # p + i /\ s = q + j /\ j = p + c /\ i = q + c
         /\ p \in Nat /\ q \in Nat /\ c \in Nat
      BY <2>2, <2>4, <2>7, <2>8, <2>10, <2>11
  <2> HIDE DEF c, p, q, s, i, j
  <2>13. QED  BY <2>12
<1>2. S \in FiniteSubsetsOf(S)
    BY DEF FiniteSubsetsOf
<1>3. QED  BY <1>1, <1>2

LEMMA TotalEmpty == ASSUME NEW v PROVE Total(v, {}) = 0
    BY TotalStep, FS_EmptySet

(* The total of two disjoint sets together.                                 *)
LEMMA TotalUnion ==
    ASSUME NEW v, NEW S, NEW T, IsFiniteSet(S), IsFiniteSet(T), S \cap T = {},
           NatOn(v, S \cup T)
    PROVE  Total(v, S \cup T) = Total(v, S) + Total(v, T)
<1> DEFINE B == {W \in FiniteSubsetsOf(T) :
                    Total(v, S \cup W) # Total(v, S) + Total(v, W)}
<1>0. B \subseteq FiniteSubsetsOf(T)
    OBVIOUS
<1>1. ASSUME B # {} PROVE FALSE
  <2>1. PICK W \in B : \A V \in B : V \subseteq W => V = W
    <3> HIDE DEF B
    <3>1. QED  BY <1>0, <1>1, LeastSet
  <2>2. /\ W \subseteq T /\ IsFiniteSet(W)
        /\ Total(v, S \cup W) # Total(v, S) + Total(v, W)
      BY DEF FiniteSubsetsOf
  <2>3. Total(v, S) \in Nat
    <3>1. NatOn(v, S)
        BY DEF NatOn
    <3>2. QED  BY <3>1, TotalNat
  <2>4. W # {}
    <3> SUFFICES ASSUME W = {} PROVE FALSE
        OBVIOUS
    <3> DEFINE a == Total(v, S)
    <3>1. S \cup W = S
        OBVIOUS
    <3>2. a # a + 0 /\ a \in Nat
        BY <2>2, <2>3, <3>1, TotalEmpty
    <3> HIDE DEF a
    <3>3. QED  BY <3>2
  <2>5. PICK x : x \in W
      BY <2>4
  <2> DEFINE u == W \ {x}
  <2>6. u \in FiniteSubsetsOf(T) /\ u # W /\ IsFiniteSet(u) /\ u \subseteq T
      BY <2>2, <2>5, FS_Subset DEF FiniteSubsetsOf
  <2>7. Total(v, S \cup u) = Total(v, S) + Total(v, u)
      BY <2>1, <2>6
  <2>8. Total(v, W) = v[x] + Total(v, u)
    <3>1. NatOn(v, W)
        BY <2>2 DEF NatOn
    <3>2. QED  BY <2>2, <2>5, <3>1, TotalAny
  <2>9. Total(v, S \cup W) = v[x] + Total(v, S \cup u)
    <3>1. (S \cup W) \ {x} = S \cup u
        BY <2>2, <2>5
    <3>2. IsFiniteSet(S \cup W) /\ x \in S \cup W /\ NatOn(v, S \cup W)
        BY <2>2, <2>5, FS_Union DEF NatOn
    <3>3. Total(v, S \cup W) = v[x] + Total(v, (S \cup W) \ {x})
        BY <3>2, TotalAny
    <3>4. QED  BY <3>1, <3>3
  <2>10. v[x] \in Nat /\ Total(v, u) \in Nat
    <3>1. NatOn(v, u) /\ v[x] \in Nat
        BY <2>2, <2>5, <2>6 DEF NatOn
    <3>2. QED  BY <2>6, <3>1, TotalNat
  <2> HIDE DEF u
  <2>11. QED  BY <2>2, <2>3, <2>7, <2>8, <2>9, <2>10
<1>2. T \in FiniteSubsetsOf(T)
    BY DEF FiniteSubsetsOf
<1>3. QED  BY <1>1, <1>2

LEMMA TotalMore ==
    ASSUME NEW v, NEW S, NEW T, S \subseteq T, IsFiniteSet(T), NatOn(v, T)
    PROVE  Total(v, S) <= Total(v, T)
<1>1. IsFiniteSet(S) /\ IsFiniteSet(T \ S)
    BY FS_Subset
<1>2. S \cup (T \ S) = T
    OBVIOUS
<1>3. NatOn(v, S) /\ NatOn(v, T \ S) /\ NatOn(v, S \cup (T \ S))
    BY DEF NatOn
<1>4. Total(v, S \cup (T \ S)) = Total(v, S) + Total(v, T \ S)
    BY <1>1, <1>3, TotalUnion
<1>5. Total(v, S) \in Nat /\ Total(v, T \ S) \in Nat
    BY <1>1, <1>3, TotalNat
<1> DEFINE a == Total(v, S)
           b == Total(v, T \ S)
           c == Total(v, T)
<1>6. c = a + b /\ a \in Nat /\ b \in Nat
    BY <1>2, <1>4, <1>5
<1> HIDE DEF a, b, c
<1>7. a <= c
    BY <1>6
<1>8. QED  BY <1>7 DEF a, c

--------------------------------------------------------------------------------
(* One handler at a time. *)

(* What a handler holds is of its kind, and a payment is stored by the      *)
(* confirmation it is named after, which is then over.                      *)
Tidy ==
    /\ pc \in [Requests -> Pcs]
    /\ DOMAIN reply = Requests
    /\ paidMonth \in [Stores -> Paid]
    /\ \A r \in Requests :
          /\ mem[r].findStore \in Paid
          /\ pc[r] # "done" => reply[r] = "none"
          /\ pc[r] \in {"findStore", "existing", "insert"} => job[r].kind = "confirm"
          /\ pc[r] \in {"saveStore", "updateStore"} => job[r].kind \in {"confirm", "edit"}
    /\ IsFiniteSet(payments)
    /\ \A p \in payments : /\ p.id \in Requests /\ p.storeId \in Stores
                           /\ pc[p.id] = "done" /\ reply[p.id] = "oke"

OneAtATime == \A q, r \in Busy : q = r

(* The payments of a month, and the confirmations that noted it in vain, or *)
(* have yet to store the payment.                                           *)
MonthPaid(s, m) == {p \in payments : p.storeId = s /\ p.month = m}

Unpaid(s, m) ==
    {r \in Requests : /\ job[r].kind = "confirm" /\ job[r].store = s /\ job[r].month = m
                      /\ reply[r] = "error" \/ pc[r] \in {"insert", "lost"}}

(* paidMonth lists a month once per payment and once per vain confirmation  *)
(* at most; a confirmation about to pay has noted its month.                *)
Listed ==
    \A s \in Stores, m \in Months :
        /\ Cardinality(MonthPaid(s, m)) <= paidMonth[s][m]
        /\ paidMonth[s][m] <= Cardinality(MonthPaid(s, m)) + Cardinality(Unpaid(s, m))

Noted ==
    \A r \in Requests : pc[r] = "insert" =>
        Cardinality(MonthPaid(job[r].store, job[r].month)) + 1
            <= paidMonth[job[r].store][job[r].month]

(* Nobody saves the store between a handler's reading of it and its saving. *)
Fresh ==
    \A r \in Requests :
        /\ pc[r] \in {"existing", "saveStore", "updateStore"} =>
               mem[r].findStore = paidMonth[job[r].store]
        /\ pc[r] = "updateStore" => mem[r].dirty = (Saved(r) # paidMonth[job[r].store])

(* A confirmation past 'Store Paid' is for a month that is still unpaid.    *)
Checked(r) ==
    \/ pc[r] = "insert"
    \/ pc[r] \in {"saveStore", "updateStore"} /\ job[r].kind = "confirm"

StillUnpaid == \A r \in Requests : Checked(r) => Existing(r) = {}

Own == OneAtATime /\ Listed /\ Noted /\ Fresh /\ StillUnpaid /\ PaidOnce

--------------------------------------------------------------------------------
LEMMA TidyInit == Init => Tidy
<1> SUFFICES ASSUME Init PROVE Tidy
    OBVIOUS
<1>1. Blank.findStore \in Paid
    BY DEF Blank, Paid
<1>2. IsFiniteSet({})
    BY FS_EmptySet
<1>3. QED  BY <1>1, <1>2 DEF Init, Tidy, Pcs, Paid

LEMMA JobFields ==
    ASSUME Types, NEW r \in Requests
    PROVE  /\ job[r].kind \in Kinds /\ job[r].store \in Stores
           /\ job[r].month \in Months
    BY DEF Types, Job

LEMMA SavedPaid ==
    ASSUME Types, Tidy, NEW r \in Requests
    PROVE  Saved(r) \in Paid
<1>1. mem[r].findStore \in Paid /\ job[r].month \in Months
    BY JobFields DEF Tidy
<1>2. QED  BY <1>1 DEF Saved, Paid

(* A handler answers; it was at one of the program counters of its kind.    *)
LEMMA TidyNext == Types /\ Tidy /\ [Next]_vars => Tidy'
<1> SUFFICES ASSUME Types, Tidy, [Next]_vars PROVE Tidy'
    OBVIOUS
<1>0. Blank.findStore \in Paid /\ job \in [Requests -> Job] /\ DOMAIN mem = Requests
    BY DEF Blank, Paid, Types
<1>1. CASE UNCHANGED vars
    BY <1>1 DEF vars, Tidy
<1>2. ASSUME NEW r \in Requests, BookOrder(r) PROVE Tidy'
    BY <1>0, <1>2 DEF BookOrder, Arrives, Answer, Goto, Tidy, Pcs
<1>3. ASSUME NEW r \in Requests, ConfirmOrders(r) PROVE Tidy'
    BY <1>0, <1>3 DEF ConfirmOrders, Arrives, Goto, Tidy, Pcs, tables
<1>4. ASSUME NEW r \in Requests, ConfirmFindStore(r) PROVE Tidy'
  <2>1. paidMonth[job[r].store] \in Paid
      BY JobFields DEF Tidy
  <2>2. QED  BY <1>0, <1>4, <2>1 DEF ConfirmFindStore, Goto, Tidy, Pcs, tables
<1>5. ASSUME NEW r \in Requests, ConfirmExisting(r) PROVE Tidy'
  <2>1. pc[r] = "existing" /\ UNCHANGED <<paidMonth, payments, job>>
      BY <1>5 DEF ConfirmExisting, tables
  <2>2. \/ Answer(r, "Store Paid")
        \/ Goto(r, "saveStore") /\ UNCHANGED <<mem, reply>>
      BY <1>5 DEF ConfirmExisting
  <2>3. CASE Answer(r, "Store Paid")
      BY <1>0, <2>1, <2>3 DEF Answer, Goto, Tidy, Pcs
  <2>4. CASE Goto(r, "saveStore") /\ UNCHANGED <<mem, reply>>
      BY <1>0, <2>1, <2>4 DEF Goto, Tidy, Pcs
  <2>5. QED  BY <2>2, <2>3, <2>4
<1>6. ASSUME NEW r \in Requests, ConfirmInsert(r) PROVE Tidy'
  <2>1. IsFiniteSet(payments')
    <3>1. CASE UNCHANGED payments  BY <3>1 DEF Tidy
    <3>2. CASE ~UNCHANGED payments
      <4>1. PICK p : payments' = payments \cup {p}
          BY <1>6, <3>2 DEF ConfirmInsert
      <4>2. QED  BY <4>1, FS_AddElement DEF Tidy
    <3>3. QED  BY <3>1, <3>2
  <2>2. \A p \in payments' : p \in payments
                            \/ (p.id = r /\ p.storeId \in Stores /\ reply'[r] = "oke")
      BY <1>6, JobFields DEF ConfirmInsert, Answer, Tidy
  <2>3. pc' = [pc EXCEPT ![r] = "done"] /\ mem' = [mem EXCEPT ![r] = Blank]
        /\ \E m : reply' = [reply EXCEPT ![r] = m]
      BY <1>6 DEF ConfirmInsert, Answer, Goto
  <2>4. UNCHANGED <<paidMonth, job>> /\ pc[r] = "insert"
      BY <1>6 DEF ConfirmInsert
  <2>5. \A p \in payments' : /\ p.id \in Requests /\ p.storeId \in Stores
                             /\ pc'[p.id] = "done" /\ reply'[p.id] = "oke"
    <3> SUFFICES ASSUME NEW p \in payments'
                 PROVE  /\ p.id \in Requests /\ p.storeId \in Stores
                        /\ pc'[p.id] = "done" /\ reply'[p.id] = "oke"
        OBVIOUS
    <3>1. CASE p \in payments
      <4>1. p.id \in Requests /\ p.storeId \in Stores /\ pc[p.id] = "done"
            /\ reply[p.id] = "oke"
          BY <3>1 DEF Tidy
      <4>2. p.id # r
          BY <4>1, <2>4
      <4>3. QED  BY <4>1, <4>2, <2>3 DEF Tidy
    <3>2. CASE p \notin payments
        BY <3>2, <2>2, <2>3 DEF Tidy
    <3>3. QED  BY <3>1, <3>2
  <2>6. QED  BY <1>0, <2>1, <2>3, <2>4, <2>5 DEF Tidy, Pcs
<1>7. ASSUME NEW r \in Requests, EditFind(r) PROVE Tidy'
  <2>1. paidMonth[job[r].store] \in Paid
      BY JobFields DEF Tidy
  <2>2. QED  BY <1>0, <1>7, <2>1 DEF EditFind, Arrives, Goto, Tidy, Pcs, tables
<1>8. ASSUME NEW r \in Requests, SaveStoreSelect(r) PROVE Tidy'
    BY <1>0, <1>8 DEF SaveStoreSelect, Goto, Tidy, Pcs, tables
<1>9. ASSUME NEW r \in Requests, SaveStoreUpdate(r) PROVE Tidy'
  <2>1. paidMonth' \in [Stores -> Paid]
      BY <1>9, SavedPaid DEF SaveStoreUpdate, Tidy
  <2>2. QED  BY <1>0, <1>9, <2>1 DEF SaveStoreUpdate, Answer, Goto, Tidy, Pcs
<1>10. CASE Crash
  <2>1. UNCHANGED <<paidMonth, payments, job, reply>>
      BY <1>10 DEF Crash, tables
  <2>2. pc' \in [Requests -> Pcs] /\ mem' = [r \in Requests |-> Blank]
      BY <1>10 DEF Crash, Tidy, Pcs
  <2>3. \A r \in Requests : IF pc[r] \in {"new", "done", "lost"} THEN pc'[r] = pc[r]
                             ELSE pc'[r] = "lost"
      BY <1>10 DEF Crash, Busy
  <2>4. QED  BY <1>0, <2>1, <2>2, <2>3 DEF Tidy
<1>11. CASE Tick
    BY <1>11 DEF Tick, tables, Tidy
<1>12. QED
    BY <1>1, <1>2, <1>3, <1>4, <1>5, <1>6, <1>7, <1>8, <1>9, <1>10, <1>11
    DEF Next, Confirm

--------------------------------------------------------------------------------
(* While handlers run one at a time, a step is of the only one running.     *)
LEMMA Only ==
    ASSUME Tidy, OneAtATime, NEW r \in Busy
    PROVE  \A q \in Requests \ {r} : pc[q] \in {"new", "done", "lost"}
    BY DEF OneAtATime, Busy

LEMMA MonthFinite ==
    ASSUME Tidy, NEW s, NEW m
    PROVE  IsFiniteSet(MonthPaid(s, m)) /\ Cardinality(MonthPaid(s, m)) \in Nat
<1>1. MonthPaid(s, m) \subseteq payments /\ IsFiniteSet(payments)
    BY DEF MonthPaid, Tidy
<1>2. QED  BY <1>1, FS_Subset, FS_CardinalityType

LEMMA UnpaidFinite ==
    ASSUME NEW s, NEW m
    PROVE  IsFiniteSet(Unpaid(s, m)) /\ Cardinality(Unpaid(s, m)) \in Nat
<1>1. Unpaid(s, m) \subseteq Requests /\ IsFiniteSet(Requests)
    BY PaymentsAssumption DEF Unpaid
<1>2. QED  BY <1>1, FS_Subset, FS_CardinalityType

LEMMA UnpaidFinitePrime ==
    ASSUME NEW s, NEW m
    PROVE  IsFiniteSet(Unpaid(s, m)') /\ Cardinality(Unpaid(s, m)') \in Nat
<1>1. Unpaid(s, m)' \subseteq Requests /\ IsFiniteSet(Requests)
    BY PaymentsAssumption DEF Unpaid
<1>2. QED  BY <1>1, FS_Subset, FS_CardinalityType

(* A step that keeps the two tables and starts no confirmation past its     *)
(* check, and after which none that failed is forgotten.                    *)
LEMMA TablesKept ==
    ASSUME Types, Tidy, Listed, PaidOnce, UNCHANGED <<paidMonth, payments, job>>,
           \A s \in Stores, m \in Months : Unpaid(s, m) \subseteq Unpaid(s, m)'
    PROVE  Listed' /\ PaidOnce'
<1>1. PaidOnce'
    BY DEF PaidOnce
<1>2. ASSUME NEW s \in Stores, NEW m \in Months
      PROVE  /\ Cardinality(MonthPaid(s, m)') <= paidMonth'[s][m]
             /\ paidMonth'[s][m]
                    <= Cardinality(MonthPaid(s, m)') + Cardinality(Unpaid(s, m)')
  <2>1. MonthPaid(s, m)' = MonthPaid(s, m)
      BY DEF MonthPaid
  <2>2. Cardinality(Unpaid(s, m)) <= Cardinality(Unpaid(s, m)')
      BY UnpaidFinite, UnpaidFinitePrime, FS_Subset
  <2>3. paidMonth[s][m] \in Nat
      BY DEF Tidy, Paid
  <2>4. /\ Cardinality(MonthPaid(s, m)) <= paidMonth[s][m]
        /\ paidMonth[s][m] <= Cardinality(MonthPaid(s, m)) + Cardinality(Unpaid(s, m))
      BY DEF Listed
  <2> HIDE DEF MonthPaid, Unpaid
  <2>5. QED  BY <2>1, <2>2, <2>3, <2>4, MonthFinite, UnpaidFinite, UnpaidFinitePrime
<1>3. Listed'
    BY <1>2 DEF Listed
<1>4. QED  BY <1>1, <1>3

(* Nobody holds anything after the step.                                    *)
LEMMA NobodyHolds ==
    ASSUME Tidy', \A q \in Requests : pc'[q] \in {"new", "done", "lost", "findStore"}
    PROVE  Noted' /\ Fresh' /\ StillUnpaid'
<1>1. \A q \in Requests : /\ ~Checked(q)' /\ pc'[q] # "insert"
                          /\ pc'[q] \notin {"existing", "saveStore", "updateStore"}
    BY DEF Checked
<1>2. QED  BY <1>1 DEF Noted, Fresh, StillUnpaid

(* A step of r alone, after which it holds at most the orders.              *)
LEMMA LightStep ==
    ASSUME Types, Tidy, Tidy', Own, NEW r \in Requests,
           \A q \in Requests \ {r} : pc[q] \in {"new", "done", "lost"},
           \E l \in {"new", "done", "lost", "findStore"} : Goto(r, l),
           pc[r] \notin {"insert", "done", "lost"},
           UNCHANGED <<paidMonth, payments, job>>,
           \A q \in Requests \ {r} : reply'[q] = reply[q]
    PROVE  Own'
<1>1. /\ \A q \in Requests \ {r} : pc'[q] = pc[q]
      /\ pc'[r] \in {"new", "done", "lost", "findStore"}
    BY DEF Goto, Tidy
<1>2. Noted' /\ Fresh' /\ StillUnpaid'
    BY <1>1, NobodyHolds
<1>3. OneAtATime'
    BY <1>1 DEF OneAtATime, Busy
<1>4. \A s \in Stores, m \in Months : Unpaid(s, m) \subseteq Unpaid(s, m)'
  <2>1. reply[r] = "none"
      BY DEF Tidy
  <2>2. QED  BY <1>1, <2>1 DEF Unpaid
<1>5. QED  BY <1>2, <1>3, <1>4, TablesKept DEF Own

(* A step of r that leaves the tables alone, after which what it holds is   *)
(* current.                                                                 *)
LEMMA HeldStep ==
    ASSUME Types, Tidy, Tidy', Own, NEW r \in Requests,
           \A q \in Requests \ {r} : pc[q] \in {"new", "done", "lost"},
           \E l \in {"existing", "saveStore", "updateStore"} : Goto(r, l),
           pc[r] \notin {"insert", "done", "lost"},
           UNCHANGED <<paidMonth, payments, job, reply>>,
           mem'[r].findStore = paidMonth[job[r].store],
           pc'[r] = "updateStore" => mem'[r].dirty = (Saved(r)' # paidMonth[job[r].store]),
           Checked(r)' => Existing(r)' = {}
    PROVE  Own'
<1>1. /\ \A q \in Requests \ {r} : pc'[q] = pc[q]
      /\ pc'[r] \in {"existing", "saveStore", "updateStore"}
    BY DEF Goto, Tidy
<1>2. OneAtATime'
    BY <1>1 DEF OneAtATime, Busy
<1>3. Noted'
    BY <1>1 DEF Noted
<1>4. Fresh'
  <2> SUFFICES ASSUME NEW q \in Requests
               PROVE  (/\ pc[q] \in {"existing", "saveStore", "updateStore"} =>
                             mem[q].findStore = paidMonth[job[q].store]
                       /\ pc[q] = "updateStore" =>
                             mem[q].dirty = (Saved(q) # paidMonth[job[q].store]))'
      BY DEF Fresh
  <2>1. CASE q = r
      BY <2>1
  <2>2. CASE q # r
      BY <1>1, <2>2
  <2>3. QED  BY <2>1, <2>2
<1>5. StillUnpaid'
  <2> SUFFICES ASSUME NEW q \in Requests, Checked(q)' PROVE Existing(q)' = {}
      BY DEF StillUnpaid
  <2>1. CASE q = r
      BY <2>1
  <2>2. CASE q # r
      BY <1>1, <2>2 DEF Checked
  <2>3. QED  BY <2>1, <2>2
<1>6. \A s \in Stores, m \in Months : Unpaid(s, m) \subseteq Unpaid(s, m)'
  <2>1. reply[r] = "none"
      BY DEF Tidy
  <2>2. QED  BY <1>1, <2>1 DEF Unpaid
<1>7. QED  BY <1>2, <1>3, <1>4, <1>5, <1>6, TablesKept DEF Own

(* The UPDATE notes the month of a confirmation, and keeps what an edit read. *)
LEMMA UpdateStep ==
    ASSUME Types, Tidy, Tidy', Own, NEW r \in Requests, SaveStoreUpdate(r),
           \A q \in Requests \ {r} : pc[q] \in {"new", "done", "lost"}
    PROVE  Own'
<1> DEFINE t == job[r].store
           n == job[r].month
<1>1. /\ pc[r] = "updateStore" /\ UNCHANGED <<payments, job>>
      /\ t \in Stores /\ n \in Months
    BY JobFields DEF SaveStoreUpdate
<1>2. paidMonth' = [paidMonth EXCEPT ![t] = Saved(r)]
  <2>1. mem[r].dirty = (Saved(r) # paidMonth[t])
      BY <1>1 DEF Own, Fresh
  <2>2. CASE mem[r].dirty
      BY <2>2 DEF SaveStoreUpdate
  <2>3. CASE ~mem[r].dirty
    <3>1. paidMonth' = paidMonth /\ Saved(r) = paidMonth[t]
        BY <2>1, <2>3 DEF SaveStoreUpdate
    <3>2. QED  BY <3>1, <1>1 DEF Tidy
  <2>4. QED  BY <2>1, <2>2, <2>3
<1>3. mem[r].findStore = paidMonth[t] /\ reply[r] = "none"
    BY <1>1 DEF Own, Fresh, Tidy
<1>4. CASE job[r].kind = "edit"
  <2>1. paidMonth' = paidMonth
      BY <1>1, <1>2, <1>3, <1>4 DEF Saved, Tidy
  <2>2. Answer(r, "oke")
      BY <1>4 DEF SaveStoreUpdate
  <2>3. Goto(r, "done") /\ \A q \in Requests \ {r} : reply'[q] = reply[q]
      BY <2>2 DEF Answer, Tidy
  <2>4. QED  BY <1>1, <2>1, <2>3, LightStep
<1>5. CASE job[r].kind = "confirm"
  <2>1. Goto(r, "insert") /\ UNCHANGED <<mem, reply>>
      BY <1>5 DEF SaveStoreUpdate
  <2>2. /\ \A q \in Requests \ {r} : pc'[q] = pc[q]
        /\ pc'[r] = "insert"
      BY <2>1 DEF Goto, Tidy
  <2>3. \A s \in Stores, m \in Months :
            paidMonth'[s][m] = IF s = t /\ m = n THEN paidMonth[s][m] + 1
                               ELSE paidMonth[s][m]
      BY <1>1, <1>2, <1>3, <1>5 DEF Saved, Tidy, Paid
  <2>4. ASSUME NEW s \in Stores, NEW m \in Months
        PROVE  /\ MonthPaid(s, m)' = MonthPaid(s, m)
               /\ Unpaid(s, m)' = IF s = t /\ m = n THEN Unpaid(s, m) \cup {r}
                                  ELSE Unpaid(s, m)
               /\ r \notin Unpaid(s, m)
    <3>1. MonthPaid(s, m)' = MonthPaid(s, m)
        BY <1>1 DEF MonthPaid
    <3>2. r \notin Unpaid(s, m)
        BY <1>1, <1>3 DEF Unpaid
    <3>3. ASSUME NEW q \in Requests, q # r
          PROVE  q \in Unpaid(s, m)' <=> q \in Unpaid(s, m)
        BY <1>1, <2>1, <2>2, <3>3 DEF Unpaid
    <3>4. r \in Unpaid(s, m)' <=> (s = t /\ m = n)
        BY <1>1, <1>3, <1>5, <2>1, <2>2 DEF Unpaid
    <3>5. Unpaid(s, m) \subseteq Requests /\ Unpaid(s, m)' \subseteq Requests
        BY DEF Unpaid
    <3> HIDE DEF Unpaid
    <3>6. Unpaid(s, m)' = IF s = t /\ m = n THEN Unpaid(s, m) \cup {r}
                          ELSE Unpaid(s, m)
        BY <3>2, <3>3, <3>4, <3>5
    <3>7. QED  BY <3>1, <3>2, <3>6
  <2>5. ASSUME NEW s \in Stores, NEW m \in Months
        PROVE  /\ Cardinality(MonthPaid(s, m)') <= paidMonth'[s][m]
               /\ s = t /\ m = n => Cardinality(MonthPaid(s, m)') + 1 <= paidMonth'[s][m]
               /\ paidMonth'[s][m]
                      <= Cardinality(MonthPaid(s, m)') + Cardinality(Unpaid(s, m)')
    <3>1. paidMonth[s][m] \in Nat
        BY DEF Tidy, Paid
    <3>2. /\ Cardinality(MonthPaid(s, m)) <= paidMonth[s][m]
          /\ paidMonth[s][m] <= Cardinality(MonthPaid(s, m)) + Cardinality(Unpaid(s, m))
        BY DEF Own, Listed
    <3>3. Cardinality(Unpaid(s, m) \cup {r}) = Cardinality(Unpaid(s, m)) + 1
        BY <2>4, UnpaidFinite, FS_AddElement
    <3>4. /\ Cardinality(MonthPaid(s, m)) \in Nat
          /\ Cardinality(Unpaid(s, m)) \in Nat
        BY MonthFinite, UnpaidFinite
    <3>5. CASE s = t /\ m = n
      <4>1. /\ paidMonth'[s][m] = paidMonth[s][m] + 1
            /\ Cardinality(MonthPaid(s, m)') = Cardinality(MonthPaid(s, m))
            /\ Cardinality(Unpaid(s, m)') = Cardinality(Unpaid(s, m)) + 1
          BY <2>3, <2>4, <3>3, <3>5
      <4>2. QED  BY <4>1, <3>1, <3>2, <3>4
    <3>6. CASE ~(s = t /\ m = n)
      <4>1. /\ paidMonth'[s][m] = paidMonth[s][m]
            /\ Cardinality(MonthPaid(s, m)') = Cardinality(MonthPaid(s, m))
            /\ Cardinality(Unpaid(s, m)') = Cardinality(Unpaid(s, m))
          BY <2>3, <2>4, <3>6
      <4>2. QED  BY <4>1, <3>1, <3>2, <3>4, <3>6
    <3>7. QED  BY <3>5, <3>6
  <2>6. Listed'
      BY <2>5 DEF Listed
  <2>7. Noted'
      BY <1>1, <2>2, <2>5 DEF Noted
  <2>8. Fresh'
      BY <2>2 DEF Fresh
  <2>9. StillUnpaid'
    <3>1. Existing(r) = {}
        BY <1>1, <1>5 DEF Own, StillUnpaid, Checked
    <3>2. Existing(r)' = {}
        BY <1>1, <2>1, <3>1 DEF Existing
    <3>3. QED  BY <2>2, <3>2 DEF StillUnpaid, Checked
  <2>10. OneAtATime'
      BY <2>2 DEF OneAtATime, Busy
  <2>11. PaidOnce'
      BY <1>1 DEF Own, PaidOnce
  <2>12. QED  BY <2>6, <2>7, <2>8, <2>9, <2>10, <2>11 DEF Own
<1>6. QED  BY <1>1, <1>4, <1>5 DEF Tidy

(* The payment is stored, or the confirmation joins those that failed.      *)
LEMMA InsertStep ==
    ASSUME Types, Tidy, Tidy', Own, NEW r \in Requests, ConfirmInsert(r),
           \A q \in Requests \ {r} : pc[q] \in {"new", "done", "lost"}
    PROVE  Own'
<1> DEFINE t == job[r].store
           n == job[r].month
<1>1. /\ pc[r] = "insert" /\ UNCHANGED <<paidMonth, job>>
      /\ t \in Stores /\ n \in Months /\ job[r].kind = "confirm" /\ reply[r] = "none"
    BY JobFields DEF ConfirmInsert, Tidy
<1>2. \E a : Answer(r, a)
    BY DEF ConfirmInsert
<1>3. /\ \A q \in Requests \ {r} : pc'[q] = pc[q] /\ reply'[q] = reply[q]
      /\ pc'[r] = "done"
    BY <1>2 DEF Answer, Goto, Tidy
<1>4. OneAtATime' /\ Noted' /\ Fresh' /\ StillUnpaid'
  <2>1. \A q \in Requests : pc'[q] \in {"new", "done", "lost", "findStore"}
      BY <1>3
  <2>2. OneAtATime'
      BY <1>3 DEF OneAtATime, Busy
  <2>3. QED  BY <2>1, <2>2, NobodyHolds
<1>5. CASE Fractional(r)
  <2>1. UNCHANGED payments /\ reply'[r] = "error"
      BY <1>5 DEF ConfirmInsert, Answer, Tidy
  <2>2. \A s \in Stores, m \in Months : Unpaid(s, m) \subseteq Unpaid(s, m)'
      BY <1>1, <1>3, <2>1 DEF Unpaid
  <2>3. QED  BY <1>1, <1>4, <2>1, <2>2, TablesKept DEF Own
<1>6. CASE ~Fractional(r)
  <2>1. PICK p : /\ payments' = payments \cup {p}
                 /\ p.id = r /\ p.storeId = t /\ p.month = n
                 /\ p.year = mem[r].on.year
    <3> DEFINE q == [id |-> r, storeId |-> t, month |-> n, year |-> mem[r].on.year,
                     totalProfit |-> (17 * TotalIncome(mem[r].ordersInAMonth)) \div 100,
                     of |-> mem[r].ordersInAMonth, on |-> mem[r].on]
    <3>1. payments' = payments \cup {q}
        BY <1>6 DEF ConfirmInsert
    <3>2. q.id = r /\ q.storeId = t /\ q.month = n /\ q.year = mem[r].on.year
        OBVIOUS
    <3> HIDE DEF q
    <3>3. QED  BY <3>1, <3>2
  <2>2. p \notin payments
      BY <1>1, <2>1 DEF Tidy
  <2>3. reply'[r] = "oke"
      BY <1>6 DEF ConfirmInsert, Answer, Tidy
  <2>4. PaidOnce'
    <3>1. Existing(r) = {}
        BY <1>1 DEF Own, StillUnpaid, Checked
    <3>2. \A q \in payments :
              <<q.storeId, q.month, q.year>> # <<p.storeId, p.month, p.year>>
        BY <2>1, <3>1 DEF Existing
    <3>3. PaidOnce
        BY DEF Own
    <3>4. QED  BY <2>1, <3>2, <3>3 DEF PaidOnce
  <2>5. ASSUME NEW s \in Stores, NEW m \in Months
        PROVE  /\ Cardinality(MonthPaid(s, m)') <= paidMonth'[s][m]
               /\ paidMonth'[s][m]
                      <= Cardinality(MonthPaid(s, m)') + Cardinality(Unpaid(s, m)')
    <3>1. /\ paidMonth[s][m] \in Nat
          /\ Cardinality(MonthPaid(s, m)) <= paidMonth[s][m]
          /\ paidMonth[s][m] <= Cardinality(MonthPaid(s, m)) + Cardinality(Unpaid(s, m))
          /\ Cardinality(MonthPaid(s, m)) \in Nat
          /\ Cardinality(Unpaid(s, m)) \in Nat
          /\ Cardinality(Unpaid(s, m)') \in Nat
        BY MonthFinite, UnpaidFinite, UnpaidFinitePrime DEF Tidy, Paid, Own, Listed
    <3>2. paidMonth' = paidMonth
        BY <1>1
    <3>3. ASSUME NEW q \in Requests, q # r
          PROVE  q \in Unpaid(s, m)' <=> q \in Unpaid(s, m)
        BY <1>1, <1>3, <3>3 DEF Unpaid
    <3>4. Unpaid(s, m) \subseteq Requests /\ Unpaid(s, m)' \subseteq Requests
        BY DEF Unpaid
    <3>5. r \notin Unpaid(s, m)'
        BY <1>1, <1>3, <2>3 DEF Unpaid
    <3>6. CASE s = t /\ m = n
      <4>1. r \in Unpaid(s, m)
          BY <1>1, <3>6 DEF Unpaid
      <4> HIDE DEF Unpaid
      <4>2. Unpaid(s, m) = Unpaid(s, m)' \cup {r}
          BY <3>3, <3>4, <3>5, <4>1
      <4>3. Cardinality(Unpaid(s, m)) = Cardinality(Unpaid(s, m)') + 1
          BY <3>5, <4>2, UnpaidFinitePrime, FS_AddElement
      <4>4. MonthPaid(s, m)' = MonthPaid(s, m) \cup {p} /\ p \notin MonthPaid(s, m)
          BY <2>1, <2>2, <3>6 DEF MonthPaid
      <4>5. Cardinality(MonthPaid(s, m)') = Cardinality(MonthPaid(s, m)) + 1
          BY <4>4, MonthFinite, FS_AddElement
      <4>6. Cardinality(MonthPaid(s, m)) + 1 <= paidMonth[s][m]
          BY <1>1, <3>6 DEF Own, Noted
      <4>7. QED  BY <3>1, <3>2, <4>3, <4>5, <4>6
    <3>7. CASE ~(s = t /\ m = n)
      <4>1. r \notin Unpaid(s, m)
          BY <3>7 DEF Unpaid
      <4> HIDE DEF Unpaid
      <4>2. Unpaid(s, m)' = Unpaid(s, m)
          BY <3>3, <3>4, <3>5, <4>1
      <4>3. MonthPaid(s, m)' = MonthPaid(s, m)
          BY <2>1, <3>7 DEF MonthPaid
      <4>4. QED  BY <3>1, <3>2, <4>2, <4>3
    <3>8. QED  BY <3>6, <3>7
  <2>6. Listed'
      BY <2>5 DEF Listed
  <2>7. QED  BY <1>4, <2>4, <2>6 DEF Own
<1>7. QED  BY <1>5, <1>6

(* A message arrives alone only if nobody is busy.                          *)
LEMMA ArrivesAlone ==
    ASSUME Tidy, NEW r \in Requests, NEW k, Arrives(r, k), alone'
    PROVE  /\ alone /\ pc[r] = "new"
           /\ \A q \in Requests \ {r} : pc[q] \in {"new", "done", "lost"}
    BY DEF Arrives, Busy

LEMMA RunsAlone ==
    ASSUME Tidy, Own, NEW r \in Requests, pc[r] \notin {"new", "done", "lost"}
    PROVE  \A q \in Requests \ {r} : pc[q] \in {"new", "done", "lost"}
    BY Only DEF Own, Busy

LEMMA OwnIdle ==
    ASSUME Own, UNCHANGED <<paidMonth, payments, pc, job, mem, reply>>
    PROVE  Own'
<1>1. OneAtATime'  BY DEF Own, OneAtATime, Busy
<1>2. \A s, m : MonthPaid(s, m)' = MonthPaid(s, m) /\ Unpaid(s, m)' = Unpaid(s, m)
    BY DEF MonthPaid, Unpaid
<1>3. Listed'      BY <1>2 DEF Own, Listed
<1>4. Noted'       BY <1>2 DEF Own, Noted
<1>5. Fresh'       BY DEF Own, Fresh, Saved
<1>6. StillUnpaid' BY DEF Own, StillUnpaid, Checked, Existing
<1>7. PaidOnce'   BY DEF Own, PaidOnce
<1>8. QED  BY <1>1, <1>3, <1>4, <1>5, <1>6, <1>7 DEF Own

LEMMA OwnNext ==
    ASSUME Types, Tidy, Tidy', alone => Own, [Next]_vars, alone'
    PROVE  Own'
<1>0. DOMAIN mem = Requests
    BY DEF Types
<1>1. CASE UNCHANGED vars
  <2>1. Own
      BY <1>1 DEF vars
  <2>2. /\ UNCHANGED <<paidMonth, payments, pc, job, mem, reply>>
      BY <1>1 DEF vars
  <2>3. QED  BY <2>1, <2>2, OwnIdle
<1>2. ASSUME NEW r \in Requests, BookOrder(r) PROVE Own'
  <2>1. /\ Own /\ pc[r] = "new"
        /\ \A q \in Requests \ {r} : pc[q] \in {"new", "done", "lost"}
      BY <1>2, ArrivesAlone DEF BookOrder
  <2>2. /\ Goto(r, "done") /\ UNCHANGED <<paidMonth, payments, job>>
        /\ \A q \in Requests \ {r} : reply'[q] = reply[q]
      BY <1>2 DEF BookOrder, Answer, Tidy
  <2>3. QED  BY <2>1, <2>2, LightStep
<1>3. ASSUME NEW r \in Requests, ConfirmOrders(r) PROVE Own'
  <2>1. /\ Own /\ pc[r] = "new"
        /\ \A q \in Requests \ {r} : pc[q] \in {"new", "done", "lost"}
      BY <1>3, ArrivesAlone DEF ConfirmOrders
  <2>2. Goto(r, "findStore") /\ UNCHANGED <<paidMonth, payments, job, reply>>
      BY <1>3 DEF ConfirmOrders, tables
  <2>3. QED  BY <2>1, <2>2, LightStep
<1>4. ASSUME NEW r \in Requests, ConfirmFindStore(r) PROVE Own'
  <2>1. /\ pc[r] = "findStore" /\ Own
        /\ Goto(r, "existing") /\ UNCHANGED <<paidMonth, payments, job, reply>>
        /\ mem'[r].findStore = paidMonth[job[r].store]
      BY <1>0, <1>4 DEF ConfirmFindStore, tables
  <2>2. pc'[r] = "existing"
      BY <2>1 DEF Goto, Tidy
  <2>3. ~Checked(r)' /\ pc'[r] # "updateStore"
      BY <2>2 DEF Checked
  <2>4. QED  BY <2>1, <2>3, RunsAlone, HeldStep
<1>5. ASSUME NEW r \in Requests, ConfirmExisting(r) PROVE Own'
  <2>1. /\ pc[r] = "existing" /\ Own /\ UNCHANGED <<paidMonth, payments, job>>
      BY <1>5 DEF ConfirmExisting, tables
  <2>2. \/ Answer(r, "Store Paid")
        \/ Existing(r) = {} /\ Goto(r, "saveStore") /\ UNCHANGED <<mem, reply>>
      BY <1>5 DEF ConfirmExisting
  <2>3. CASE Answer(r, "Store Paid")
    <3>1. Goto(r, "done") /\ \A q \in Requests \ {r} : reply'[q] = reply[q]
        BY <2>3 DEF Answer, Tidy
    <3>2. QED  BY <2>1, <3>1, RunsAlone, LightStep
  <2>4. CASE Existing(r) = {} /\ Goto(r, "saveStore") /\ UNCHANGED <<mem, reply>>
    <3>1. pc'[r] = "saveStore"
        BY <2>4 DEF Goto, Tidy
    <3>2. Existing(r)' = {} /\ mem'[r].findStore = paidMonth[job[r].store]
        BY <2>1, <2>4 DEF Existing, Own, Fresh
    <3>3. QED  BY <2>1, <2>4, <3>1, <3>2, RunsAlone, HeldStep
  <2>5. QED  BY <2>2, <2>3, <2>4
<1>6. ASSUME NEW r \in Requests, ConfirmInsert(r) PROVE Own'
  <2>1. pc[r] = "insert" /\ Own
      BY <1>6 DEF ConfirmInsert
  <2>2. QED  BY <1>6, <2>1, RunsAlone, InsertStep
<1>7. ASSUME NEW r \in Requests, EditFind(r) PROVE Own'
  <2>1. /\ Own /\ pc[r] = "new" /\ job[r].kind = "edit"
        /\ \A q \in Requests \ {r} : pc[q] \in {"new", "done", "lost"}
      BY <1>7, ArrivesAlone DEF EditFind, Arrives
  <2>2. /\ Goto(r, "saveStore") /\ UNCHANGED <<paidMonth, payments, job, reply>>
        /\ mem'[r].findStore = paidMonth[job[r].store]
      BY <1>0, <1>7 DEF EditFind, tables
  <2>3. pc'[r] = "saveStore"
      BY <2>2 DEF Goto, Tidy
  <2>4. ~Checked(r)' /\ pc'[r] # "updateStore"
      BY <2>1, <2>2, <2>3 DEF Checked
  <2>5. QED  BY <2>1, <2>2, <2>4, HeldStep
<1>8. ASSUME NEW r \in Requests, SaveStoreSelect(r) PROVE Own'
  <2>1. /\ pc[r] = "saveStore" /\ Own
        /\ Goto(r, "updateStore") /\ UNCHANGED <<paidMonth, payments, job, reply>>
        /\ mem'[r].findStore = mem[r].findStore /\ mem'[r].on = mem[r].on
        /\ mem'[r].dirty = (Saved(r) # paidMonth[job[r].store])
      BY <1>0, <1>8 DEF SaveStoreSelect, tables
  <2>2. mem'[r].findStore = paidMonth[job[r].store] /\ Saved(r)' = Saved(r)
      BY <2>1 DEF Own, Fresh, Saved
  <2>3. Checked(r)' => Existing(r)' = {}
    <3>1. Checked(r)' => Checked(r)
        BY <2>1 DEF Goto, Tidy, Checked
    <3>2. Existing(r)' = Existing(r)
        BY <2>1 DEF Existing
    <3>3. QED  BY <2>1, <3>1, <3>2 DEF Own, StillUnpaid
  <2>4. QED  BY <2>1, <2>2, <2>3, RunsAlone, HeldStep
<1>9. ASSUME NEW r \in Requests, SaveStoreUpdate(r) PROVE Own'
  <2>1. pc[r] = "updateStore" /\ Own
      BY <1>9 DEF SaveStoreUpdate
  <2>2. QED  BY <1>9, <2>1, RunsAlone, UpdateStep
<1>10. CASE Crash
  <2>1. Own /\ UNCHANGED <<paidMonth, payments, job, reply>>
      BY <1>10 DEF Crash, tables
  <2>2. \A q \in Requests : IF pc[q] \in {"new", "done", "lost"} THEN pc'[q] = pc[q]
                             ELSE pc'[q] = "lost"
      BY <1>10 DEF Crash, Busy
  <2>3. Noted' /\ Fresh' /\ StillUnpaid' /\ OneAtATime'
    <3>1. \A q \in Requests : pc'[q] \in {"new", "done", "lost"}
        BY <2>2
    <3>2. OneAtATime'
        BY <3>1 DEF OneAtATime, Busy
    <3>3. QED  BY <3>1, <3>2, NobodyHolds
  <2>4. \A s \in Stores, m \in Months : Unpaid(s, m) \subseteq Unpaid(s, m)'
      BY <2>1, <2>2 DEF Unpaid
  <2>5. QED  BY <2>1, <2>3, <2>4, TablesKept DEF Own
<1>11. CASE Tick
  <2>1. Own /\ UNCHANGED <<paidMonth, payments, pc, job, mem, reply>>
      BY <1>11 DEF Tick, tables
  <2>2. QED  BY <2>1, OwnIdle
<1>12. QED
    BY <1>1, <1>2, <1>3, <1>4, <1>5, <1>6, <1>7, <1>8, <1>9, <1>10, <1>11
    DEF Next, Confirm

LEMMA OwnInit == Init => Own
<1> SUFFICES ASSUME Init PROVE Own
    OBVIOUS
<1>1. \A r \in Requests : pc[r] = "new"
    BY DEF Init
<1>2. ASSUME NEW s \in Stores, NEW m \in Months
      PROVE  /\ Cardinality(MonthPaid(s, m)) <= paidMonth[s][m]
             /\ paidMonth[s][m] <= Cardinality(MonthPaid(s, m)) + Cardinality(Unpaid(s, m))
  <2>1. MonthPaid(s, m) = {} /\ paidMonth[s][m] = 0
      BY DEF Init, MonthPaid
  <2>2. Cardinality(MonthPaid(s, m)) = 0
      BY <2>1, FS_EmptySet
  <2>3. Cardinality(Unpaid(s, m)) \in Nat
      BY UnpaidFinite
  <2> HIDE DEF MonthPaid, Unpaid
  <2>4. QED  BY <2>1, <2>2, <2>3
<1>3. Listed
    BY <1>2 DEF Listed
<1>4. OneAtATime
    BY <1>1 DEF OneAtATime, Busy
<1>5. Noted /\ Fresh /\ StillUnpaid /\ PaidOnce
    BY <1>1 DEF Init, Noted, Fresh, StillUnpaid, Checked, PaidOnce
<1>6. QED  BY <1>3, <1>4, <1>5 DEF Own

(* One handler at a time: the invariant behind the three theorems below.    *)
THEOREM OwnHolds == Spec => [](BillInv /\ Tidy /\ (alone => Own))
<1>1. Init => BillInv /\ Tidy /\ (alone => Own)
    BY BillInit, TidyInit, OwnInit
<1>2. BillInv /\ Tidy /\ (alone => Own) /\ [Next]_vars
         => BillInv' /\ Tidy' /\ (alone => Own)'
    BY BillNext, TidyNext, OwnNext DEF BillInv
<1>3. QED  BY <1>1, <1>2, PTL DEF Spec

(* paidMonth lists every payment's month while handlers run one at a time:   *)
(* PaidMonthsShown, though edits and bans save the whole row of the store   *)
(* and the manager may die between the two tables.                          *)
THEOREM MonthsAreShown == Spec => []PaidMonthsShown
<1>1. Tidy /\ (alone => Own) => PaidMonthsShown
    BY DEF Own, Listed, MonthPaid, PaidMonthsShown
<1>2. QED  BY <1>1, OwnHolds, PTL

(* And it lists no more than the payments and the confirmations that failed *)
(* after saving the store: ShownOncePerPayment.                             *)
THEOREM ShownNoMoreThanPaid == Spec => []ShownOncePerPayment
<1>1. Tidy /\ (alone => Own) => ShownOncePerPayment
    BY DEF Own, Listed, MonthPaid, Unpaid, ShownOncePerPayment
<1>2. QED  BY <1>1, OwnHolds, PTL

(* Of two payments that bill an order, each is for the order's store, month *)
(* and year.                                                                *)
LEMMA BillsApart == BillInv /\ (alone => Own) => BilledOnce
<1> SUFFICES ASSUME BillInv, Own, \A p \in payments : Regular(p.on, p.month),
                    NEW p \in payments, NEW q \in payments, p # q
             PROVE  /\ p.of \cap q.of = {}
                    /\ <<p.storeId, p.month, p.year>> # <<q.storeId, q.month, q.year>>
    BY DEF BilledOnce
<1>1. <<p.storeId, p.month, p.year>> # <<q.storeId, q.month, q.year>>
    BY DEF Own, PaidOnce
<1>2. ASSUME NEW b \in payments, NEW o \in b.of
      PROVE  /\ o.storeId = b.storeId /\ o.createdAt.year = b.year
             /\ o.createdAt.month = b.month
    BY BillImplies DEF BillIsTheMonth
<1>3. p.of \cap q.of = {}
  <2> SUFFICES ASSUME NEW o \in p.of, o \in q.of PROVE FALSE
      OBVIOUS
  <2>1. QED  BY <1>1, <1>2
<1>4. QED  BY <1>1, <1>3

(* No order is billed twice by handlers that run one at a time on regular   *)
(* days: BilledOnce.                                                        *)
THEOREM NoOrderBilledTwice == Spec => []BilledOnce
<1>1. QED  BY OwnHolds, BillsApart, PTL

--------------------------------------------------------------------------------
(* Types. *)

(* What was summed is an order of the table, and of its type.               *)
Typed ==
    /\ IsFiniteSet(orders)
    /\ mem \in [Requests -> Memory] /\ alone \in BOOLEAN
    /\ payments \subseteq Payment
    /\ \A p, q \in payments : p.id = q.id => p = q
    /\ \A r \in Requests : mem[r].ordersInAMonth \subseteq orders
    /\ \A p \in payments : /\ p.of \subseteq orders
                           /\ 100 * p.totalProfit = 17 * TotalIncome(p.of)

LEMMA IncomeNat ==
    ASSUME NEW S, S \subseteq Order, IsFiniteSet(S)
    PROVE  TotalIncome(S) \in Nat
<1>1. NatOn(Price, S)
    BY DEF NatOn, Price, Order
<1>2. QED  BY <1>1, TotalNat, IncomeIs

LEMMA IncomeUnion ==
    ASSUME NEW S, NEW T, S \subseteq Order, T \subseteq Order,
           IsFiniteSet(S), IsFiniteSet(T), S \cap T = {}
    PROVE  TotalIncome(S \cup T) = TotalIncome(S) + TotalIncome(T)
<1>1. NatOn(Price, S \cup T) /\ S \cup T \subseteq Order
    BY DEF NatOn, Price, Order
<1>2. QED  BY <1>1, TotalUnion, IncomeIs

LEMMA IncomeMore ==
    ASSUME NEW S, NEW T, S \subseteq T, T \subseteq Order, IsFiniteSet(T)
    PROVE  TotalIncome(S) <= TotalIncome(T)
<1>1. NatOn(Price, T) /\ S \subseteq Order
    BY DEF NatOn, Price, Order
<1>2. QED  BY <1>1, TotalMore, IncomeIs

(* 17 % of an amount, when they are without cents.                          *)
LEMMA Percents ==
    ASSUME NEW a \in Nat
    PROVE  /\ (17 * a) \div 100 \in Nat
           /\ (17 * a) % 100 = 0 => 100 * ((17 * a) \div 100) = 17 * a
    OBVIOUS

LEMMA BlankMemory == Blank \in Memory
<1>1. NewYear \in Date
    BY MonthAssumption DEF NewYear, Date, Months
<1>2. QED  BY <1>1 DEF Blank, Memory, Paid

LEMMA TypedInit == Init => Typed
<1> SUFFICES ASSUME Init PROVE Typed
    OBVIOUS
<1>1. Blank \in Memory /\ Blank.ordersInAMonth = {} /\ IsFiniteSet({})
    BY BlankMemory, FS_EmptySet DEF Blank
<1>2. QED  BY <1>1 DEF Init, Typed

(* A step that stores no payment and reads orders of the table.             *)
LEMMA TypedKept ==
    ASSUME Types, Tidy, Typed, UNCHANGED <<payments, job>>, alone' \in BOOLEAN,
           orders \subseteq orders', IsFiniteSet(orders'),
           mem' \in [Requests -> Memory],
           \A r \in Requests : mem'[r].ordersInAMonth \subseteq orders'
    PROVE  Typed'
    BY DEF Typed

LEMMA TypedNext == Types /\ Tidy /\ Typed /\ [Next]_vars => Typed'
<1> SUFFICES ASSUME Types, Tidy, Typed, [Next]_vars PROVE Typed'
    OBVIOUS
<1>0. /\ Blank \in Memory /\ Blank.ordersInAMonth = {}
      /\ mem \in [Requests -> Memory]
      /\ \A r \in Requests : mem[r].ordersInAMonth \subseteq orders
      /\ IsFiniteSet(orders) /\ alone \in BOOLEAN
    BY BlankMemory DEF Blank, Typed
<1>1. CASE UNCHANGED vars
    BY <1>1 DEF vars, Typed
<1>2. ASSUME NEW r \in Requests, BookOrder(r) PROVE Typed'
  <2>1. PICK o : orders' = orders \cup {o}
      BY <1>2 DEF BookOrder
  <2>2. IsFiniteSet(orders') /\ orders \subseteq orders'
      BY <1>0, <2>1, FS_AddElement
  <2>3. mem' = [mem EXCEPT ![r] = Blank] /\ UNCHANGED <<payments, job>>
      BY <1>2 DEF BookOrder, Answer
  <2>4. mem' \in [Requests -> Memory]
        /\ \A q \in Requests : mem'[q].ordersInAMonth \subseteq orders'
      BY <1>0, <2>2, <2>3
  <2>5. alone' \in BOOLEAN
      BY <1>2 DEF BookOrder, Arrives
  <2>6. QED  BY <2>2, <2>3, <2>4, <2>5, TypedKept
<1>3. ASSUME NEW r \in Requests, ConfirmOrders(r) PROVE Typed'
  <2>1. PICK S \in SUBSET orders : mem' = [mem EXCEPT ![r].on = today, ![r].ordersInAMonth = S]
      BY <1>3 DEF ConfirmOrders
  <2>2. UNCHANGED <<orders, payments, job>> /\ alone' \in BOOLEAN
      BY <1>3 DEF ConfirmOrders, Arrives, tables
  <2>3. today \in Date /\ S \subseteq Order
      BY DEF Types
  <2>4. mem' \in [Requests -> Memory]
      BY <1>0, <2>1, <2>3 DEF Memory
  <2>5. \A q \in Requests : mem'[q].ordersInAMonth \subseteq orders
      BY <1>0, <2>1 DEF Memory
  <2>6. QED  BY <1>0, <2>2, <2>4, <2>5, TypedKept
<1>4. ASSUME NEW r \in Requests, ConfirmFindStore(r) \/ EditFind(r) PROVE Typed'
  <2>1. /\ mem' = [mem EXCEPT ![r].findStore = paidMonth[job[r].store]]
        /\ UNCHANGED <<orders, payments, job>> /\ alone' \in BOOLEAN
      BY <1>0, <1>4 DEF ConfirmFindStore, EditFind, Arrives, tables
  <2>2. paidMonth[job[r].store] \in Paid
      BY JobFields DEF Tidy
  <2>3. mem' \in [Requests -> Memory]
        /\ \A q \in Requests : mem'[q].ordersInAMonth \subseteq orders
      BY <1>0, <2>1, <2>2 DEF Memory
  <2>4. QED  BY <1>0, <2>1, <2>3, TypedKept
<1>5. ASSUME NEW r \in Requests, ConfirmExisting(r) \/ SaveStoreUpdate(r) PROVE Typed'
  <2>1. /\ mem' = mem \/ mem' = [mem EXCEPT ![r] = Blank]
        /\ UNCHANGED <<orders, payments, job, alone>>
      BY <1>5 DEF ConfirmExisting, SaveStoreUpdate, Answer, tables
  <2>2. mem' \in [Requests -> Memory]
        /\ \A q \in Requests : mem'[q].ordersInAMonth \subseteq orders
      BY <1>0, <2>1
  <2>3. QED  BY <1>0, <2>1, <2>2, TypedKept
<1>6. ASSUME NEW r \in Requests, SaveStoreSelect(r) PROVE Typed'
  <2>1. PICK b \in BOOLEAN : mem' = [mem EXCEPT ![r].dirty = b]
      BY <1>6 DEF SaveStoreSelect
  <2>2. UNCHANGED <<orders, payments, job, alone>>
      BY <1>6 DEF SaveStoreSelect, tables
  <2>3. mem' \in [Requests -> Memory]
        /\ \A q \in Requests : mem'[q].ordersInAMonth \subseteq orders
      BY <1>0, <2>1 DEF Memory
  <2>4. QED  BY <1>0, <2>2, <2>3, TypedKept
<1>7. ASSUME NEW r \in Requests, ConfirmInsert(r) PROVE Typed'
  <2>1. /\ pc[r] = "insert" /\ mem' = [mem EXCEPT ![r] = Blank]
        /\ UNCHANGED <<orders, job, alone>>
      BY <1>7 DEF ConfirmInsert, Answer
  <2>2. mem' \in [Requests -> Memory]
        /\ \A q \in Requests : mem'[q].ordersInAMonth \subseteq orders
      BY <1>0, <2>1
  <2>3. CASE Fractional(r)
    <3>1. UNCHANGED payments
        BY <1>7, <2>3 DEF ConfirmInsert
    <3>2. QED  BY <1>0, <2>1, <2>2, <3>1, TypedKept
  <2>4. CASE ~Fractional(r)
    <3> DEFINE S == mem[r].ordersInAMonth
               a == TotalIncome(S)
               p == [id |-> r, storeId |-> job[r].store, month |-> job[r].month,
                     year |-> mem[r].on.year, totalProfit |-> (17 * a) \div 100,
                     of |-> S, on |-> mem[r].on]
    <3>1. payments' = payments \cup {p}
        BY <1>7, <2>4 DEF ConfirmInsert
    <3>2. S \subseteq orders /\ S \subseteq Order /\ IsFiniteSet(S)
        BY <1>0, FS_Subset DEF Types
    <3>3. a \in Nat
        BY <3>2, IncomeNat
    <3>4. (17 * a) % 100 = 0
        BY <2>4 DEF Fractional
    <3> HIDE DEF a
    <3>5. (17 * a) \div 100 \in Nat /\ 100 * ((17 * a) \div 100) = 17 * a
        BY <3>3, <3>4, Percents
    <3>6. mem[r].on \in Date /\ mem[r].on.year \in Nat
        BY <1>0 DEF Memory, Date
    <3>7. p \in Payment
        BY <3>2, <3>5, <3>6, JobFields DEF Payment
    <3>8. p.id = r /\ p.of = S /\ 100 * p.totalProfit = 17 * TotalIncome(S)
        BY <3>5 DEF a
    <3> HIDE DEF p, S
    <3>9. \A q \in payments : q.id # r
        BY <2>1 DEF Tidy
    <3>10. payments' \subseteq Payment /\ \A q, u \in payments' : q.id = u.id => q = u
        BY <3>1, <3>7, <3>8, <3>9 DEF Typed
    <3>11. \A q \in payments' : /\ q.of \subseteq orders
                                /\ 100 * q.totalProfit = 17 * TotalIncome(q.of)
        BY <3>1, <3>2, <3>8 DEF Typed
    <3>12. QED  BY <1>0, <2>1, <2>2, <3>10, <3>11 DEF Typed
  <2>5. QED  BY <2>3, <2>4
<1>8. CASE Crash
  <2>1. /\ mem' = [r \in Requests |-> Blank]
        /\ UNCHANGED <<orders, payments, job, alone>>
      BY <1>8 DEF Crash, tables
  <2>2. QED  BY <1>0, <2>1, TypedKept
<1>9. CASE Tick
  <2>1. UNCHANGED <<orders, payments, job, mem, alone>>
      BY <1>9 DEF Tick, tables
  <2>2. QED  BY <1>0, <2>1, TypedKept
<1>10. QED
    BY <1>1, <1>2, <1>3, <1>4, <1>5, <1>6, <1>7, <1>8, <1>9 DEF Next, Confirm

(* The orders a confirmation holds and those a payment billed are orders of *)
(* the table, and the profit stored is 17 % of the latter, to the cent.     *)
THEOREM PaymentsTyped == Spec => [](BillInv /\ Tidy /\ Typed)
<1>1. Init => BillInv /\ Tidy /\ Typed
    BY BillInit, TidyInit, TypedInit
<1>2. BillInv /\ Tidy /\ Typed /\ [Next]_vars => BillInv' /\ Tidy' /\ Typed'
    BY BillNext, TidyNext, TypedNext DEF BillInv
<1>3. QED  BY <1>1, <1>2, PTL DEF Spec

(* Tables and handlers have their types, and a payment has its own request: *)
(* TypeOK, for any orders, crashes and confirmations at once.               *)
THEOREM TablesTyped == Spec => []TypeOK
<1>1. BillInv /\ Tidy /\ Typed => TypeOK
    BY DEF BillInv, Types, Tidy, Typed, TypeOK
<1>2. QED  BY <1>1, PaymentsTyped, PTL
================================================================================
