------------------------------ MODULE TourBooking ------------------------------
(****************************************************************************)
(* The tour service of the manager process: createTour, updateTour,         *)
(* deleteTour, bookingTour, upvoteOfTour, the cart handlers and the nightly *)
(* status job, all of which read a tour row, compute, and save the row they *)
(* read.  Handlers run concurrently (RabbitMQ delivers without a prefetch   *)
(* limit) and every await lets another handler run.  repository.save(row)   *)
(* is two statements: a SELECT of the stored row, then an UPDATE of the     *)
(* columns in which the saved object differs from what the SELECT returned. *)
(*                                                                          *)
(* Time and dates are moments: the columns are timestamps, and the clock is *)
(* compared with them unrounded.  Names, prices and addresses are left out; *)
(* a schedule list is its length; a request carries its own choice of       *)
(* malformed input.  The dtos only ask that numbers of persons and seats be *)
(* there, so they may be negative.                                          *)
(****************************************************************************)
EXTENDS Integers, FiniteSets

CONSTANTS
    Tours,        \* tour ids
    Users,        \* user ids
    Requests,     \* messages delivered to the manager, each handled once
    CronRuns,     \* overlapping executions of the status job
    Asks,         \* Asks[r]: the Job records request r may carry
    MaxTime,      \* bound: the last moment modelled
    MaxCrashes,   \* bound: how often the manager process may die
    MaxInFlight   \* bound: handlers running at once

Kinds  == {"create", "update", "delete", "book", "vote",
           "addToCart", "dropFromCart", "emptyCart"}
Faults == {"none",    \* every row of the request is accepted by the database
           "order",   \* the order row is refused (a total that is no integer)
           "row"}     \* a passenger or schedule row is refused half way

Columns== {"status", "quantity", "baseQuantity", "lastRegisterDate", "upVote"}

Job == [kind : Kinds, tour : Tours, user : Users,
        party : Int,                      \* bookingTour: persons
        seats : Int, last : Nat,          \* create/update: baseQuantity,
        start : Nat, end : Nat,           \*   lastRegisterDate, the dates and
        days  : Nat, price : Int,         \*   the number of schedules
        omits : SUBSET {"baseQuantity", "lastRegisterDate"},   \* not in the update dto
        fault : Faults]

ASSUME ConstantsAssumption ==
    /\ Tours # {} /\ Users # {} /\ Requests # {}
    /\ Requests \cap CronRuns = {}
    /\ \A r \in Requests : \A j \in Asks[r] : j \in Job
    /\ MaxTime \in Nat /\ MaxCrashes \in Nat /\ MaxInFlight \in Nat

Procs    == Requests \cup CronRuns
Open     == {"LAST", "TRAVELING", "FULL", "AVAILABLE"}
Statuses == Open \cup {"DONE", "Delete", "absent"}   \* "absent": no such row

Row == [id : Tours, owner : Users, status : Statuses,
        quantity : Int, baseQuantity : Int,
        lastRegisterDate : Nat, startDate : Nat, endDate : Nat,
        upVote : SUBSET Users]

NoRow(t) == [id |-> t, owner |-> CHOOSE u \in Users : TRUE, status |-> "absent",
             quantity |-> 0, baseQuantity |-> 0,
             lastRegisterDate |-> 0, startDate |-> 0, endDate |-> 0,
             upVote |-> {}]

(* What a handler remembers across its awaits. *)
Memory == [snap  : Row,               \* the tour row it read first
           want  : Row,               \* the object of the save in progress
           dirty : SUBSET Columns,    \* the columns that save will write
           next  : {"full", "cart", "updatePlan", "done", "idle"},  \* after it
           seen  : Nat,               \* schedule rows found by updateTour
           found : SUBSET Requests]   \* cart rows found

Blank == LET r == NoRow(CHOOSE t \in Tours : TRUE)
         IN  [snap |-> r, want |-> r, dirty |-> {}, next |-> "idle",
          seen |-> 0, found |-> {}]

VARIABLES
    tour,      \* table tour: one row per id
    plan,      \* table schedule: rows per tour
    cart,      \* table cart: row r was inserted by request r
    order,     \* tables order, order_detail, passenger: progress of r's rows
    sold,      \* persons on the CONFIRMED orders of a tour (history)
    now,       \* the moment
    pc, job, mem, reply,   \* the handler of each request, and cron's pc, mem
                           \*   (reply: what it will return, fixed with its last write)
    batch,     \* the objects a cron run still has to save
    crashes

db   == <<tour, plan, cart, order, sold>>
vars == <<tour, plan, cart, order, sold, now, pc, job, mem, reply, batch, crashes>>

Init ==
    /\ tour = [t \in Tours |-> NoRow(t)]
    /\ plan = [t \in Tours |-> 0]
    /\ cart = {}
    /\ order = [r \in Requests |-> "none"]
    /\ sold = [t \in Tours |-> 0]
    /\ now = 0
    /\ pc = [p \in Procs |-> IF p \in Requests THEN "new" ELSE "idle"]
    /\ job \in {f \in [Requests -> UNION {Asks[r] : r \in Requests}] :
                    \A r \in Requests : f[r] \in Asks[r]}
    /\ mem = [p \in Procs |-> Blank]
    /\ reply = [r \in Requests |-> "none"]
    /\ batch = [c \in CronRuns |-> {}]
    /\ crashes = 0

Busy == {p \in Procs : pc[p] \notin {"new", "done", "idle"}}


Arrives(r, k) == /\ pc[r] = "new" /\ job[r].kind = k
                 /\ Cardinality(Busy) < MaxInFlight

Goto(p, l) == pc' = [pc EXCEPT ![p] = l]

Answer(r, m) == /\ Goto(r, "done")
                /\ reply' = [reply EXCEPT ![r] = m]
                /\ mem' = [mem EXCEPT ![r] = Blank]

(* repository.save(e): the SELECT, and later the UPDATE.  A column that e   *)
(* leaves undefined is not written; whether an array column counts as       *)
(* changed when its elements are equal is left open.                        *)
Select(p, e, omits, next) ==
    \E extra \in SUBSET {"upVote"} :
        mem' = [mem EXCEPT ![p].want = e,
                           ![p].next = next,
                           ![p].dirty = extra \cup {c \in Columns \ omits :
                                                      e[c] # tour[e.id][c]}]

Merge(old, e, d) ==
    [old EXCEPT !.status = IF "status" \in d THEN e.status ELSE @,
                !.quantity = IF "quantity" \in d THEN e.quantity ELSE @,
                !.baseQuantity = IF "baseQuantity" \in d THEN e.baseQuantity ELSE @,
                !.lastRegisterDate = IF "lastRegisterDate" \in d
                                     THEN e.lastRegisterDate ELSE @,
                !.upVote = IF "upVote" \in d THEN e.upVote ELSE @]

Update(p) == LET m == mem[p]
             IN  tour' = [tour EXCEPT ![m.want.id] = Merge(@, m.want, m.dirty)]

(* The UPDATE of a request's save, and on to what follows the call. *)
SaveUpdate(r) ==
    /\ pc[r] = "save"
    /\ Update(r)
    /\ \/ /\ mem[r].next = "done"
          /\ Answer(r, "oke")
       \/ /\ mem[r].next # "done"
          /\ Goto(r, mem[r].next)
          /\ UNCHANGED <<mem, reply>>
    /\ UNCHANGED <<plan, cart, order, sold, now, job, batch, crashes>>

--------------------------------------------------------------------------------
(* bookingTour *)

(* Definitions named ...Slip are mistakes one could make in the code they   *)
(* precede; each is caught by a property of this module.                    *)

EnoughSlotStrictSlip(x, n) == x.baseQuantity - x.quantity > n
EnoughSlotMissingSlip(x, n) == x.quantity >= 0

EnoughSlot(x, n) == x.baseQuantity - x.quantity >= n

(* The first await: the row, the status test and the seat test on it. *)
BookRead(r) ==
    /\ Arrives(r, "book")
    /\ LET x == tour[job[r].tour] IN
       \/ /\ x.status = "absent"
          /\ Answer(r, "can not found")
       \/ /\ x.status \notin {"absent", "AVAILABLE"}
          /\ Answer(r, "Time Registration is over")
       \/ /\ x.status = "AVAILABLE"
          /\ ~EnoughSlot(x, job[r].party)
          /\ Answer(r, "not Enough slot")
       \/ /\ x.status = "AVAILABLE"
          /\ EnoughSlot(x, job[r].party)
          /\ mem' = [mem EXCEPT ![r].snap = x]
          /\ Goto(r, "order")
          /\ UNCHANGED reply
    /\ UNCHANGED <<db, now, job, batch, crashes>>

(* A refused order row goes unnoticed. *)
BookOrderSwallowedSlip(r) ==
    /\ pc[r] = "order"
    /\ order' = [order EXCEPT ![r] = "placed"]
    /\ sold' = IF job[r].fault = "order" THEN sold
               ELSE [sold EXCEPT ![job[r].tour] = @ + job[r].party]
    /\ Goto(r, "detail")
    /\ UNCHANGED <<tour, plan, cart, now, job, mem, reply, batch, crashes>>

(* The order row, CONFIRMED from the start; a refused row ends the handler. *)
BookOrder(r) ==
    /\ pc[r] = "order"
    /\ \/ /\ job[r].fault = "order"
          /\ Answer(r, "error")
          /\ UNCHANGED <<order, sold>>
       \/ /\ job[r].fault # "order"
          /\ order' = [order EXCEPT ![r] = "placed"]
          /\ sold' = [sold EXCEPT ![job[r].tour] = @ + job[r].party]
          /\ Goto(r, "detail")
          /\ UNCHANGED <<mem, reply>>
    /\ UNCHANGED <<tour, plan, cart, now, job, batch, crashes>>

(* The detail row, then the order row again with the detail's id. *)
BookDetail(r) ==
    /\ pc[r] = "detail"
    /\ order' = [order EXCEPT ![r] = "detailed"]
    /\ Goto(r, "link")
    /\ UNCHANGED <<tour, plan, cart, sold, now, job, mem, reply, batch, crashes>>

BookLink(r) ==
    /\ pc[r] = "link"
    /\ order' = [order EXCEPT ![r] = "linked"]
    /\ Goto(r, "passengers")
    /\ UNCHANGED <<tour, plan, cart, sold, now, job, mem, reply, batch, crashes>>

(* The order of a refused passenger list is taken back. *)
BookPassengersUndoneSlip(r) ==
    /\ pc[r] = "passengers"
    /\ \/ /\ job[r].fault = "row"
          /\ sold' = [sold EXCEPT ![job[r].tour] = @ - job[r].party]
          /\ Answer(r, "error")
          /\ UNCHANGED order
       \/ /\ job[r].fault # "row"
          /\ order' = [order EXCEPT ![r] = "complete"]
          /\ Goto(r, "counter")
          /\ UNCHANGED <<sold, mem, reply>>
    /\ UNCHANGED <<tour, plan, cart, now, job, batch, crashes>>

(* The passenger loop: all rows, or an exception at one of them. *)
BookPassengers(r) ==
    /\ pc[r] = "passengers"
    /\ \/ /\ job[r].fault = "row"
          /\ Answer(r, "error")
          /\ UNCHANGED order
       \/ /\ job[r].fault # "row"
          /\ order' = [order EXCEPT ![r] = "complete"]
          /\ Goto(r, "counter")
          /\ UNCHANGED <<mem, reply>>
    /\ UNCHANGED <<tour, plan, cart, sold, now, job, batch, crashes>>

(* Saving the counter, computed from the row of the first await; then, if   *)
(* that leaves no seat, the saved object again with its status.             *)
CountedTwiceSlip(r) == [mem[r].snap EXCEPT !.quantity = @ + job[r].party + 1]

Counted(r) == [mem[r].snap EXCEPT !.quantity = @ + job[r].party]

BookCounterSelect(r) ==
    /\ pc[r] = "counter"
    /\ Select(r, Counted(r), {},
              IF Counted(r).baseQuantity - Counted(r).quantity < 1 THEN "full" ELSE "cart")
    /\ Goto(r, "save")
    /\ UNCHANGED <<db, now, job, reply, batch, crashes>>

FullOfStaleSlip(r) == [mem[r].snap EXCEPT !.status = "FULL"]

Full(r) == [mem[r].want EXCEPT !.status = "FULL"]

BookFullSelect(r) ==
    /\ pc[r] = "full"
    /\ Select(r, Full(r), {}, "cart")
    /\ Goto(r, "save")
    /\ UNCHANGED <<db, now, job, reply, batch, crashes>>

(* One cart row of this user and tour is looked up, then removed. *)
CartRows(r) == {x \in cart : job[x].user = job[r].user /\ job[x].tour = job[r].tour}

BookCartFind(r) ==
    /\ pc[r] = "cart"
    /\ \/ /\ CartRows(r) = {}
          /\ Goto(r, "mail")
          /\ UNCHANGED mem
       \/ \E x \in CartRows(r) :
             /\ mem' = [mem EXCEPT ![r].found = {x}]
             /\ Goto(r, "cartRemove")
    /\ UNCHANGED <<db, now, job, reply, batch, crashes>>

BookCartRemove(r) ==
    /\ pc[r] = "cartRemove"
    /\ cart' = cart \ mem[r].found
    /\ Goto(r, "mail")
    /\ UNCHANGED <<tour, plan, order, sold, now, job, mem, reply, batch, crashes>>

(* The mail service answers the 'send-booking' request, or answers an error *)
(* that becomes the reply although everything is stored.                    *)
BookMail(r) ==
    /\ pc[r] = "mail"
    /\ \E m \in {"booking success", "error"} : Answer(r, m)
    /\ UNCHANGED <<db, now, job, batch, crashes>>


--------------------------------------------------------------------------------
(* createTour, updateTour, deleteTour, upvoteOfTour *)

CreateTour(r) ==
    /\ Arrives(r, "create")
    /\ LET j == job[r] IN
       /\ tour[j.tour].status = "absent"      \* the database picks a fresh id
       /\ \/ /\ j.seats = 0 \/ j.price = 0
             /\ Answer(r, "error")
             /\ UNCHANGED tour
          \/ /\ j.seats # 0 /\ j.price # 0
             /\ tour' = [tour EXCEPT ![j.tour] =
                   [id |-> j.tour, owner |-> j.user, status |-> "AVAILABLE",
                    quantity |-> 0, baseQuantity |-> j.seats,
                    lastRegisterDate |-> j.last, startDate |-> j.start,
                    endDate |-> j.end, upVote |-> {}]]
             /\ Goto(r, "createPlan")
             /\ UNCHANGED <<mem, reply>>
    /\ UNCHANGED <<plan, cart, order, sold, now, job, batch, crashes>>

(* One INSERT per schedule; an exception leaves the ones before it. *)
CreatePlan(r) ==
    /\ pc[r] = "createPlan"
    /\ LET j == job[r] IN
       \/ /\ j.fault # "row"
          /\ plan' = [plan EXCEPT ![j.tour] = @ + j.days]
          /\ Answer(r, "oke")
       \/ /\ j.fault = "row"
          /\ \E k \in 0..(j.days - 1) : plan' = [plan EXCEPT ![j.tour] = @ + k]
          /\ Answer(r, "error")
    /\ UNCHANGED <<tour, cart, order, sold, now, job, batch, crashes>>

SmallerThanBoughtSlip(x, j) == FALSE

SmallerThanBought(x, j) == "baseQuantity" \notin j.omits /\ j.seats < x.quantity

(* updateTour reads the tour, then its schedules and its owner, and tests   *)
(* the new baseQuantity against the row it read.                            *)
UpdateRead(r) ==
    /\ Arrives(r, "update")
    /\ mem' = [mem EXCEPT ![r].snap = tour[job[r].tour]]
    /\ Goto(r, "updateCheck")
    /\ UNCHANGED <<db, now, job, reply, batch, crashes>>

UpdateCheck(r) ==
    /\ pc[r] = "updateCheck"
    /\ LET x == mem[r].snap
           j == job[r]
           refused == \/ x.status = "absent" \/ x.owner # j.user
                      \/ SmallerThanBought(x, j)
       IN  \/ /\ refused
              /\ Answer(r, "error")
           \/ /\ ~refused
              /\ mem' = [mem EXCEPT ![r].seen = plan[x.id]]
              /\ Goto(r, "updateSave")
              /\ UNCHANGED reply
    /\ UNCHANGED <<db, now, job, batch, crashes>>

UpdateSelect(r) ==
    /\ pc[r] = "updateSave"
    /\ LET j == job[r]
       IN  Select(r, [mem[r].snap EXCEPT !.baseQuantity = j.seats,
                                         !.lastRegisterDate = j.last,
                                         !.status = "AVAILABLE"],
                  j.omits, "updatePlan")
    /\ Goto(r, "save")
    /\ UNCHANGED <<db, now, job, reply, batch, crashes>>

(* The k-th schedule sent overwrites the k-th found; the others are new. *)
AddedAllSlip(r) == job[r].days

Added(r) == IF job[r].days > mem[r].seen THEN job[r].days - mem[r].seen ELSE 0

UpdatePlan(r) ==
    /\ pc[r] = "updatePlan"
    /\ \/ /\ job[r].fault # "row"
          /\ plan' = [plan EXCEPT ![job[r].tour] = @ + Added(r)]
          /\ Answer(r, "oke")
       \/ /\ job[r].fault = "row"
          /\ \E k \in 0..Added(r) : plan' = [plan EXCEPT ![job[r].tour] = @ + k]
          /\ Answer(r, "error")
    /\ UNCHANGED <<tour, cart, order, sold, now, job, batch, crashes>>

(* deleteTour: the test on the counter, then the owner's tours, then a save. *)
DeleteRead(r) ==
    /\ Arrives(r, "delete")
    /\ LET x == tour[job[r].tour] IN
       \/ /\ x.status = "absent"
          /\ Answer(r, "can not found")
       \/ /\ x.status # "absent"
          /\ x.baseQuantity # x.quantity
          /\ Answer(r, "user bought can not delete")
       \/ /\ x.status # "absent"
          /\ x.baseQuantity = x.quantity
          /\ x.owner # job[r].user
          /\ Answer(r, "error")
       \/ /\ x.status # "absent"
          /\ x.baseQuantity = x.quantity
          /\ x.owner = job[r].user
          /\ mem' = [mem EXCEPT ![r].snap = x]
          /\ Goto(r, "deleteSave")
          /\ UNCHANGED reply
    /\ UNCHANGED <<db, now, job, batch, crashes>>

DeleteSelect(r) ==
    /\ pc[r] = "deleteSave"
    /\ Select(r, [mem[r].snap EXCEPT !.status = "Delete"], {}, "done")
    /\ Goto(r, "save")
    /\ UNCHANGED <<db, now, job, reply, batch, crashes>>

VoteRead(r) ==
    /\ Arrives(r, "vote")
    /\ LET x == tour[job[r].tour] IN
       \/ /\ x.status = "absent"
          /\ Answer(r, "error")
       \/ /\ x.status # "absent"
          /\ mem' = [mem EXCEPT ![r].snap = x]
          /\ Goto(r, "voteSave")
          /\ UNCHANGED reply
    /\ UNCHANGED <<db, now, job, batch, crashes>>

ToggledIdSlip(x, u) == IF x.id \in x.upVote THEN x.upVote \ {x.id} ELSE x.upVote \cup {x.id}
ToggledOnSlip(x, u) == x.upVote \cup {u}

Toggled(x, u) == IF u \in x.upVote THEN x.upVote \ {u} ELSE x.upVote \cup {u}

VoteSelect(r) ==
    /\ pc[r] = "voteSave"
    /\ Select(r, [mem[r].snap EXCEPT !.upVote = Toggled(mem[r].snap, job[r].user)], {}, "done")
    /\ Goto(r, "save")
    /\ UNCHANGED <<db, now, job, reply, batch, crashes>>

--------------------------------------------------------------------------------
(* createCart, deleteAElementCartByUserIdAndTourId, deleteCartByUserId *)

InCartUncheckedSlip(r) == FALSE

InCart(r) == CartRows(r) # {}

CartCreateFind(r) ==
    /\ Arrives(r, "addToCart")
    /\ \/ /\ tour[job[r].tour].status = "absent"
          /\ Answer(r, "error")
       \/ /\ tour[job[r].tour].status # "absent"
          /\ InCart(r)
          /\ Answer(r, "This tour having in cart")
       \/ /\ tour[job[r].tour].status # "absent"
          /\ ~InCart(r)
          /\ Goto(r, "cartInsert")
          /\ UNCHANGED <<mem, reply>>
    /\ UNCHANGED <<db, now, job, batch, crashes>>

CartInsert(r) ==
    /\ pc[r] = "cartInsert"
    /\ cart' = cart \cup {r}
    /\ Answer(r, "oke")
    /\ UNCHANGED <<tour, plan, order, sold, now, job, batch, crashes>>

(* One row of this user and tour, or every row of the user. *)
CartDeleteFind(r) ==
    /\ Arrives(r, "dropFromCart")
    /\ \/ /\ CartRows(r) = {} \/ tour[job[r].tour].status = "absent"
          /\ Answer(r, "can not found")
       \/ /\ tour[job[r].tour].status # "absent"
          /\ \E x \in CartRows(r) : mem' = [mem EXCEPT ![r].found = {x}]
          /\ Goto(r, "cartDelete")
          /\ UNCHANGED reply
    /\ UNCHANGED <<db, now, job, batch, crashes>>

CartEmptyFind(r) ==
    /\ Arrives(r, "emptyCart")
    /\ mem' = [mem EXCEPT ![r].found = {x \in cart : job[x].user = job[r].user}]
    /\ Goto(r, "cartDelete")
    /\ UNCHANGED <<db, now, job, reply, batch, crashes>>

CartDelete(r) ==
    /\ pc[r] = "cartDelete"
    /\ cart' = cart \ mem[r].found
    /\ Answer(r, "oke")
    /\ UNCHANGED <<tour, plan, order, sold, now, job, batch, crashes>>

--------------------------------------------------------------------------------
(* updateStatusTourAutomatic: the open tours are read once; each is saved,  *)
(* with every column as read, when its dates call for a status.             *)

DueTooEarlySlip(e) ==
    \/ e.status = "LAST" /\ e.lastRegisterDate <= now /\ now < e.startDate
    \/ e.status = "TRAVELING" /\ e.startDate <= now /\ now <= e.endDate
    \/ e.status = "DONE" /\ now >= e.endDate

Due(e) ==   \* e is the object of a save: a row with its new status
    \/ e.status = "LAST" /\ e.lastRegisterDate <= now /\ now < e.startDate
    \/ e.status = "TRAVELING" /\ e.startDate <= now /\ now <= e.endDate
    \/ e.status = "DONE" /\ now > e.endDate

SavesOnlyOnSaleSlip ==
    {e \in {[tour[t] EXCEPT !.status = s] :
            t \in Tours, s \in {"LAST", "TRAVELING", "DONE"}} :
        tour[e.id].status \in {"AVAILABLE", "FULL", "LAST"} /\ Due(e)}

SavesNotFullSlip ==
    {e \in {[tour[t] EXCEPT !.status = s] :
            t \in Tours, s \in {"LAST", "TRAVELING", "DONE"}} :
        tour[e.id].status \in {"AVAILABLE", "LAST", "TRAVELING"} /\ Due(e)}

Saves == {e \in {[tour[t] EXCEPT !.status = s] :
                    t \in Tours, s \in {"LAST", "TRAVELING", "DONE"}} :
             tour[e.id].status \in Open /\ Due(e)}

CronRead(c) ==
    /\ pc[c] = "idle" /\ Cardinality(Busy) < MaxInFlight
    /\ Saves # {}                     \* otherwise the run changes nothing
    /\ batch' = [batch EXCEPT ![c] = Saves]
    /\ Goto(c, "cronSave")
    /\ UNCHANGED <<db, now, job, mem, reply, crashes>>

CronSelect(c) ==
    /\ pc[c] = "cronSave"
    /\ \E e \in batch[c] :
          /\ e.status = "DONE" => \A f \in batch[c] : f.id = e.id => f.status = "DONE"
          /\ Select(c, e, {}, "idle")
          /\ batch' = [batch EXCEPT ![c] = @ \ {e}]
    /\ Goto(c, "cronUpdate")
    /\ UNCHANGED <<db, now, job, reply, crashes>>

CronUpdate(c) ==
    /\ pc[c] = "cronUpdate"
    /\ Update(c)
    /\ Goto(c, IF batch[c] = {} THEN "idle" ELSE "cronSave")
    /\ mem' = [mem EXCEPT ![c] = Blank]
    /\ UNCHANGED <<plan, cart, order, sold, now, job, reply, batch, crashes>>

--------------------------------------------------------------------------------
Tick == /\ now < MaxTime
        /\ now' = now + 1
        /\ UNCHANGED <<db, pc, job, mem, reply, batch, crashes>>

(* The manager dies.  Every message in progress was acknowledged before the *)
(* work began, so none is delivered again; stored rows stay as they are.    *)
Crash ==
    /\ crashes < MaxCrashes
    /\ crashes' = crashes + 1
    /\ pc' = [p \in Procs |-> IF p \notin Busy THEN pc[p]
                              ELSE IF p \in Requests THEN "done" ELSE "idle"]
    /\ reply' = [r \in Requests |-> IF r \in Busy THEN "lost" ELSE reply[r]]
    /\ mem' = [p \in Procs |-> Blank]
    /\ batch' = [c \in CronRuns |-> {}]
    /\ UNCHANGED <<db, now, job>>

Booking(r) ==
    \/ BookOrder(r) \/ BookDetail(r) \/ BookLink(r) \/ BookPassengers(r)
    \/ BookCounterSelect(r) \/ BookFullSelect(r)
    \/ BookCartFind(r) \/ BookCartRemove(r)

Editing(r) ==
    \/ CreatePlan(r) \/ UpdateCheck(r) \/ UpdateSelect(r) \/ UpdatePlan(r)
    \/ DeleteSelect(r) \/ VoteSelect(r) \/ SaveUpdate(r)
    \/ CartInsert(r) \/ CartDelete(r)

Arrival(r) ==
    \/ BookRead(r) \/ CreateTour(r) \/ UpdateRead(r) \/ DeleteRead(r)
    \/ VoteRead(r) \/ CartCreateFind(r) \/ CartDeleteFind(r) \/ CartEmptyFind(r)

Cron(c) == CronRead(c) \/ CronSelect(c) \/ CronUpdate(c)

Next ==
    \/ \E r \in Requests : Arrival(r) \/ Booking(r) \/ BookMail(r) \/ Editing(r)
    \/ \E c \in CronRuns : Cron(c)
    \/ Tick
    \/ Crash

Spec == Init /\ [][Next]_vars

(* The database answers, midnight comes again and days pass.  Nothing makes *)
(* clients send requests or the mail service answer: the call has no        *)
(* timeout.                                                                 *)
FairSpec ==
    /\ Spec
    /\ \A r \in Requests : WF_vars(Booking(r) \/ Editing(r))
    /\ \A c \in CronRuns : WF_vars(Cron(c))
    /\ WF_vars(Tick)

--------------------------------------------------------------------------------
(* Properties *)

Pcs == {"new", "order", "detail", "link", "passengers", "counter", "save", "full",
        "cart", "cartRemove", "mail", "createPlan", "updateCheck", "updateSave",
        "updatePlan", "deleteSave", "voteSave", "cartInsert", "cartDelete", "done",
        "idle", "cronSave", "cronUpdate"}

Replies == {"none", "oke", "error", "can not found", "not Enough slot",
            "Time Registration is over", "booking success", "lost",
            "user bought can not delete", "This tour having in cart"}

(* The rows, the objects handlers hold and the program counters have their  *)
(* types, whatever numbers the requests carry: a row stays under its id,    *)
(* only users vote, and updateTour never takes a schedule row away.         *)
TypeOK ==
    /\ tour \in [Tours -> Row] /\ \A t \in Tours : tour[t].id = t
    /\ plan \in [Tours -> Nat]
    /\ cart \subseteq Requests
    /\ order \in [Requests -> {"none", "placed", "detailed", "linked", "complete"}]
    /\ sold \in [Tours -> Int]
    /\ now \in Nat
    /\ pc \in [Procs -> Pcs]
    /\ job \in [Requests -> Job] /\ \A r \in Requests : job[r] \in Asks[r]
    /\ mem \in [Procs -> Memory]
    /\ reply \in [Requests -> Replies]
    /\ batch \in [CronRuns -> SUBSET Row]
    /\ crashes \in Nat

(* What clients leave unsaid and bookingTour does not test: that a party is *)
(* no negative number of persons.  A negative one would lower the counter   *)
(* and sell the seats again; the properties of the counter below are about  *)
(* clients that send none.                                                  *)
PartiesAreCounts == \A r \in Requests : \A j \in Asks[r] : j.party >= 0
SeatsAreCounts   == \A r \in Requests : \A j \in Asks[r] : j.seats >= 0

(* However handlers, the status job and crashes interleave, the counter a   *)
(* tour row shows is never negative and never exceeds the persons on its    *)
(* confirmed orders: stale saves lose bookings from the counter but never   *)
(* invent any.  (Parties are counts.)                                       *)
QuantityNeverOverstates ==
    \A t \in Tours : 0 <= tour[t].quantity /\ tour[t].quantity <= sold[t]

(* Why QuantityNeverOverstates holds: a save copies the counter a handler   *)
(* holds, so every copy in flight is honest too, and a booking that stored  *)
(* its order can add its party to the copy it read before.                  *)
Honest(e) == 0 <= e.quantity /\ e.quantity <= sold[e.id]

Placed  == {"detail", "link", "passengers", "counter"}

LedgerInv ==
    /\ \A t \in Tours : Honest(tour[t])
    /\ \A p \in Procs : Honest(mem[p].snap) /\ Honest(mem[p].want)
    /\ \A c \in CronRuns : \A e \in batch[c] : Honest(e)
    /\ \A r \in Requests :
          /\ pc[r] \in Placed \cup {"order"} => mem[r].snap.id = job[r].tour
          /\ pc[r] \in Placed =>
                mem[r].snap.quantity + job[r].party <= sold[mem[r].snap.id]

(* bookingTour refuses a party with 'not Enough slot' only when the seats   *)
(* that are really unsold are fewer than the party.  (Parties are counts.)  *)
RefusalsAreJustified ==
    [][\A r \in Requests :
         reply[r] # reply'[r] /\ reply'[r] = "not Enough slot" =>
            LET t == job[r].tour
            IN  tour[t].baseQuantity - sold[t] < job[r].party]_vars

(* A tour is TRAVELING only from its start and DONE only after its end, even *)
(* when handlers write back a status they read days before.                  *)
StatusFollowsDates ==
    \A t \in Tours : /\ tour[t].status = "DONE" => now > tour[t].endDate
                     /\ tour[t].status = "TRAVELING" => now >= tour[t].startDate

(* One handler at a time, with every row accepted, and no negative number   *)
(* of persons or seats sent: never more persons on orders than seats, which *)
(* is what 'not Enough slot' is there for.                                  *)
NoOverbooking == \A t \in Tours : sold[t] <= tour[t].baseQuantity

(* One handler at a time: whenever no booking is between its order row and  *)
(* its counter, the counter is exact.                                       *)
CounterIsExact ==
    \A t \in Tours :
        \/ tour[t].quantity = sold[t]
        \/ \E r \in Requests : job[r].tour = t /\ pc[r] \in
                {"detail", "link", "passengers", "counter", "save"}

(* One handler at a time: a user's vote is counted when the user has voted  *)
(* an odd number of times.                                                  *)
VotesToggle ==
    \A t \in Tours, u \in Users :
        u \in tour[t].upVote <=>
            Cardinality({r \in Requests :
                /\ job[r].kind = "vote" /\ job[r].tour = t /\ job[r].user = u
                /\ reply[r] = "oke"}) % 2 = 1

(* One handler at a time: a user has a tour in the cart at most once, as    *)
(* createCart's 'This tour having in cart' says.                            *)
OneCartRow == \A x, y \in cart :
    job[x].user = job[y].user /\ job[x].tour = job[y].tour => x = y

(* One handler at a time: a tour has as many schedule rows as the longest   *)
(* list that createTour or updateTour stored.                               *)
PlanIsLongest ==
    \A t \in Tours :
        LET stored == {r \in Requests : /\ job[r].kind \in {"create", "update"}
                                       /\ job[r].tour = t /\ reply[r] = "oke"}
        IN  (\A r \in Requests : pc[r] \in {"new", "done"}) =>
               /\ \A r \in stored : job[r].days <= plan[t]
               /\ plan[t] = 0 \/ \E r \in stored : job[r].days = plan[t]

(* deleteTour's 'user bought can not delete': a tour becomes Delete only    *)
(* while nobody is booked on it.                                            *)
OnlyUnsoldToursAreDeleted ==
    [][\A t \in Tours : tour[t].status # "Delete" /\ tour'[t].status = "Delete"
                           => sold[t] = 0]_vars

(* Every tour that exists ends up DONE or Delete and stays so: whatever     *)
(* stale status a handler wrote over the job's, a later run corrects it.    *)
PastToursClose ==
    \A t \in Tours :
        tour[t].status # "absent" ~> [](tour[t].status \in {"DONE", "Delete"})

(* The concurrent service implements SeatCounter; the serial one SeatSale,  *)
(* with a seat taken when its order row is stored.                          *)
Counter == INSTANCE SeatCounter WITH
               sold <- sold, shown <- [t \in Tours |-> tour[t].quantity]
CounterSpec == Counter!Spec

Sale == INSTANCE SeatSale WITH
            taken <- sold, capacity <- [t \in Tours |-> tour[t].baseQuantity]
SaleSpec == Sale!Spec
================================================================================
