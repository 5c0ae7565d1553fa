--------------------------- MODULE TourBooking_proofs --------------------------
(****************************************************************************)
(* Theorems about TourBooking, for every set of tours, users, requests and  *)
(* cron runs and every bound: first what overlapping handlers keep (types,  *)
(* an honest counter, justified refusals, statuses behind the dates), then  *)
(* what handlers keep that run one at a time (cart, votes, plan, seats).    *)
(****************************************************************************)
EXTENDS TourBooking, FiniteSetTheorems, TLAPS

USE DEF Procs

LEMMA BlankType == Blank \in Memory
  BY ConstantsAssumption DEF Blank, NoRow, Memory, Row, Statuses, Open

LEMMA InitType == Init => TypeOK
  <1> SUFFICES ASSUME Init PROVE TypeOK
    OBVIOUS
  <1>1. /\ tour \in [Tours -> Row]
        /\ \A t \in Tours : tour[t].id = t
    BY ConstantsAssumption DEF Init, NoRow, Row, Statuses, Open
  <1>2. job \in [Requests -> Job] /\ \A r \in Requests : job[r] \in Asks[r]
    BY ConstantsAssumption DEF Init
  <1>3. pc \in [Procs -> Pcs]
    BY DEF Init, Pcs
  <1>. QED
    BY <1>1, <1>2, <1>3, BlankType DEF Init, TypeOK, Replies

(* A row merged from two rows of one id is a row of that id. *)
LEMMA MergeType ==
  ASSUME NEW old \in Row, NEW e \in Row, NEW d, old.id = e.id
  PROVE  Merge(old, e, d) \in Row /\ Merge(old, e, d).id = e.id
  <1> DEFINE s == IF "status" \in d THEN e.status ELSE old.status
             q == IF "quantity" \in d THEN e.quantity ELSE old.quantity
             b == IF "baseQuantity" \in d THEN e.baseQuantity ELSE old.baseQuantity
             l == IF "lastRegisterDate" \in d THEN e.lastRegisterDate
                  ELSE old.lastRegisterDate
             v == IF "upVote" \in d THEN e.upVote ELSE old.upVote
  <1>1. s \in Statuses /\ q \in Int /\ b \in Int /\ l \in Nat /\ v \in SUBSET Users
    BY DEF Row
  <1>2. Merge(old, e, d) = [old EXCEPT !.status = s, !.quantity = q, !.baseQuantity = b,
                                       !.lastRegisterDate = l, !.upVote = v]
    BY DEF Merge
  <1> HIDE DEF s, q, b, l, v
  <1>. QED
    BY <1>1, <1>2 DEF Row

(* The UPDATE of a save keeps the table's type and ids. *)
LEMMA UpdateType ==
  ASSUME TypeOK, NEW p \in Procs, Update(p)
  PROVE  /\ tour' \in [Tours -> Row]
         /\ \A t \in Tours : tour'[t].id = t
  <1> DEFINE m == mem[p]
             n == Merge(tour[m.want.id], m.want, m.dirty)
  <1>1. m \in Memory /\ m.want \in Row /\ m.want.id \in Tours
    BY DEF TypeOK, Memory, Row
  <1>2. tour[m.want.id] \in Row /\ tour[m.want.id].id = m.want.id
    BY <1>1 DEF TypeOK
  <1>3. n \in Row /\ n.id = m.want.id
    BY <1>1, <1>2, MergeType
  <1>4. tour' = [tour EXCEPT ![m.want.id] = n]
    BY DEF Update
  <1>. QED
    BY <1>1, <1>3, <1>4 DEF TypeOK

(* The SELECT of a save of a row keeps the handler's memory well typed. *)
LEMMA SelectType ==
  ASSUME TypeOK, NEW p \in Procs, NEW e \in Row, NEW omits,
         NEW next \in {"full", "cart", "updatePlan", "done", "idle"},
         Select(p, e, omits, next)
  PROVE  mem' \in [Procs -> Memory]
  <1>1. PICK extra \in SUBSET {"upVote"} :
           mem' = [mem EXCEPT ![p].want = e, ![p].next = next,
                     ![p].dirty = extra \cup {c \in Columns \ omits :
                                                e[c] # tour[e.id][c]}]
    BY DEF Select
  <1> DEFINE d == extra \cup {c \in Columns \ omits : e[c] # tour[e.id][c]}
  <1>2. d \in SUBSET Columns
    BY DEF Columns
  <1> HIDE DEF d
  <1>3. mem' = [mem EXCEPT ![p].want = e, ![p].next = next, ![p].dirty = d]
    BY <1>1 DEF d
  <1>4. mem[p] \in Memory /\ mem \in [Procs -> Memory]
    BY DEF TypeOK
  <1>5. [mem[p] EXCEPT !.want = e, !.next = next, !.dirty = d] \in Memory
    BY <1>2, <1>4 DEF Memory
  <1>. QED
    BY <1>3, <1>4, <1>5

LEMMA GotoType ==
  ASSUME TypeOK, NEW p \in Procs, NEW l \in Pcs, Goto(p, l)
  PROVE  pc' \in [Procs -> Pcs]
  BY DEF TypeOK, Goto

LEMMA AnswerType ==
  ASSUME TypeOK, NEW r \in Requests, NEW m \in Replies, Answer(r, m)
  PROVE  /\ pc' \in [Procs -> Pcs]
         /\ reply' \in [Requests -> Replies]
         /\ mem' \in [Procs -> Memory]
  <1>1. "done" \in Pcs /\ r \in Procs
    BY DEF Pcs
  <1>. QED
    BY <1>1, BlankType DEF TypeOK, Answer, Goto

(* Reading the tour row into snap. *)
LEMMA SnapType ==
  ASSUME TypeOK, NEW r \in Procs, NEW x \in Row,
         mem' = [mem EXCEPT ![r].snap = x]
  PROVE  mem' \in [Procs -> Memory]
  <1>1. mem[r] \in Memory
    BY DEF TypeOK
  <1>2. [mem[r] EXCEPT !.snap = x] \in Memory
    BY <1>1 DEF Memory
  <1>. QED
    BY <1>2 DEF TypeOK

LEMMA FoundType ==
  ASSUME TypeOK, NEW r \in Procs, NEW x \in SUBSET Requests,
         mem' = [mem EXCEPT ![r].found = x]
  PROVE  mem' \in [Procs -> Memory]
  <1>1. mem[r] \in Memory
    BY DEF TypeOK
  <1>2. [mem[r] EXCEPT !.found = x] \in Memory
    BY <1>1 DEF Memory
  <1>. QED
    BY <1>2 DEF TypeOK

LEMMA BookingType ==
  ASSUME TypeOK, NEW r \in Requests,
         BookRead(r) \/ Booking(r) \/ BookMail(r)
  PROVE  TypeOK'
  <1>0. r \in Procs /\ job[r] \in Job /\ job[r].tour \in Tours /\ job[r].party \in Int
    BY DEF TypeOK, Job
  <1>m. /\ mem[r] \in Memory /\ mem[r].snap \in Row /\ mem[r].want \in Row
        /\ mem[r].found \in SUBSET Requests
    BY <1>0 DEF TypeOK, Memory
  <1>1. CASE BookRead(r)
    <2>1. tour[job[r].tour] \in Row
      BY <1>0 DEF TypeOK
    <2>2. /\ pc' \in [Procs -> Pcs]
          /\ reply' \in [Requests -> Replies]
          /\ mem' \in [Procs -> Memory]
      <3>1. CASE \E m \in Replies : Answer(r, m)
        BY <3>1, AnswerType
      <3>2. CASE /\ mem' = [mem EXCEPT ![r].snap = tour[job[r].tour]]
                 /\ Goto(r, "order")
                 /\ UNCHANGED reply
        <4>1. "order" \in Pcs
          BY DEF Pcs
        <4>. QED
          BY <3>2, <4>1, <2>1, <1>0, SnapType, GotoType DEF TypeOK
      <3>. QED
        BY <1>1, <3>1, <3>2 DEF BookRead, Replies
    <2>. QED
      BY <1>1, <2>2 DEF BookRead, TypeOK, db
  <1>2. CASE BookOrder(r)
    <2>1. /\ pc' \in [Procs -> Pcs]
          /\ reply' \in [Requests -> Replies]
          /\ mem' \in [Procs -> Memory]
      <3>1. "detail" \in Pcs /\ "error" \in Replies
        BY DEF Pcs, Replies
      <3>. QED
        BY <1>2, <1>0, <3>1, AnswerType, GotoType DEF BookOrder, TypeOK
    <2>. QED
      BY <1>2, <1>0, <2>1 DEF BookOrder, TypeOK
  <1>3. CASE BookDetail(r) \/ BookLink(r)
    <2>1. {"link", "passengers"} \subseteq Pcs
      BY DEF Pcs
    <2>. QED
      BY <1>3, <1>0, <2>1 DEF BookDetail, BookLink, Goto, TypeOK
  <1>4. CASE BookPassengers(r)
    <2>1. /\ pc' \in [Procs -> Pcs]
          /\ reply' \in [Requests -> Replies]
          /\ mem' \in [Procs -> Memory]
      <3>1. "counter" \in Pcs /\ "error" \in Replies
        BY DEF Pcs, Replies
      <3>. QED
        BY <1>4, <1>0, <3>1, AnswerType, GotoType DEF BookPassengers, TypeOK
    <2>. QED
      BY <1>4, <1>0, <2>1 DEF BookPassengers, TypeOK
  <1>5. CASE BookCounterSelect(r)
    <2>1. Counted(r) \in Row
      BY <1>0, <1>m DEF Row, Counted
    <2>2. \E next \in {"full", "cart", "updatePlan", "done", "idle"} :
             Select(r, Counted(r), {}, next)
      BY <1>5 DEF BookCounterSelect
    <2>4. mem' \in [Procs -> Memory]
      BY <1>0, <2>1, <2>2, SelectType
    <2>5. "save" \in Pcs /\ Goto(r, "save")
      BY <1>5 DEF Pcs, BookCounterSelect
    <2>6. pc' \in [Procs -> Pcs]
      BY <2>5, <1>0, GotoType
    <2>. QED
      BY <1>5, <2>4, <2>6 DEF BookCounterSelect, TypeOK, db
  <1>6. CASE BookFullSelect(r)
    <2>1. Full(r) \in Row
      BY <1>m DEF Row, Statuses, Open, Full
    <2>2. Select(r, Full(r), {}, "cart")
      BY <1>6 DEF BookFullSelect
    <2>3. mem' \in [Procs -> Memory]
      BY <1>0, <2>1, <2>2, SelectType
    <2>4. "save" \in Pcs /\ Goto(r, "save")
      BY <1>6 DEF Pcs, BookFullSelect
    <2>5. pc' \in [Procs -> Pcs]
      BY <2>4, <1>0, GotoType
    <2>. QED
      BY <1>6, <2>3, <2>5 DEF BookFullSelect, TypeOK, db
  <1>7. CASE BookCartFind(r)
    <2>1. {"mail", "cartRemove"} \subseteq Pcs
      BY DEF Pcs
    <2>2. pc' \in [Procs -> Pcs] /\ mem' \in [Procs -> Memory]
      <3>1. CASE Goto(r, "mail") /\ UNCHANGED mem
        BY <3>1, <2>1, <1>0, GotoType DEF TypeOK
      <3>2. CASE \E x \in CartRows(r) : /\ mem' = [mem EXCEPT ![r].found = {x}]
                                         /\ Goto(r, "cartRemove")
        <4>1. PICK x \in CartRows(r) : /\ mem' = [mem EXCEPT ![r].found = {x}]
                                       /\ Goto(r, "cartRemove")
          BY <3>2
        <4>2. {x} \in SUBSET Requests
          BY DEF CartRows, TypeOK
        <4>. QED
          BY <4>1, <4>2, <2>1, <1>0, FoundType, GotoType
      <3>. QED
        BY <1>7, <3>1, <3>2 DEF BookCartFind
    <2>. QED
      BY <1>7, <2>2 DEF BookCartFind, TypeOK, db
  <1>8. CASE BookCartRemove(r)
    <2>1. "mail" \in Pcs
      BY DEF Pcs
    <2>. QED
      BY <1>8, <1>0, <2>1, GotoType DEF BookCartRemove, TypeOK
  <1>9. CASE BookMail(r)
    <2>1. {"booking success", "error"} \subseteq Replies
      BY DEF Replies
    <2>. QED
      BY <1>9, <2>1, AnswerType DEF BookMail, TypeOK, db
  <1>. QED
    BY <1>1, <1>2, <1>3, <1>4, <1>5, <1>6, <1>7, <1>8, <1>9 DEF Booking

LEMMA EditingType ==
  ASSUME TypeOK, NEW r \in Requests, Editing(r)
  PROVE  TypeOK'
  <1>0. r \in Procs /\ job[r] \in Job /\ job[r].tour \in Tours
    BY DEF TypeOK, Job
  <1>m. /\ mem[r] \in Memory /\ mem[r].snap \in Row /\ mem[r].want \in Row
        /\ mem[r].found \in SUBSET Requests /\ mem[r].seen \in Nat
        /\ mem[r].next \in {"full", "cart", "updatePlan", "done", "idle"}
    BY <1>0 DEF TypeOK, Memory
  <1>p. /\ {"save", "updateSave"} \subseteq Pcs
        /\ {"full", "cart", "updatePlan", "done", "idle"} \subseteq Pcs
        /\ {"oke", "error"} \subseteq Replies
    BY DEF Pcs, Replies
  <1>1. CASE CreatePlan(r)
    <2>1. /\ pc' \in [Procs -> Pcs]
          /\ reply' \in [Requests -> Replies]
          /\ mem' \in [Procs -> Memory]
      BY <1>1, <1>p, AnswerType DEF CreatePlan
    <2>2. plan' \in [Tours -> Nat]
      BY <1>1, <1>0 DEF CreatePlan, TypeOK, Job
    <2>. QED
      BY <1>1, <2>1, <2>2 DEF CreatePlan, TypeOK
  <1>2. CASE UpdateCheck(r)
    <2>1. CASE Answer(r, "error")
      BY <1>2, <2>1, <1>p, AnswerType DEF UpdateCheck, TypeOK, db
    <2>2. CASE /\ mem' = [mem EXCEPT ![r].seen = plan[mem[r].snap.id]]
               /\ Goto(r, "updateSave")
               /\ UNCHANGED reply
      <3>1. plan[mem[r].snap.id] \in Nat
        BY <1>m DEF TypeOK, Row
      <3>2. [mem[r] EXCEPT !.seen = plan[mem[r].snap.id]] \in Memory
        BY <1>m, <3>1 DEF Memory
      <3>3. mem' \in [Procs -> Memory] /\ pc' \in [Procs -> Pcs]
        BY <2>2, <3>2, <1>0, <1>p, GotoType DEF TypeOK
      <3>. QED
        BY <1>2, <2>2, <3>3 DEF UpdateCheck, TypeOK, db
    <2>. QED
      BY <1>2, <2>1, <2>2 DEF UpdateCheck
  <1>3. CASE UpdateSelect(r)
    <2> DEFINE e == [mem[r].snap EXCEPT !.baseQuantity = job[r].seats,
                                        !.lastRegisterDate = job[r].last,
                                        !.status = "AVAILABLE"]
    <2>1. e \in Row
      BY <1>0, <1>m DEF Row, Job, Statuses, Open
    <2>2. Select(r, e, job[r].omits, "updatePlan") /\ Goto(r, "save")
      BY <1>3 DEF UpdateSelect
    <2> HIDE DEF e
    <2>3. mem' \in [Procs -> Memory] /\ pc' \in [Procs -> Pcs]
      BY <2>1, <2>2, <1>0, <1>p, SelectType, GotoType
    <2>. QED
      BY <1>3, <2>3 DEF UpdateSelect, TypeOK, db
  <1>4. CASE UpdatePlan(r)
    <2>1. /\ pc' \in [Procs -> Pcs]
          /\ reply' \in [Requests -> Replies]
          /\ mem' \in [Procs -> Memory]
      BY <1>4, <1>p, AnswerType DEF UpdatePlan
    <2>2. plan' \in [Tours -> Nat]
      BY <1>4, <1>0, <1>m DEF UpdatePlan, Added, TypeOK, Job
    <2>. QED
      BY <1>4, <2>1, <2>2 DEF UpdatePlan, TypeOK
  <1>5. CASE DeleteSelect(r)
    <2> DEFINE e == [mem[r].snap EXCEPT !.status = "Delete"]
    <2>1. e \in Row
      BY <1>m DEF Row, Statuses, Open
    <2>2. Select(r, e, {}, "done") /\ Goto(r, "save")
      BY <1>5 DEF DeleteSelect
    <2> HIDE DEF e
    <2>3. mem' \in [Procs -> Memory] /\ pc' \in [Procs -> Pcs]
      BY <2>1, <2>2, <1>0, <1>p, SelectType, GotoType
    <2>. QED
      BY <1>5, <2>3 DEF DeleteSelect, TypeOK, db
  <1>6. CASE VoteSelect(r)
    <2> DEFINE e == [mem[r].snap EXCEPT !.upVote = Toggled(mem[r].snap, job[r].user)]
    <2>1. Toggled(mem[r].snap, job[r].user) \in SUBSET Users
      BY <1>0, <1>m DEF Row, Job, Toggled
    <2>2. e \in Row
      BY <1>m, <2>1 DEF Row
    <2>3. Select(r, e, {}, "done") /\ Goto(r, "save")
      BY <1>6 DEF VoteSelect
    <2> HIDE DEF e
    <2>4. mem' \in [Procs -> Memory] /\ pc' \in [Procs -> Pcs]
      BY <2>2, <2>3, <1>0, <1>p, SelectType, GotoType
    <2>. QED
      BY <1>6, <2>4 DEF VoteSelect, TypeOK, db
  <1>7. CASE SaveUpdate(r)
    <2>1. tour' \in [Tours -> Row] /\ \A t \in Tours : tour'[t].id = t
      BY <1>7, <1>0, UpdateType DEF SaveUpdate
    <2>2. /\ pc' \in [Procs -> Pcs]
          /\ reply' \in [Requests -> Replies]
          /\ mem' \in [Procs -> Memory]
      <3>1. CASE Answer(r, "oke")
        BY <3>1, <1>p, AnswerType
      <3>2. CASE Goto(r, mem[r].next) /\ UNCHANGED <<mem, reply>>
        BY <3>2, <1>p, <1>m, <1>0, GotoType DEF TypeOK
      <3>. QED
        BY <1>7, <3>1, <3>2 DEF SaveUpdate
    <2>. QED
      BY <1>7, <2>1, <2>2 DEF SaveUpdate, TypeOK
  <1>8. CASE CartInsert(r)
    <2>1. Answer(r, "oke") /\ cart' \subseteq Requests
      BY <1>8 DEF CartInsert, TypeOK
    <2>. QED
      BY <1>8, <2>1, <1>p, AnswerType DEF CartInsert, TypeOK
  <1>9. CASE CartDelete(r)
    <2>1. Answer(r, "oke") /\ cart' \subseteq Requests
      BY <1>9 DEF CartDelete, TypeOK
    <2>. QED
      BY <1>9, <2>1, <1>p, AnswerType DEF CartDelete, TypeOK
  <1>. QED
    BY <1>1, <1>2, <1>3, <1>4, <1>5, <1>6, <1>7, <1>8, <1>9 DEF Editing

LEMMA ArrivalType ==
  ASSUME TypeOK, NEW r \in Requests, Arrival(r)
  PROVE  TypeOK'
  <1>0. /\ r \in Procs /\ job[r] \in Job /\ job[r].tour \in Tours
        /\ tour[job[r].tour] \in Row
    BY DEF TypeOK, Job
  <1>p. /\ {"createPlan", "updateCheck", "deleteSave", "voteSave", "cartInsert",
            "cartDelete"} \subseteq Pcs
        /\ {"oke", "error", "can not found", "user bought can not delete",
            "This tour having in cart"} \subseteq Replies
    BY DEF Pcs, Replies
  <1>1. CASE BookRead(r)
    BY <1>1, BookingType
  <1>2. CASE CreateTour(r)
    <2>1. CASE Answer(r, "error") /\ UNCHANGED tour
      BY <1>2, <2>1, <1>p, AnswerType DEF CreateTour, TypeOK
    <2> DEFINE x == [id |-> job[r].tour, owner |-> job[r].user,
                     status |-> "AVAILABLE", quantity |-> 0,
                     baseQuantity |-> job[r].seats,
                     lastRegisterDate |-> job[r].last, startDate |-> job[r].start,
                     endDate |-> job[r].end, upVote |-> {}]
    <2>2. x \in Row /\ x.id = job[r].tour
      BY <1>0 DEF Row, Job, Statuses, Open
    <2> HIDE DEF x
    <2>3. CASE /\ tour' = [tour EXCEPT ![job[r].tour] = x]
               /\ Goto(r, "createPlan")
               /\ UNCHANGED <<mem, reply>>
      <3>1. tour' \in [Tours -> Row] /\ \A t \in Tours : tour'[t].id = t
        BY <2>2, <2>3, <1>0 DEF TypeOK
      <3>. QED
        BY <1>2, <2>3, <3>1, <1>0, <1>p, GotoType DEF CreateTour, TypeOK
    <2>. QED
      BY <1>2, <2>1, <2>3 DEF CreateTour, x
  <1>3. CASE UpdateRead(r)
    BY <1>3, <1>0, <1>p, SnapType, GotoType DEF UpdateRead, TypeOK, db
  <1>4. CASE DeleteRead(r) \/ VoteRead(r)
    <2>1. CASE \E m \in Replies : Answer(r, m)
      BY <1>4, <2>1, AnswerType DEF DeleteRead, VoteRead, TypeOK, db
    <2>2. CASE /\ mem' = [mem EXCEPT ![r].snap = tour[job[r].tour]]
               /\ Goto(r, "deleteSave") \/ Goto(r, "voteSave")
               /\ UNCHANGED reply
      <3>1. mem' \in [Procs -> Memory] /\ pc' \in [Procs -> Pcs]
        BY <2>2, <1>0, <1>p, SnapType, GotoType
      <3>. QED
        BY <1>4, <2>2, <3>1 DEF DeleteRead, VoteRead, TypeOK, db
    <2>. QED
      BY <1>4, <2>1, <2>2, <1>p DEF DeleteRead, VoteRead
  <1>5. CASE CartCreateFind(r)
    <2>1. CASE \E m \in Replies : Answer(r, m)
      BY <1>5, <2>1, AnswerType DEF CartCreateFind, TypeOK, db
    <2>2. CASE Goto(r, "cartInsert") /\ UNCHANGED <<mem, reply>>
      BY <1>5, <2>2, <1>0, <1>p, GotoType DEF CartCreateFind, TypeOK, db
    <2>. QED
      BY <1>5, <2>1, <2>2, <1>p DEF CartCreateFind
  <1>6. CASE CartDeleteFind(r)
    <2>1. CASE \E m \in Replies : Answer(r, m)
      BY <1>6, <2>1, AnswerType DEF CartDeleteFind, TypeOK, db
    <2>2. CASE /\ \E x \in CartRows(r) : mem' = [mem EXCEPT ![r].found = {x}]
               /\ Goto(r, "cartDelete")
               /\ UNCHANGED reply
      <3>1. PICK x \in CartRows(r) : mem' = [mem EXCEPT ![r].found = {x}]
        BY <2>2
      <3>2. {x} \in SUBSET Requests
        BY DEF CartRows, TypeOK
      <3>3. mem' \in [Procs -> Memory] /\ pc' \in [Procs -> Pcs]
        BY <2>2, <3>1, <3>2, <1>0, <1>p, FoundType, GotoType
      <3>. QED
        BY <1>6, <2>2, <3>3 DEF CartDeleteFind, TypeOK, db
    <2>. QED
      BY <1>6, <2>1, <2>2, <1>p DEF CartDeleteFind
  <1>7. CASE CartEmptyFind(r)
    <2> DEFINE f == {x \in cart : job[x].user = job[r].user}
    <2>1. f \in SUBSET Requests
      BY DEF TypeOK
    <2>2. mem' = [mem EXCEPT ![r].found = f] /\ Goto(r, "cartDelete")
      BY <1>7 DEF CartEmptyFind
    <2> HIDE DEF f
    <2>3. mem' \in [Procs -> Memory] /\ pc' \in [Procs -> Pcs]
      BY <2>1, <2>2, <1>0, <1>p, FoundType, GotoType
    <2>. QED
      BY <1>7, <2>3 DEF CartEmptyFind, TypeOK, db
  <1>. QED
    BY <1>1, <1>2, <1>3, <1>4, <1>5, <1>6, <1>7 DEF Arrival

LEMMA CronType ==
  ASSUME TypeOK, NEW c \in CronRuns, Cron(c)
  PROVE  TypeOK'
  <1>0. c \in Procs /\ {"cronSave", "cronUpdate", "idle"} \subseteq Pcs
    BY DEF Pcs
  <1>1. CASE CronRead(c)
    <2> DEFINE W(t, s) == [tour[t] EXCEPT !.status = s]
    <2>1. Saves \subseteq Row
      <3>1. ASSUME NEW t \in Tours, NEW s \in {"LAST", "TRAVELING", "DONE"}
            PROVE  W(t, s) \in Row
        <4>1. tour[t] \in Row /\ s \in Statuses
          BY DEF TypeOK, Statuses, Open
        <4>. QED
          BY <4>1 DEF Row
      <3>2. Saves \subseteq {W(t, s) : t \in Tours, s \in {"LAST", "TRAVELING", "DONE"}}
        BY DEF Saves
      <3> HIDE DEF W
      <3>. QED
        BY <3>1, <3>2
    <2>2. batch' = [batch EXCEPT ![c] = Saves]
      BY <1>1 DEF CronRead
    <2>3. batch' \in [CronRuns -> SUBSET Row] /\ pc' \in [Procs -> Pcs]
      BY <1>1, <2>1, <2>2, <1>0, GotoType DEF CronRead, TypeOK
    <2>. QED
      BY <1>1, <2>3 DEF CronRead, TypeOK, db
  <1>2. CASE CronSelect(c)
    <2>1. PICK e \in batch[c] : Select(c, e, {}, "idle")
                               /\ batch' = [batch EXCEPT ![c] = @ \ {e}]
      BY <1>2 DEF CronSelect
    <2>2. e \in Row
      BY DEF TypeOK
    <2>3. mem' \in [Procs -> Memory]
      BY <2>1, <2>2, <1>0, SelectType
    <2>4. pc' \in [Procs -> Pcs]
      BY <1>2, <1>0, GotoType DEF CronSelect
    <2>. QED
      BY <1>2, <2>1, <2>3, <2>4 DEF CronSelect, TypeOK, db
  <1>3. CASE CronUpdate(c)
    <2>1. tour' \in [Tours -> Row] /\ \A t \in Tours : tour'[t].id = t
      BY <1>3, <1>0, UpdateType DEF CronUpdate
    <2>2. pc' \in [Procs -> Pcs]
      BY <1>3, <1>0, GotoType DEF CronUpdate
    <2>3. mem' \in [Procs -> Memory]
      BY <1>3, BlankType DEF CronUpdate, TypeOK
    <2>. QED
      BY <1>3, <2>1, <2>2, <2>3 DEF CronUpdate, TypeOK
  <1>. QED
    BY <1>1, <1>2, <1>3 DEF Cron

LEMMA CrashType == ASSUME TypeOK, Crash PROVE TypeOK'
  <1>1. pc' \in [Procs -> Pcs]
    BY DEF Crash, TypeOK, Pcs
  <1>2. reply' \in [Requests -> Replies]
    BY DEF Crash, TypeOK, Replies
  <1>3. mem' \in [Procs -> Memory] /\ batch' \in [CronRuns -> SUBSET Row]
    BY BlankType DEF Crash
  <1>4. crashes' \in Nat
    BY DEF Crash, TypeOK
  <1>. QED
    BY <1>1, <1>2, <1>3, <1>4 DEF Crash, TypeOK, db

LEMMA TypeStep == TypeOK /\ [Next]_vars => TypeOK'
  <1> SUFFICES ASSUME TypeOK, [Next]_vars PROVE TypeOK'
    OBVIOUS
  <1>1. ASSUME NEW r \in Requests, Arrival(r) PROVE TypeOK'
    BY <1>1, ArrivalType
  <1>2. ASSUME NEW r \in Requests, Booking(r) \/ BookMail(r) PROVE TypeOK'
    BY <1>2, BookingType
  <1>3. ASSUME NEW r \in Requests, Editing(r) PROVE TypeOK'
    BY <1>3, EditingType
  <1>4. ASSUME NEW c \in CronRuns, Cron(c) PROVE TypeOK'
    BY <1>4, CronType
  <1>5. CASE Tick
    BY <1>5 DEF Tick, TypeOK, db
  <1>6. CASE Crash
    BY <1>6, CrashType
  <1>7. CASE UNCHANGED vars
    BY <1>7 DEF vars, TypeOK
  <1>. QED
    BY <1>1, <1>2, <1>3, <1>4, <1>5, <1>6, <1>7 DEF Next

(* Type correctness of the tour service, whatever numbers of persons and    *)
(* seats the requests carry.                                                *)
THEOREM TypeCorrect == Spec => []TypeOK
  BY InitType, TypeStep, PTL DEF Spec

--------------------------------------------------------------------------------
(* From here to ImplementsCounter, clients send no negative parties. *)
LEMMA PartyCounts ==
  ASSUME PartiesAreCounts, TypeOK, NEW r \in Requests
  PROVE  job[r].party \in Nat /\ job[r].tour \in Tours
  BY DEF PartiesAreCounts, TypeOK, Job

(* Persons on confirmed orders are never taken off again. *)
LEMMA SoldGrows ==
  ASSUME PartiesAreCounts, TypeOK, [Next]_vars
  PROVE  \A t \in Tours : sold'[t] >= sold[t]
  <1>1. ASSUME NEW r \in Requests, BookOrder(r)
        PROVE  \A t \in Tours : sold'[t] >= sold[t]
    <2>1. job[r].party \in Nat /\ job[r].tour \in Tours
      BY PartyCounts
    <2>. QED
      BY <1>1, <2>1 DEF BookOrder, TypeOK
  <1>2. ASSUME NEW r \in Requests, Arrival(r) \/ Editing(r) PROVE UNCHANGED sold
    BY <1>2 DEF Arrival, Editing, BookRead, CreateTour, UpdateRead, DeleteRead,
        VoteRead, CartCreateFind, CartDeleteFind, CartEmptyFind, CreatePlan,
        UpdateCheck, UpdateSelect, UpdatePlan, DeleteSelect, VoteSelect,
        SaveUpdate, CartInsert, CartDelete, db
  <1>3. ASSUME NEW r \in Requests, Booking(r) \/ BookMail(r), ~BookOrder(r)
        PROVE  UNCHANGED sold
    BY <1>3 DEF Booking, BookDetail, BookLink, BookPassengers, BookCounterSelect,
        BookFullSelect, BookCartFind, BookCartRemove, BookMail, db
  <1>4. ASSUME NEW c \in CronRuns, Cron(c) PROVE UNCHANGED sold
    BY <1>4 DEF Cron, CronRead, CronSelect, CronUpdate, db
  <1>5. Tick \/ Crash \/ UNCHANGED vars => UNCHANGED sold
    BY DEF Tick, Crash, vars, db
  <1>6. UNCHANGED sold => \A t \in Tours : sold'[t] >= sold[t]
    BY DEF TypeOK
  <1>. QED
    BY <1>1, <1>2, <1>3, <1>4, <1>5, <1>6 DEF Next

(* What a SELECT leaves in memory. *)
LEMMA SelectEffect ==
  ASSUME TypeOK, NEW p \in Procs, NEW e, NEW omits, NEW next,
         Select(p, e, omits, next)
  PROVE  /\ mem'[p].want = e /\ mem'[p].snap = mem[p].snap
         /\ \A q \in Procs : q # p => mem'[q] = mem[q]
  <1>1. PICK extra \in SUBSET {"upVote"} :
           mem' = [mem EXCEPT ![p].want = e, ![p].next = next,
                     ![p].dirty = extra \cup {c \in Columns \ omits :
                                                e[c] # tour[e.id][c]}]
    BY DEF Select
  <1> DEFINE d == extra \cup {c \in Columns \ omits : e[c] # tour[e.id][c]}
  <1> HIDE DEF d
  <1>2. mem' = [mem EXCEPT ![p].want = e, ![p].next = next, ![p].dirty = d]
    BY <1>1 DEF d
  <1>3. mem[p] \in Memory /\ mem \in [Procs -> Memory]
    BY DEF TypeOK
  <1>. QED
    BY <1>2, <1>3 DEF Memory

(* An UPDATE with an honest object leaves an honest row. *)
LEMMA UpdateEffect ==
  ASSUME TypeOK, LedgerInv, NEW p \in Procs, Update(p), UNCHANGED sold
  PROVE  \A t \in Tours : Honest(tour[t])'
  <1> DEFINE m == mem[p]
             n == Merge(tour[m.want.id], m.want, m.dirty)
  <1>1. m \in Memory /\ m.want \in Row /\ m.want.id \in Tours
    BY DEF TypeOK, Memory, Row
  <1>2. tour[m.want.id] \in Row /\ tour[m.want.id].id = m.want.id
    BY <1>1 DEF TypeOK
  <1>3. /\ n.id = m.want.id
        /\ n.quantity = m.want.quantity \/ n.quantity = tour[m.want.id].quantity
    BY <1>1, <1>2 DEF Merge, Row
  <1>4. tour' = [tour EXCEPT ![m.want.id] = n]
    BY DEF Update
  <1>5. Honest(m.want) /\ \A t \in Tours : Honest(tour[t])
    BY DEF LedgerInv
  <1> HIDE DEF n
  <1>. QED
    BY <1>1, <1>2, <1>3, <1>4, <1>5 DEF TypeOK, Honest

LEMMA SoldIsCount ==
  ASSUME TypeOK, LedgerInv PROVE \A t \in Tours : 0 <= sold[t]
  <1> SUFFICES ASSUME NEW t \in Tours PROVE 0 <= sold[t]
    OBVIOUS
  <1>1. Honest(tour[t]) /\ tour[t].id = t /\ tour[t].quantity \in Int /\ sold[t] \in Int
    BY DEF LedgerInv, TypeOK, Row
  <1>. QED
    BY <1>1 DEF Honest

LEMMA BlankHonest ==
  ASSUME TypeOK, \A t \in Tours : 0 <= sold[t]
  PROVE  Honest(Blank.snap) /\ Honest(Blank.want)
  <1>1. Blank.snap.id \in Tours /\ Blank.want.id \in Tours
    BY BlankType DEF Memory, Row
  <1>. QED
    BY <1>1 DEF Blank, NoRow, Honest, TypeOK

(* The frame of most steps: sold and the table as they were, one memory     *)
(* changed or cleared.                                                      *)
LEMMA LedgerFrame ==
  ASSUME TypeOK, LedgerInv, UNCHANGED <<sold, job, batch>>,
         NEW p \in Procs,
         \A t \in Tours : Honest(tour[t])',
         \A q \in Procs : q # p => mem'[q] = mem[q] /\ pc'[q] = pc[q],
         Honest(mem[p].snap)', Honest(mem[p].want)',
         p \in Requests =>
            /\ pc'[p] \in Placed \cup {"order"} => mem'[p].snap.id = job[p].tour
            /\ pc'[p] \in Placed =>
                  mem'[p].snap.quantity + job[p].party <= sold[mem'[p].snap.id]
  PROVE  LedgerInv'
  BY DEF LedgerInv, Honest

LEMMA ClearedLedger ==
  ASSUME TypeOK, LedgerInv, UNCHANGED <<sold, job, batch>>,
         NEW r \in Requests, NEW m, Answer(r, m),
         \A t \in Tours : Honest(tour[t])'
  PROVE  LedgerInv'
  <1>1. /\ mem'[r] = Blank /\ pc'[r] = "done"
        /\ \A q \in Procs : q # r => mem'[q] = mem[q] /\ pc'[q] = pc[q]
    BY DEF Answer, Goto, TypeOK
  <1>2. Honest(mem[r].snap)' /\ Honest(mem[r].want)'
    BY <1>1, BlankHonest, SoldIsCount DEF Honest
  <1>. QED
    BY <1>1, <1>2, LedgerFrame DEF Placed

LEMMA SelectLedger ==
  ASSUME TypeOK, LedgerInv, UNCHANGED <<tour, sold, job, batch>>,
         NEW r \in Requests, NEW e, NEW omits, NEW next,
         Select(r, e, omits, next), Goto(r, "save"), Honest(e)
  PROVE  LedgerInv'
  <1>1. /\ mem'[r].want = e /\ mem'[r].snap = mem[r].snap
        /\ \A q \in Procs : q # r => mem'[q] = mem[q]
    BY SelectEffect
  <1>2. pc'[r] = "save" /\ \A q \in Procs : q # r => pc'[q] = pc[q]
    BY DEF Goto, TypeOK
  <1>3. Honest(mem[r].snap)' /\ Honest(mem[r].want)'
    BY <1>1 DEF LedgerInv, Honest
  <1>4. \A t \in Tours : Honest(tour[t])'
    BY DEF LedgerInv, Honest
  <1>. QED
    BY <1>1, <1>2, <1>3, <1>4, LedgerFrame DEF Placed

LEMMA BookingLedger ==
  ASSUME PartiesAreCounts, TypeOK, LedgerInv, NEW r \in Requests,
         BookRead(r) \/ Booking(r) \/ BookMail(r)
  PROVE  LedgerInv'
  <1>0. /\ r \in Procs /\ mem[r] \in Memory /\ mem[r].snap \in Row
        /\ job[r].tour \in Tours /\ job[r].party \in Nat
    BY PartyCounts DEF TypeOK, Memory
  <1>h. \A t \in Tours : UNCHANGED <<tour, sold>> => Honest(tour[t])'
    BY DEF LedgerInv, Honest
  <1>1. CASE BookRead(r)
    <2>0. UNCHANGED <<tour, sold, job, batch>>
      BY <1>1 DEF BookRead, db
    <2>1. CASE \E m \in Replies : Answer(r, m)
      BY <2>0, <2>1, <1>h, ClearedLedger
    <2>2. CASE /\ mem' = [mem EXCEPT ![r].snap = tour[job[r].tour]]
               /\ Goto(r, "order")
      <3>1. /\ mem'[r].snap = tour[job[r].tour] /\ mem'[r].want = mem[r].want
            /\ pc'[r] = "order"
            /\ \A q \in Procs : q # r => mem'[q] = mem[q] /\ pc'[q] = pc[q]
        BY <2>2, <1>0 DEF Goto, TypeOK, Memory
      <3>2. Honest(mem[r].snap)' /\ Honest(mem[r].want)'
        BY <2>0, <3>1, <1>0 DEF LedgerInv, Honest
      <3>3. mem'[r].snap.id = job[r].tour
        BY <3>1, <1>0 DEF TypeOK
      <3>. QED
        BY <2>0, <3>1, <3>2, <3>3, <1>h, LedgerFrame DEF Placed
    <2>. QED
      BY <1>1, <2>1, <2>2 DEF BookRead, Replies
  <1>2. CASE BookOrder(r)
    <2>1. CASE Answer(r, "error") /\ UNCHANGED <<order, sold>>
      BY <1>2, <2>1, <1>h, ClearedLedger DEF BookOrder
    <2>2. CASE /\ sold' = [sold EXCEPT ![job[r].tour] = @ + job[r].party]
               /\ Goto(r, "detail")
               /\ UNCHANGED <<mem, reply>>
      <3>0. UNCHANGED <<tour, job, batch, mem>> /\ pc[r] = "order"
        BY <1>2, <2>2 DEF BookOrder
      <3>1. \A t \in Tours : sold'[t] \in Int /\ sold[t] \in Int /\ sold'[t] >= sold[t]
        BY <2>2, <1>0 DEF TypeOK
      <3>2. ASSUME NEW e \in Row, Honest(e) PROVE Honest(e)'
        BY <3>1, <3>2 DEF Honest, Row
      <3>3. /\ pc'[r] = "detail"
            /\ \A q \in Procs : q # r => pc'[q] = pc[q]
        BY <2>2 DEF Goto, TypeOK
      <3>4. \A t \in Tours : Honest(tour[t])'
        BY <3>0, <3>2 DEF LedgerInv, TypeOK
      <3>5. \A p \in Procs : Honest(mem[p].snap)' /\ Honest(mem[p].want)'
        <4>1. \A p \in Procs : mem[p].snap \in Row /\ mem[p].want \in Row
          BY DEF TypeOK, Memory
        <4>. QED
          BY <4>1, <3>0, <3>2 DEF LedgerInv
      <3>6. \A c \in CronRuns : \A e \in batch[c] : e \in Row /\ Honest(e)'
        BY <3>2 DEF LedgerInv, TypeOK
      <3>7. ASSUME NEW x \in Requests
            PROVE  /\ pc'[x] \in Placed \cup {"order"} => mem'[x].snap.id = job'[x].tour
                   /\ pc'[x] \in Placed =>
                        mem'[x].snap.quantity + job'[x].party <= sold'[mem'[x].snap.id]
        <4>1. /\ mem[x].snap \in Row /\ job[x].party \in Int
              /\ mem[x].snap.quantity \in Int /\ mem[x].snap.id \in Tours
          BY DEF TypeOK, Memory, Job, Row
        <4>2. CASE x = r
          <5>1. mem[r].snap.id = job[r].tour /\ Honest(mem[r].snap)
            BY <3>0 DEF LedgerInv
          <5>2. sold'[job[r].tour] = sold[job[r].tour] + job[r].party
            BY <2>2, <1>0 DEF TypeOK
          <5>. QED
            BY <4>1, <4>2, <5>1, <5>2, <3>0, <3>1 DEF Honest
        <4>3. CASE x # r
          BY <4>1, <4>3, <3>0, <3>1, <3>3 DEF LedgerInv
        <4>. QED
          BY <4>2, <4>3
      <3>8. LedgerInv'
        BY <3>0, <3>4, <3>5, <3>6, <3>7 DEF LedgerInv, Honest
      <3>. QED
        BY <3>8
    <2>. QED
      BY <1>2, <2>1, <2>2 DEF BookOrder
  <1>3. CASE BookDetail(r) \/ BookLink(r) \/ BookPassengers(r)
    <2>0. UNCHANGED <<tour, sold, job, batch>> /\ pc[r] \in Placed
      BY <1>3 DEF BookDetail, BookLink, BookPassengers, Placed
    <2>1. CASE Answer(r, "error")
      BY <2>0, <2>1, <1>h, ClearedLedger
    <2>2. CASE /\ Goto(r, "link") \/ Goto(r, "passengers") \/ Goto(r, "counter")
               /\ UNCHANGED mem
      <3>1. /\ \A q \in Procs : mem'[q] = mem[q] /\ (q # r => pc'[q] = pc[q])
        BY <2>2 DEF Goto, TypeOK
      <3>2. Honest(mem[r].snap)' /\ Honest(mem[r].want)'
        BY <2>0, <2>2 DEF LedgerInv, Honest
      <3>3. /\ mem'[r].snap.id = job[r].tour
            /\ mem'[r].snap.quantity + job[r].party <= sold[mem'[r].snap.id]
        BY <2>0, <2>2 DEF LedgerInv
      <3>. QED
        BY <2>0, <3>1, <3>2, <3>3, <1>h, LedgerFrame
    <2>. QED
      BY <1>3, <2>1, <2>2 DEF BookDetail, BookLink, BookPassengers
  <1>4. CASE BookCounterSelect(r)
    <2>1. Honest(Counted(r))
      <3>1. pc[r] \in Placed
        BY <1>4 DEF BookCounterSelect, Placed
      <3>. QED
        BY <3>1, <1>0 DEF LedgerInv, Honest, Row, Counted
    <2>2. PICK next : Select(r, Counted(r), {}, next)
      BY <1>4 DEF BookCounterSelect
    <2>. QED
      BY <1>4, <2>1, <2>2, SelectLedger DEF BookCounterSelect, db
  <1>5. CASE BookFullSelect(r)
    <2>1. Honest(Full(r))
      BY <1>0 DEF LedgerInv, Honest, Row, Memory, Full
    <2>2. Select(r, Full(r), {}, "cart")
      BY <1>5 DEF BookFullSelect
    <2>. QED
      BY <1>5, <2>1, <2>2, SelectLedger DEF BookFullSelect, db
  <1>6. CASE BookCartFind(r) \/ BookCartRemove(r)
    <2>0. UNCHANGED <<tour, sold, job, batch>>
      BY <1>6 DEF BookCartFind, BookCartRemove, db
    <2>1. /\ mem'[r].snap = mem[r].snap /\ mem'[r].want = mem[r].want
          /\ pc'[r] \in {"mail", "cartRemove"}
          /\ \A q \in Procs : q # r => mem'[q] = mem[q] /\ pc'[q] = pc[q]
      BY <1>6, <1>0 DEF BookCartFind, BookCartRemove, Goto, TypeOK, Memory
    <2>2. Honest(mem[r].snap)' /\ Honest(mem[r].want)'
      BY <2>0, <2>1, <1>0 DEF LedgerInv, Honest
    <2>. QED
      BY <2>0, <2>1, <2>2, <1>h, <1>0, LedgerFrame DEF Placed
  <1>7. CASE BookMail(r)
    BY <1>7, <1>h, ClearedLedger DEF BookMail, db
  <1>. QED
    BY <1>1, <1>2, <1>3, <1>4, <1>5, <1>6, <1>7 DEF Booking

LEMMA EditingLedger ==
  ASSUME TypeOK, LedgerInv, NEW r \in Requests, Editing(r)
  PROVE  LedgerInv'
  <1>0. r \in Procs /\ mem[r] \in Memory /\ mem[r].snap \in Row
    BY DEF TypeOK, Memory
  <1>1. Honest(mem[r].snap)
    BY <1>0 DEF LedgerInv
  <1>h. \A t \in Tours : UNCHANGED <<tour, sold>> => Honest(tour[t])'
    BY DEF LedgerInv, Honest
  <1>2. CASE CreatePlan(r) \/ UpdatePlan(r) \/ CartInsert(r) \/ CartDelete(r)
    <2>1. \E m : Answer(r, m)
      BY <1>2 DEF CreatePlan, UpdatePlan, CartInsert, CartDelete
    <2>2. UNCHANGED <<tour, sold, job, batch>>
      BY <1>2 DEF CreatePlan, UpdatePlan, CartInsert, CartDelete
    <2>. QED
      BY <2>1, <2>2, <1>h, ClearedLedger
  <1>3. CASE UpdateCheck(r)
    <2>0. UNCHANGED <<tour, sold, job, batch>>
      BY <1>3 DEF UpdateCheck, db
    <2>1. CASE Answer(r, "error")
      BY <2>0, <2>1, <1>h, ClearedLedger
    <2>2. CASE /\ mem' = [mem EXCEPT ![r].seen = plan[mem[r].snap.id]]
               /\ Goto(r, "updateSave")
      <3>1. /\ mem'[r].snap = mem[r].snap /\ mem'[r].want = mem[r].want
            /\ pc'[r] = "updateSave"
            /\ \A q \in Procs : q # r => mem'[q] = mem[q] /\ pc'[q] = pc[q]
        BY <2>2, <1>0 DEF Goto, TypeOK, Memory
      <3>2. Honest(mem[r].snap)' /\ Honest(mem[r].want)'
        BY <2>0, <3>1, <1>0 DEF LedgerInv, Honest
      <3>. QED
        BY <2>0, <3>1, <3>2, <1>h, <1>0, LedgerFrame DEF Placed
    <2>. QED
      BY <1>3, <2>1, <2>2 DEF UpdateCheck
  <1>4. CASE UpdateSelect(r)
    <2> DEFINE e == [mem[r].snap EXCEPT !.baseQuantity = job[r].seats,
                                        !.lastRegisterDate = job[r].last,
                                        !.status = "AVAILABLE"]
    <2>1. Honest(e)
      BY <1>0, <1>1 DEF Honest, Row
    <2>2. Select(r, e, job[r].omits, "updatePlan")
      BY <1>4 DEF UpdateSelect
    <2> HIDE DEF e
    <2>. QED
      BY <1>4, <2>1, <2>2, SelectLedger DEF UpdateSelect, db
  <1>5. CASE DeleteSelect(r)
    <2> DEFINE e == [mem[r].snap EXCEPT !.status = "Delete"]
    <2>1. Honest(e)
      BY <1>0, <1>1 DEF Honest, Row
    <2>2. Select(r, e, {}, "done")
      BY <1>5 DEF DeleteSelect
    <2> HIDE DEF e
    <2>. QED
      BY <1>5, <2>1, <2>2, SelectLedger DEF DeleteSelect, db
  <1>6. CASE VoteSelect(r)
    <2> DEFINE e == [mem[r].snap EXCEPT !.upVote = Toggled(mem[r].snap, job[r].user)]
    <2>2. Honest(e)
      BY <1>0, <1>1 DEF Honest, Row
    <2>3. Select(r, e, {}, "done")
      BY <1>6 DEF VoteSelect
    <2> HIDE DEF e
    <2>. QED
      BY <1>6, <2>2, <2>3, SelectLedger DEF VoteSelect, db
  <1>7. CASE SaveUpdate(r)
    <2>0. UNCHANGED <<sold, job, batch>> /\ Update(r)
      BY <1>7 DEF SaveUpdate
    <2>1. \A t \in Tours : Honest(tour[t])'
      BY <2>0, <1>0, UpdateEffect
    <2>2. CASE Answer(r, "oke")
      BY <2>0, <2>1, <2>2, ClearedLedger
    <2>3. CASE Goto(r, mem[r].next) /\ UNCHANGED <<mem, reply>>
      <3>1. mem[r].next \in {"full", "cart", "updatePlan", "done", "idle"}
        BY <1>0 DEF Memory
      <3>2. /\ pc'[r] = mem[r].next
            /\ \A q \in Procs : mem'[q] = mem[q] /\ (q # r => pc'[q] = pc[q])
        BY <2>3 DEF Goto, TypeOK
      <3>3. Honest(mem[r].snap)' /\ Honest(mem[r].want)'
        BY <2>0, <2>3, <1>0 DEF LedgerInv, Honest
      <3>. QED
        BY <2>0, <2>1, <3>1, <3>2, <3>3, <1>0, LedgerFrame DEF Placed
    <2>. QED
      BY <1>7, <2>2, <2>3 DEF SaveUpdate
  <1>. QED
    BY <1>2, <1>3, <1>4, <1>5, <1>6, <1>7 DEF Editing

LEMMA ArrivalLedger ==
  ASSUME PartiesAreCounts, TypeOK, LedgerInv, NEW r \in Requests, Arrival(r)
  PROVE  LedgerInv'
  <1>0. /\ r \in Procs /\ mem[r] \in Memory
        /\ job[r].tour \in Tours
    BY DEF TypeOK, Job
  <1>h. \A t \in Tours : UNCHANGED <<tour, sold>> => Honest(tour[t])'
    BY DEF LedgerInv, Honest
  <1>1. CASE BookRead(r)
    BY <1>1, BookingLedger
  <1>2. CASE CreateTour(r)
    <2>0. UNCHANGED <<sold, job, batch>>
      BY <1>2 DEF CreateTour
    <2>1. CASE Answer(r, "error") /\ UNCHANGED tour
      BY <2>0, <2>1, <1>h, ClearedLedger
    <2> DEFINE x == [id |-> job[r].tour, owner |-> job[r].user,
                     status |-> "AVAILABLE", quantity |-> 0,
                     baseQuantity |-> job[r].seats,
                     lastRegisterDate |-> job[r].last, startDate |-> job[r].start,
                     endDate |-> job[r].end, upVote |-> {}]
    <2>2. x.quantity = 0 /\ x.id = job[r].tour
      OBVIOUS
    <2> HIDE DEF x
    <2>3. CASE /\ tour' = [tour EXCEPT ![job[r].tour] = x]
               /\ Goto(r, "createPlan")
               /\ UNCHANGED <<mem, reply>>
      <3>1. \A t \in Tours : Honest(tour[t])'
        BY <2>0, <2>2, <2>3, <1>0, SoldIsCount DEF LedgerInv, Honest, TypeOK
      <3>2. /\ pc'[r] = "createPlan"
            /\ \A q \in Procs : mem'[q] = mem[q] /\ (q # r => pc'[q] = pc[q])
        BY <2>3 DEF Goto, TypeOK
      <3>3. Honest(mem[r].snap)' /\ Honest(mem[r].want)'
        BY <2>0, <2>3, <1>0 DEF LedgerInv, Honest
      <3>. QED
        BY <2>0, <3>1, <3>2, <3>3, <1>0, LedgerFrame DEF Placed
    <2>. QED
      BY <1>2, <2>1, <2>3 DEF CreateTour, x
  <1>3. CASE UpdateRead(r) \/ DeleteRead(r) \/ VoteRead(r) \/ CartCreateFind(r)
             \/ CartDeleteFind(r) \/ CartEmptyFind(r)
    <2>0. UNCHANGED <<tour, sold, job, batch>>
      BY <1>3 DEF UpdateRead, DeleteRead, VoteRead, CartCreateFind, CartDeleteFind,
                  CartEmptyFind, db
    <2>1. CASE \E m : Answer(r, m)
      BY <2>0, <2>1, <1>h, ClearedLedger
    <2>2. CASE /\ \/ mem' = [mem EXCEPT ![r].snap = tour[job[r].tour]]
                  \/ \E f : mem' = [mem EXCEPT ![r].found = f]
                  \/ UNCHANGED mem
               /\ \E l \in {"updateCheck", "deleteSave", "voteSave", "cartInsert",
                            "cartDelete"} : Goto(r, l)
      <3>1. /\ pc'[r] \notin Placed \cup {"order"}
            /\ \A q \in Procs : q # r => pc'[q] = pc[q] /\ mem'[q] = mem[q]
        BY <2>2 DEF Goto, TypeOK, Placed
      <3>2. /\ mem'[r].want = mem[r].want
            /\ mem'[r].snap = tour[job[r].tour] \/ mem'[r].snap = mem[r].snap
        BY <2>2, <1>0 DEF TypeOK, Memory
      <3>3. Honest(mem[r].snap)' /\ Honest(mem[r].want)'
        BY <2>0, <3>2, <1>0 DEF LedgerInv, Honest
      <3>. QED
        BY <2>0, <3>1, <3>3, <1>h, <1>0, LedgerFrame
    <2>3. \/ \E m : Answer(r, m)
          \/ /\ \/ mem' = [mem EXCEPT ![r].snap = tour[job[r].tour]]
                \/ \E f : mem' = [mem EXCEPT ![r].found = f]
                \/ UNCHANGED mem
             /\ \E l \in {"updateCheck", "deleteSave", "voteSave", "cartInsert",
                          "cartDelete"} : Goto(r, l)
      <3>1. CASE UpdateRead(r) \/ DeleteRead(r) \/ VoteRead(r)
        BY <3>1 DEF UpdateRead, DeleteRead, VoteRead
      <3>2. CASE CartCreateFind(r)
        BY <3>2 DEF CartCreateFind
      <3>3. CASE CartDeleteFind(r)
        BY <3>3 DEF CartDeleteFind
      <3>4. CASE CartEmptyFind(r)
        BY <3>4 DEF CartEmptyFind
      <3>. QED
        BY <1>3, <3>1, <3>2, <3>3, <3>4
    <2>. QED
      BY <2>1, <2>2, <2>3
  <1>. QED
    BY <1>1, <1>2, <1>3 DEF Arrival

LEMMA CronLedger ==
  ASSUME TypeOK, LedgerInv, NEW c \in CronRuns, Cron(c)
  PROVE  LedgerInv'
  <1>0. c \in Procs /\ c \notin Requests /\ mem[c] \in Memory /\ batch[c] \subseteq Row
    BY ConstantsAssumption DEF TypeOK
  <1>h. UNCHANGED sold => /\ \A e : Honest(e) => Honest(e)'
                          /\ \A t \in Tours : UNCHANGED tour => Honest(tour[t])'
    BY DEF LedgerInv, Honest
  <1>r. ASSUME NEW r \in Requests, UNCHANGED <<sold, job>>,
               mem'[r] = mem[r], pc'[r] = pc[r]
        PROVE  /\ pc'[r] \in Placed \cup {"order"} => mem'[r].snap.id = job'[r].tour
               /\ pc'[r] \in Placed =>
                    mem'[r].snap.quantity + job'[r].party <= sold'[mem'[r].snap.id]
    BY <1>r DEF LedgerInv
  <1>1. CASE CronRead(c)
    <2> DEFINE W(t, s) == [tour[t] EXCEPT !.status = s]
    <2>0. /\ batch' = [batch EXCEPT ![c] = Saves]
          /\ UNCHANGED <<tour, sold, job, mem>> /\ Goto(c, "cronSave")
      BY <1>1 DEF CronRead, db
    <2>1. \A e \in Saves : Honest(e)
      <3>1. ASSUME NEW t \in Tours, NEW s \in {"LAST", "TRAVELING", "DONE"}
            PROVE  Honest(W(t, s))
        <4>1. tour[t] \in Row /\ Honest(tour[t])
          BY DEF TypeOK, LedgerInv
        <4>. QED
          BY <4>1 DEF Row, Honest
      <3>2. Saves \subseteq {W(t, s) : t \in Tours, s \in {"LAST", "TRAVELING", "DONE"}}
        BY DEF Saves
      <3> HIDE DEF W
      <3>. QED
        BY <3>1, <3>2
    <2>2. \A d \in CronRuns : \A e \in batch'[d] : Honest(e)
      BY <2>0, <2>1 DEF LedgerInv, TypeOK
    <2>3. \A r \in Requests : mem'[r] = mem[r] /\ pc'[r] = pc[r]
      BY <2>0, <1>0 DEF Goto, TypeOK
    <2>4. \A d \in CronRuns : \A e \in batch'[d] : Honest(e)'
      BY <2>0, <2>2, <1>h
    <2>5. \A p \in Procs : Honest(mem[p].snap)' /\ Honest(mem[p].want)'
      BY <2>0, <1>h DEF LedgerInv
    <2>. QED
      BY <2>0, <2>3, <2>4, <2>5, <1>h, <1>r DEF LedgerInv
  <1>2. CASE CronSelect(c)
    <2>0. PICK e \in batch[c] : /\ Select(c, e, {}, "idle")
                                /\ batch' = [batch EXCEPT ![c] = @ \ {e}]
                                /\ UNCHANGED <<tour, sold, job>>
                                /\ Goto(c, "cronUpdate")
      BY <1>2 DEF CronSelect, db
    <2>1. /\ mem'[c].want = e /\ mem'[c].snap = mem[c].snap
          /\ \A q \in Procs : q # c => mem'[q] = mem[q]
      BY <2>0, <1>0, SelectEffect
    <2>2. \A q \in Procs : q # c => pc'[q] = pc[q]
      BY <2>0 DEF Goto, TypeOK
    <2>3. \A d \in CronRuns : batch'[d] \subseteq batch[d]
      BY <2>0 DEF TypeOK
    <2>4. \A d \in CronRuns : \A f \in batch'[d] : Honest(f)'
      BY <2>0, <2>3, <1>h DEF LedgerInv
    <2>5. \A p \in Procs : Honest(mem[p].snap)' /\ Honest(mem[p].want)'
      BY <2>0, <2>1, <1>h DEF LedgerInv, Honest
    <2>. QED
      BY <2>0, <2>1, <2>2, <2>4, <2>5, <1>0, <1>h, <1>r DEF LedgerInv
  <1>3. CASE CronUpdate(c)
    <2>0. UNCHANGED <<sold, job, batch>> /\ Update(c)
      BY <1>3 DEF CronUpdate
    <2>1. \A t \in Tours : Honest(tour[t])'
      BY <2>0, <1>0, UpdateEffect
    <2>2. mem'[c] = Blank /\ \A q \in Procs : q # c => mem'[q] = mem[q] /\ pc'[q] = pc[q]
      BY <1>3, <1>0 DEF CronUpdate, Goto, TypeOK
    <2>3. Honest(mem[c].snap)' /\ Honest(mem[c].want)'
      BY <2>0, <2>2, BlankHonest, SoldIsCount DEF Honest
    <2>. QED
      BY <2>0, <2>1, <2>2, <2>3, <1>0, LedgerFrame
  <1>. QED
    BY <1>1, <1>2, <1>3 DEF Cron

LEMMA CrashLedger == ASSUME TypeOK, LedgerInv, Crash PROVE LedgerInv'
  <1>1. /\ UNCHANGED <<tour, sold, job>>
        /\ \A p \in Procs : mem'[p] = Blank
        /\ \A c \in CronRuns : batch'[c] = {}
        /\ \A r \in Requests : pc'[r] \notin Placed \cup {"order"}
    BY DEF Crash, db, Busy, Placed
  <1>2. \A p \in Procs : Honest(mem[p].snap)' /\ Honest(mem[p].want)'
    BY <1>1, BlankHonest, SoldIsCount DEF Honest
  <1>. QED
    BY <1>1, <1>2 DEF LedgerInv, Honest

LEMMA LedgerStep ==
  ASSUME PartiesAreCounts PROVE TypeOK /\ LedgerInv /\ [Next]_vars => LedgerInv'
  <1> SUFFICES ASSUME TypeOK, LedgerInv, [Next]_vars PROVE LedgerInv'
    OBVIOUS
  <1>1. ASSUME NEW r \in Requests, Arrival(r) PROVE LedgerInv'
    BY <1>1, ArrivalLedger
  <1>2. ASSUME NEW r \in Requests, Booking(r) \/ BookMail(r) PROVE LedgerInv'
    BY <1>2, BookingLedger
  <1>3. ASSUME NEW r \in Requests, Editing(r) PROVE LedgerInv'
    BY <1>3, EditingLedger
  <1>4. ASSUME NEW c \in CronRuns, Cron(c) PROVE LedgerInv'
    BY <1>4, CronLedger
  <1>5. CASE Tick \/ UNCHANGED vars
    BY <1>5 DEF Tick, vars, db, LedgerInv, Honest
  <1>6. CASE Crash
    BY <1>6, CrashLedger
  <1>. QED
    BY <1>1, <1>2, <1>3, <1>4, <1>5, <1>6 DEF Next

LEMMA InitLedger == Init => LedgerInv
  <1> SUFFICES ASSUME Init PROVE LedgerInv
    OBVIOUS
  <1>1. TypeOK
    BY InitType
  <1>2. \A t \in Tours : Honest(tour[t])
    BY DEF Init, NoRow, Honest
  <1>3. Honest(Blank.snap) /\ Honest(Blank.want)
    BY <1>1, BlankHonest DEF Init
  <1>. QED
    BY <1>1, <1>2, <1>3 DEF Init, LedgerInv, Placed

(* The strengthened invariant holds in every reachable state, when no        *)
(* request books a negative number of persons.                               *)
THEOREM LedgerHolds == ASSUME PartiesAreCounts PROVE Spec => []LedgerInv
  BY InitType, InitLedger, TypeStep, LedgerStep, PTL DEF Spec

(* For any number of overlapping requests and crashes, no tour row ever      *)
(* shows a negative number of persons or more than its confirmed orders      *)
(* carry, when no request books a negative number.                           *)
THEOREM NeverOverstates == ASSUME PartiesAreCounts PROVE Spec => []QuantityNeverOverstates
  <1>1. TypeOK /\ LedgerInv => QuantityNeverOverstates
    BY DEF LedgerInv, Honest, QuantityNeverOverstates, TypeOK
  <1>. QED
    BY <1>1, TypeCorrect, LedgerHolds, PTL

(* Only bookingTour's seat test answers 'not Enough slot'. *)
LEMMA OnlyBookRefuses ==
  ASSUME TypeOK, [Next]_vars, NEW r \in Requests,
         reply'[r] # reply[r], reply'[r] = "not Enough slot"
  PROVE  BookRead(r)
  <1> DEFINE Other == Replies \ {"not Enough slot"}
  <1>1. \A x \in Requests, m \in Replies : Answer(x, m) => x = r /\ m = "not Enough slot"
    BY DEF Answer, TypeOK
  <1>o. /\ {"oke", "error", "can not found", "booking success", "lost",
            "user bought can not delete", "This tour having in cart"} \subseteq Other
        /\ Other \subseteq Replies /\ "not Enough slot" \notin Other
    BY DEF Replies
  <1> HIDE DEF Other
  <1>2. ASSUME NEW x \in Requests, Arrival(x), ~BookRead(x)
        PROVE  FALSE
    <2>1. UNCHANGED reply \/ \E m \in Other : Answer(x, m)
      BY <1>2, <1>o, Zenon DEF Arrival, CreateTour, UpdateRead, DeleteRead, VoteRead,
                        CartCreateFind, CartDeleteFind, CartEmptyFind
    <2>. QED
      BY <2>1, <1>1, <1>o
  <1>3. ASSUME NEW x \in Requests, Booking(x) \/ BookMail(x)
        PROVE  FALSE
    <2>1. UNCHANGED reply \/ \E m \in Other : Answer(x, m)
      BY <1>3, <1>o, Zenon DEF Booking, BookOrder, BookDetail, BookLink, BookPassengers,
                      BookCounterSelect, BookFullSelect, BookCartFind,
                      BookCartRemove, BookMail
    <2>. QED
      BY <2>1, <1>1, <1>o
  <1>4. ASSUME NEW x \in Requests, Editing(x)
        PROVE  FALSE
    <2>1. UNCHANGED reply \/ \E m \in Other : Answer(x, m)
      BY <1>4, <1>o, Zenon DEF Editing, CreatePlan, UpdateCheck, UpdateSelect, UpdatePlan,
                      DeleteSelect, VoteSelect, SaveUpdate, CartInsert, CartDelete
    <2>. QED
      BY <2>1, <1>1, <1>o
  <1>5. ASSUME NEW c \in CronRuns, Cron(c)
        PROVE  FALSE
    <2>1. CronRead(c) => UNCHANGED reply
      BY DEF CronRead
    <2>2. CronSelect(c) => UNCHANGED reply
      BY DEF CronSelect
    <2>3. CronUpdate(c) => UNCHANGED reply
      BY DEF CronUpdate
    <2>. QED
      BY <1>5, <2>1, <2>2, <2>3 DEF Cron
  <1>6. CASE Tick \/ UNCHANGED vars
    BY <1>6 DEF Tick, vars
  <1>7. CASE Crash
    BY <1>7 DEF Crash
  <1>8. ASSUME NEW x \in Requests, BookRead(x)
        PROVE  BookRead(r)
    <2>1. CASE \E m \in Replies : Answer(x, m)
      BY <1>1, <1>8, <2>1
    <2>2. CASE UNCHANGED reply
      BY <2>2
    <2>. QED
      BY <1>8, <2>1, <2>2 DEF BookRead, Replies
  <1>. QED
    BY <1>2, <1>3, <1>4, <1>5, <1>6, <1>7, <1>8 DEF Next

LEMMA NotEnough ==
  \A base, shown, n \in Int : ~(base - shown >= n) => base - shown < n
  OBVIOUS

LEMMA FewerLeft ==
  \A base, shown, taken, n \in Int :
     shown <= taken /\ base - shown < n => base - taken < n
  OBVIOUS

(* A customer turned away for lack of seats would not have fitted: the       *)
(* counter the test reads is a lower bound of what is sold.                  *)
THEOREM RefusalsJustified == ASSUME PartiesAreCounts PROVE Spec => RefusalsAreJustified
  <1> DEFINE A == \A r \in Requests :
                    reply[r] # reply'[r] /\ reply'[r] = "not Enough slot" =>
                       LET t == job[r].tour
                       IN  tour[t].baseQuantity - sold[t] < job[r].party
  <1>1. TypeOK /\ QuantityNeverOverstates /\ [Next]_vars => [A]_vars
    <2> SUFFICES ASSUME TypeOK, QuantityNeverOverstates, [Next]_vars,
                        NEW r \in Requests,
                        reply[r] # reply'[r], reply'[r] = "not Enough slot"
                 PROVE  tour[job[r].tour].baseQuantity - sold[job[r].tour] < job[r].party
      OBVIOUS
    <2>1. PICK x \in Row : x = tour[job[r].tour]
      BY DEF TypeOK, Job
    <2>2. /\ x.baseQuantity \in Int /\ x.quantity \in Int /\ job[r].party \in Int
          /\ sold[job[r].tour] \in Int /\ x.quantity <= sold[job[r].tour]
      BY <2>1 DEF TypeOK, Job, Row, QuantityNeverOverstates
    <2>3. BookRead(r)
      BY OnlyBookRefuses
    <2>4. x.baseQuantity - x.quantity < job[r].party
      <3>1. \A m : Answer(r, m) => m = "not Enough slot"
        BY DEF Answer, TypeOK
      <3>2. ~EnoughSlot(tour[job[r].tour], job[r].party)
        <4>1. CASE UNCHANGED reply
          BY <4>1
        <4>2. CASE \E m \in {"can not found", "Time Registration is over"} : Answer(r, m)
          BY <4>2, <3>1
        <4>. QED
          BY <2>3, <4>1, <4>2, Zenon DEF BookRead
      <3>3. ~(x.baseQuantity - x.quantity >= job[r].party)
        BY <2>1, <3>2, Zenon DEF EnoughSlot
      <3>. QED
        BY <2>2, <3>3, NotEnough
    <2>5. x.baseQuantity - sold[job[r].tour] < job[r].party
      BY <2>2, <2>4, FewerLeft
    <2>. QED
      BY <2>1, <2>5
  <1>2. RefusalsAreJustified <=> [][A]_vars
    BY PTL DEF RefusalsAreJustified
  <1>. QED
    BY <1>1, <1>2, TypeCorrect, NeverOverstates, PTL DEF Spec

--------------------------------------------------------------------------------
(* The step simulation for SeatCounter. *)

LEMMA UpdateShows ==
  ASSUME TypeOK, LedgerInv, NEW p \in Procs, Update(p), UNCHANGED sold
  PROVE  Counter!Next
  <1>0. mem[p] \in Memory /\ mem[p].want \in Row /\ mem[p].want.id \in Tours
    BY DEF TypeOK, Memory, Row
  <1>1. PICK i \in Tours : i = mem[p].want.id
    BY <1>0
  <1>2. PICK n : tour' = [tour EXCEPT ![i] = n]
    BY <1>1 DEF Update
  <1>3. \A t \in Tours : Honest(tour[t])' /\ tour'[t].id = t
    BY UpdateEffect, UpdateType
  <1>5. tour'[i].quantity <= sold[i]
    BY <1>3 DEF Honest
  <1>6. [t \in Tours |-> tour[t].quantity]'
          = [[t \in Tours |-> tour[t].quantity] EXCEPT ![i] = tour'[i].quantity]
    BY <1>2 DEF TypeOK
  <1>7. Counter!Show(i)
    BY <1>5, <1>6 DEF Counter!Show
  <1>. QED
    BY <1>7 DEF Counter!Next

LEMMA CounterStep ==
  ASSUME PartiesAreCounts PROVE
  TypeOK /\ LedgerInv /\ [Next]_vars =>
     [Counter!Next]_<<sold, [t \in Tours |-> tour[t].quantity]>>
  <1> SUFFICES ASSUME TypeOK, LedgerInv, [Next]_vars
               PROVE  Counter!Next \/ UNCHANGED <<sold, [t \in Tours |-> tour[t].quantity]>>
    OBVIOUS
  <1>0. UNCHANGED <<sold, tour>> =>
           UNCHANGED <<sold, [t \in Tours |-> tour[t].quantity]>>
    OBVIOUS
  <1>1. ASSUME NEW r \in Requests, CreateTour(r), ~UNCHANGED tour PROVE Counter!Next
    <2>1. PICK i \in Tours : i = job[r].tour
      BY DEF TypeOK, Job
    <2>2. PICK x : tour' = [tour EXCEPT ![i] = x] /\ x.quantity = 0 /\ UNCHANGED sold
      BY <1>1, <2>1 DEF CreateTour
    <2>3. tour'[i].quantity <= sold[i]
      BY <2>2, SoldIsCount DEF TypeOK
    <2>4. [t \in Tours |-> tour[t].quantity]'
            = [[t \in Tours |-> tour[t].quantity] EXCEPT ![i] = tour'[i].quantity]
      BY <2>2 DEF TypeOK
    <2>5. Counter!Show(i)
      BY <2>2, <2>3, <2>4 DEF Counter!Show
    <2>. QED
      BY <2>5 DEF Counter!Next
  <1>2. ASSUME NEW r \in Requests, BookOrder(r), ~UNCHANGED sold PROVE Counter!Next
    <2>1. PICK i \in Tours : i = job[r].tour
      BY DEF TypeOK, Job
    <2>2. sold' = [sold EXCEPT ![i] = @ + job[r].party] /\ UNCHANGED tour
      BY <1>2, <2>1 DEF BookOrder
    <2>3. sold'[i] >= sold[i]
      BY SoldGrows
    <2>4. sold' = [sold EXCEPT ![i] = sold'[i]]
      BY <2>2 DEF TypeOK
    <2>5. UNCHANGED [t \in Tours |-> tour[t].quantity]
      BY <2>2
    <2>6. Counter!Sell(i)
      BY <2>3, <2>4, <2>5 DEF Counter!Sell
    <2>. QED
      BY <2>6 DEF Counter!Next
  <1>3. ASSUME NEW r \in Requests, SaveUpdate(r) PROVE Counter!Next
    BY <1>3, UpdateShows DEF SaveUpdate
  <1>4. ASSUME NEW c \in CronRuns, CronUpdate(c) PROVE Counter!Next
    BY <1>4, UpdateShows DEF CronUpdate
  <1>5. ASSUME NEW r \in Requests, Arrival(r) PROVE CreateTour(r) \/ UNCHANGED <<sold, tour>>
    BY <1>5 DEF Arrival, BookRead, UpdateRead, DeleteRead, VoteRead, CartCreateFind,
                CartDeleteFind, CartEmptyFind, db
  <1>6. ASSUME NEW r \in Requests, Booking(r) \/ BookMail(r)
        PROVE  BookOrder(r) \/ UNCHANGED <<sold, tour>>
    BY <1>6 DEF Booking, BookDetail, BookLink, BookPassengers, BookCounterSelect,
                BookFullSelect, BookCartFind, BookCartRemove, BookMail, db
  <1>7. ASSUME NEW r \in Requests, Editing(r)
        PROVE  SaveUpdate(r) \/ UNCHANGED <<sold, tour>>
    BY <1>7 DEF Editing, CreatePlan, UpdateCheck, UpdateSelect, UpdatePlan,
                DeleteSelect, VoteSelect, CartInsert, CartDelete, db
  <1>8. ASSUME NEW c \in CronRuns, Cron(c)
        PROVE  CronUpdate(c) \/ UNCHANGED <<sold, tour>>
    BY <1>8 DEF Cron, CronRead, CronSelect, db
  <1>9. Tick \/ Crash \/ UNCHANGED vars => UNCHANGED <<sold, tour>>
    BY DEF Tick, Crash, vars, db
  <1>10. \A r \in Requests : /\ CreateTour(r) => UNCHANGED sold
                             /\ BookOrder(r) => UNCHANGED tour
    BY DEF CreateTour, BookOrder
  <1>. QED
    BY <1>0, <1>1, <1>2, <1>3, <1>4, <1>5, <1>6, <1>7, <1>8, <1>9, <1>10 DEF Next

(* The concurrent tour service implements SeatCounter: what is sold only     *)
(* grows, and what is shown is never more than that.                         *)
THEOREM ImplementsCounter == ASSUME PartiesAreCounts PROVE Spec => CounterSpec
  <1>1. Init => Counter!Init
    BY DEF Init, Counter!Init, NoRow
  <1>2. Spec => [][Counter!Next]_<<sold, [t \in Tours |-> tour[t].quantity]>>
    BY CounterStep, TypeCorrect, LedgerHolds, PTL DEF Spec
  <1>. QED
    BY <1>1, <1>2, PTL DEF Spec, CounterSpec, Counter!Spec

----------------------------------------------------------------------
(* Statuses follow the dates.  A handler may write back a status it read    *)
(* days ago, so the row alone is not inductive: every copy in flight must   *)
(* carry the dates of its row and a status those dates allow by now.  Dates *)
(* never change once a row exists and days only pass, so a copy that was    *)
(* right stays right.  A copy read from a missing row is the exception, and *)
(* no handler gets to save one.                                             *)

Right(e) == /\ e.status = "DONE" => now > e.endDate
            /\ e.status = "TRAVELING" => now >= e.startDate

Dated(e) == e.status # "absent" =>
    /\ tour[e.id].status # "absent"
    /\ e.startDate = tour[e.id].startDate /\ e.endDate = tour[e.id].endDate
    /\ Right(e)

Writing == {"save", "full", "cronUpdate"}

Reading == {"order", "detail", "link", "passengers", "counter", "updateSave",
            "deleteSave", "voteSave"}

DatesInv ==
    /\ \A t \in Tours : Dated(tour[t])
    /\ \A p \in Procs : Dated(mem[p].snap) /\ Dated(mem[p].want)
    /\ \A c \in CronRuns : \A e \in batch[c] : e.status # "absent" /\ Dated(e)
    /\ \A p \in Procs : /\ pc[p] \in Writing => mem[p].want.status # "absent"
                        /\ pc[p] \in Reading => mem[p].snap.status # "absent"

(* What a step may do to the table and the day without making any copy wrong. *)
DatesKept ==
    /\ now <= now'
    /\ \A t \in Tours : tour[t].status # "absent" =>
          /\ tour'[t].status # "absent"
          /\ tour'[t].startDate = tour[t].startDate
          /\ tour'[t].endDate = tour[t].endDate

LEMMA StaysDated ==
  ASSUME TypeOK, TypeOK', DatesKept
  PROVE  \A e \in Row : Dated(e) => Dated(e)'
  <1> SUFFICES ASSUME NEW e \in Row, Dated(e), e.status # "absent" PROVE Dated(e)'
    BY DEF Dated
  <1>1. /\ e.id \in Tours /\ e.startDate \in Nat /\ e.endDate \in Nat
        /\ now \in Nat /\ now' \in Nat
    BY DEF TypeOK, Row
  <1>2. /\ tour[e.id].status # "absent" /\ Right(e)
        /\ e.startDate = tour[e.id].startDate /\ e.endDate = tour[e.id].endDate
    BY DEF Dated
  <1>3. Right(e)'
    BY <1>1, <1>2 DEF Right, DatesKept
  <1>. QED
    BY <1>1, <1>2, <1>3 DEF Dated, DatesKept

LEMMA BlankDated ==
  ASSUME TypeOK
  PROVE  /\ Dated(Blank.snap) /\ Dated(Blank.want)
         /\ Dated(Blank.snap)' /\ Dated(Blank.want)'
  BY DEF Blank, NoRow, Dated

(* The frame of most steps: one process moves, the rows stay right. *)
LEMMA DatesFrame ==
  ASSUME TypeOK, TypeOK', DatesInv, DatesKept, UNCHANGED batch,
         NEW p \in Procs,
         \A t \in Tours : Dated(tour[t])',
         \A q \in Procs : q # p => mem'[q] = mem[q] /\ pc'[q] = pc[q],
         Dated(mem[p].snap)', Dated(mem[p].want)',
         pc'[p] \in Writing => mem'[p].want.status # "absent",
         pc'[p] \in Reading => mem'[p].snap.status # "absent"
  PROVE  DatesInv'
  <1>1. \A q \in Procs : mem[q].snap \in Row /\ mem[q].want \in Row
    BY DEF TypeOK, Memory
  <1>2. \A c \in CronRuns : \A e \in batch[c] : e \in Row
    BY DEF TypeOK
  <1>k. \A e \in Row : Dated(e) => Dated(e)'
    BY StaysDated
  <1>3. ASSUME NEW q \in Procs, q # p PROVE Dated(mem[q].snap)' /\ Dated(mem[q].want)'
    <2>1. Dated(mem[q].snap) /\ Dated(mem[q].want)
      BY DEF DatesInv
    <2>2. mem'[q] = mem[q]
      BY <1>3
    <2>. QED
      BY <1>1, <1>k, <2>1, <2>2 DEF Dated, Right
  <1>4. ASSUME NEW c \in CronRuns, NEW e \in batch[c]
        PROVE  e.status # "absent" /\ Dated(e)'
    BY <1>2, <1>k DEF DatesInv
  <1>5. \A q \in Procs : /\ pc'[q] \in Writing => mem'[q].want.status # "absent"
                         /\ pc'[q] \in Reading => mem'[q].snap.status # "absent"
    BY DEF DatesInv
  <1>. QED
    BY <1>3, <1>4, <1>5 DEF DatesInv

(* Steps that leave the table and the day alone. *)
LEMMA DatesSame ==
  ASSUME TypeOK, TypeOK', DatesInv, UNCHANGED <<tour, now>>
  PROVE  /\ DatesKept
         /\ \A t \in Tours : Dated(tour[t])'
         /\ \A e \in Row : Dated(e) <=> Dated(e)'
  BY DEF TypeOK, DatesKept, DatesInv, Dated, Right

LEMMA AnsweredDates ==
  ASSUME TypeOK, TypeOK', DatesInv, DatesKept, UNCHANGED batch,
         \A t \in Tours : Dated(tour[t])',
         NEW r \in Requests, NEW m, Answer(r, m)
  PROVE  DatesInv'
  <1>1. /\ mem'[r] = Blank /\ pc'[r] = "done" /\ r \in Procs
        /\ \A q \in Procs : q # r => mem'[q] = mem[q] /\ pc'[q] = pc[q]
    BY DEF Answer, Goto, TypeOK
  <1>2. Dated(mem[r].snap)' /\ Dated(mem[r].want)'
    BY <1>1, BlankDated DEF Dated, Right
  <1>3. "done" \notin Writing /\ "done" \notin Reading
    BY DEF Writing, Reading
  <1>. QED
    BY <1>1, <1>2, <1>3, DatesFrame

(* A SELECT takes a copy of a row that exists into a save. *)
LEMMA SelectedDates ==
  ASSUME TypeOK, TypeOK', DatesInv, UNCHANGED <<tour, now, batch>>,
         NEW r \in Requests, NEW e \in Row, NEW omits, NEW next,
         Select(r, e, omits, next), Goto(r, "save"), Dated(e), e.status # "absent"
  PROVE  DatesInv'
  <1>1. /\ mem'[r].want = e /\ mem'[r].snap = mem[r].snap
        /\ \A q \in Procs : q # r => mem'[q] = mem[q]
    BY SelectEffect
  <1>2. pc'[r] = "save" /\ \A q \in Procs : q # r => pc'[q] = pc[q]
    BY DEF Goto, TypeOK
  <1>3. Dated(mem[r].snap)' /\ Dated(mem[r].want)'
    BY <1>1, DatesSame DEF DatesInv, Dated, Right
  <1>4. "save" \notin Reading /\ r \in Procs
    BY DEF Reading
  <1>. QED
    BY <1>1, <1>2, <1>3, <1>4, DatesSame, DatesFrame

(* The UPDATE of a copy that is right leaves a row that is right. *)
LEMMA UpdatedDates ==
  ASSUME TypeOK, TypeOK', DatesInv, NEW p \in Procs, Update(p), UNCHANGED now,
         mem[p].want.status # "absent"
  PROVE  DatesKept /\ \A t \in Tours : Dated(tour[t])'
  <1> DEFINE m == mem[p]
  <1>1. m \in Memory /\ m.want \in Row /\ m.want.id \in Tours
    BY DEF TypeOK, Memory, Row
  <1>2. PICK i \in Tours : i = m.want.id
    BY <1>1
  <1>3. PICK w \in Row : w = m.want
    BY <1>1
  <1>4. tour[i] \in Row /\ tour[i].id = i
    BY DEF TypeOK
  <1>n. PICK n : n = Merge(tour[i], w, m.dirty)
    OBVIOUS
  <1>5. /\ n.id = i /\ n.startDate = tour[i].startDate /\ n.endDate = tour[i].endDate
        /\ n.status = w.status \/ n.status = tour[i].status
    BY <1>n, <1>3, <1>2, <1>4 DEF Merge, Row
  <1>6. tour' = [tour EXCEPT ![i] = n]
    BY <1>2, <1>3, <1>n DEF Update
  <1>7. Dated(w) /\ Dated(tour[i]) /\ w.id = i /\ w.status # "absent"
    BY <1>2, <1>3 DEF DatesInv
  <1>8. tour'[i] = n /\ \A t \in Tours : t # i => tour'[t] = tour[t]
    BY <1>6 DEF TypeOK
  <1>9. /\ tour[i].status # "absent"
        /\ w.startDate = tour[i].startDate /\ w.endDate = tour[i].endDate
        /\ Right(w) /\ Right(tour[i])
    BY <1>4, <1>7 DEF Dated
  <1>10. n.status # "absent" /\ Right(n)'
    BY <1>5, <1>7, <1>9 DEF Right
  <1>11. DatesKept
    <2>1. now <= now'
      BY DEF TypeOK
    <2>. QED
      BY <2>1, <1>5, <1>8, <1>10 DEF DatesKept
  <1>12. ASSUME NEW t \in Tours PROVE Dated(tour[t])'
    <2>1. CASE t = i
      BY <2>1, <1>5, <1>8, <1>10 DEF Dated, Right
    <2>2. CASE t # i
      <3>1. tour'[t] = tour[t] /\ tour[t].id = t
        BY <2>2, <1>8 DEF TypeOK
      <3>2. Dated(tour[t])
        BY DEF DatesInv
      <3>. QED
        BY <3>1, <3>2 DEF Dated, Right
    <2>. QED
      BY <2>1, <2>2
  <1>. QED
    BY <1>11, <1>12

LEMMA BookingDates ==
  ASSUME TypeOK, TypeOK', DatesInv, NEW r \in Requests,
         BookRead(r) \/ Booking(r) \/ BookMail(r)
  PROVE  DatesInv'
  <1>0. /\ r \in Procs /\ mem[r] \in Memory /\ mem[r].snap \in Row /\ mem[r].want \in Row
        /\ job[r].tour \in Tours /\ tour[job[r].tour] \in Row /\ job[r].party \in Int
    BY DEF TypeOK, Memory, Job
  <1>u. UNCHANGED <<tour, now, batch>>
    BY Zenon DEF BookRead, Booking, BookOrder, BookDetail, BookLink, BookPassengers,
           BookCounterSelect, BookFullSelect, BookCartFind, BookCartRemove, BookMail, db
  <1>s. /\ DatesKept /\ \A t \in Tours : Dated(tour[t])'
        /\ \A e \in Row : Dated(e) <=> Dated(e)'
    BY <1>u, DatesSame
  <1>i. /\ Dated(mem[r].snap) /\ Dated(mem[r].want)
        /\ pc[r] \in Writing => mem[r].want.status # "absent"
        /\ pc[r] \in Reading => mem[r].snap.status # "absent"
    BY <1>0 DEF DatesInv
  <1>a. ASSUME \E m : Answer(r, m) PROVE DatesInv'
    BY <1>a, <1>u, <1>s, AnsweredDates
  <1>f. ASSUME mem'[r].snap = mem[r].snap, mem'[r].want = mem[r].want,
               \A q \in Procs : q # r => mem'[q] = mem[q] /\ pc'[q] = pc[q],
               pc'[r] \notin Writing,
               pc'[r] \in Reading => pc[r] \in Reading
        PROVE  DatesInv'
    <2>1. Dated(mem[r].snap)' /\ Dated(mem[r].want)'
      BY <1>f, <1>0, <1>s, <1>i DEF Dated, Right
    <2>. QED
      BY <1>f, <1>0, <1>u, <1>s, <1>i, <2>1, DatesFrame
  <1>1. CASE BookRead(r)
    <2>2. CASE /\ mem' = [mem EXCEPT ![r].snap = tour[job[r].tour]]
               /\ Goto(r, "order") /\ tour[job[r].tour].status = "AVAILABLE"
      <3>1. /\ mem'[r].snap = tour[job[r].tour] /\ mem'[r].want = mem[r].want
            /\ pc'[r] = "order"
            /\ \A q \in Procs : q # r => mem'[q] = mem[q] /\ pc'[q] = pc[q]
        BY <2>2, <1>0 DEF Goto, TypeOK, Memory
      <3>2. Dated(mem[r].snap)' /\ Dated(mem[r].want)'
        BY <1>u, <1>s, <1>i, <3>1, <1>0 DEF Dated, Right
      <3>3. "order" \notin Writing
        BY DEF Writing
      <3>. QED
        BY <1>0, <1>u, <1>s, <2>2, <3>1, <3>2, <3>3, DatesFrame
    <2>. QED
      BY <1>1, <1>a, <2>2 DEF BookRead
  <1>2. CASE BookOrder(r) \/ BookDetail(r) \/ BookLink(r) \/ BookPassengers(r)
    <2>2. CASE /\ Goto(r, "detail") \/ Goto(r, "link") \/ Goto(r, "passengers")
                  \/ Goto(r, "counter")
               /\ UNCHANGED mem /\ pc[r] \in Reading
      <3>1. /\ \A q \in Procs : mem'[q] = mem[q] /\ (q # r => pc'[q] = pc[q])
            /\ pc'[r] \notin Writing
        BY <2>2 DEF Goto, TypeOK, Writing
      <3>. QED
        BY <2>2, <3>1, <1>0, <1>f
    <2>. QED
      BY <1>2, <1>a, <2>2 DEF BookOrder, BookDetail, BookLink, BookPassengers, Reading
  <1>3. CASE BookCounterSelect(r)
    <2>1. PICK e : e = Counted(r)
      OBVIOUS
    <2>2. /\ e \in Row /\ e.status = mem[r].snap.status /\ e.id = mem[r].snap.id
          /\ e.startDate = mem[r].snap.startDate /\ e.endDate = mem[r].snap.endDate
      BY <2>1, <1>0 DEF Row, Counted
    <2>3. pc[r] \in Reading
      BY <1>3 DEF BookCounterSelect, Reading
    <2>4. Dated(e) /\ e.status # "absent"
      BY <2>2, <2>3, <1>i DEF Dated, Right
    <2>5. PICK next : Select(r, e, {}, next)
      BY <1>3, <2>1 DEF BookCounterSelect
    <2>. QED
      BY <1>3, <1>u, <2>2, <2>4, <2>5, SelectedDates DEF BookCounterSelect
  <1>4. CASE BookFullSelect(r)
    <2>1. PICK e : e = Full(r)
      OBVIOUS
    <2>2. /\ e \in Row /\ e.status = "FULL" /\ e.id = mem[r].want.id
          /\ e.startDate = mem[r].want.startDate /\ e.endDate = mem[r].want.endDate
      BY <2>1, <1>0 DEF Row, Statuses, Open, Full
    <2>3. mem[r].want.status # "absent"
      BY <1>4, <1>i DEF BookFullSelect, Writing
    <2>4. Dated(e) /\ e.status # "absent"
      BY <2>2, <2>3, <1>i DEF Dated, Right
    <2>5. Select(r, e, {}, "cart")
      BY <1>4, <2>1 DEF BookFullSelect
    <2>. QED
      BY <1>4, <1>u, <2>2, <2>4, <2>5, SelectedDates DEF BookFullSelect
  <1>5. CASE BookCartFind(r) \/ BookCartRemove(r)
    <2>1. /\ mem'[r].snap = mem[r].snap /\ mem'[r].want = mem[r].want
          /\ pc'[r] \in {"mail", "cartRemove"}
          /\ \A q \in Procs : q # r => mem'[q] = mem[q] /\ pc'[q] = pc[q]
      BY <1>5, <1>0 DEF BookCartFind, BookCartRemove, Goto, TypeOK, Memory
    <2>2. pc'[r] \notin Writing /\ pc'[r] \notin Reading
      BY <2>1 DEF Writing, Reading
    <2>. QED
      BY <2>1, <2>2, <1>f
  <1>6. CASE BookMail(r)
    BY <1>6, <1>a DEF BookMail
  <1>. QED
    BY <1>1, <1>2, <1>3, <1>4, <1>5, <1>6 DEF Booking

LEMMA EditingDates ==
  ASSUME TypeOK, TypeOK', DatesInv, NEW r \in Requests, Editing(r)
  PROVE  DatesInv'
  <1>0. /\ r \in Procs /\ mem[r] \in Memory /\ mem[r].snap \in Row /\ mem[r].want \in Row
        /\ job[r] \in Job
    BY DEF TypeOK, Memory
  <1>i. /\ Dated(mem[r].snap) /\ Dated(mem[r].want)
        /\ pc[r] \in Writing => mem[r].want.status # "absent"
        /\ pc[r] \in Reading => mem[r].snap.status # "absent"
    BY <1>0 DEF DatesInv
  <1>a. ASSUME UNCHANGED <<tour, now, batch>>, \E m : Answer(r, m) PROVE DatesInv'
    BY <1>a, AnsweredDates, DatesSame
  <1>2. CASE CreatePlan(r) \/ UpdatePlan(r) \/ CartInsert(r) \/ CartDelete(r)
    BY <1>2, <1>a DEF CreatePlan, UpdatePlan, CartInsert, CartDelete
  <1>3. CASE UpdateCheck(r)
    <2>0. UNCHANGED <<tour, now, batch>>
      BY <1>3 DEF UpdateCheck, db
    <2>2. CASE /\ mem' = [mem EXCEPT ![r].seen = plan[mem[r].snap.id]]
               /\ Goto(r, "updateSave") /\ mem[r].snap.status # "absent"
      <3>1. /\ mem'[r].snap = mem[r].snap /\ mem'[r].want = mem[r].want
            /\ pc'[r] = "updateSave"
            /\ \A q \in Procs : q # r => mem'[q] = mem[q] /\ pc'[q] = pc[q]
        BY <2>2, <1>0 DEF Goto, TypeOK, Memory
      <3>2. Dated(mem[r].snap)' /\ Dated(mem[r].want)'
        BY <2>0, <3>1, <1>0, <1>i, DatesSame DEF Dated, Right
      <3>3. "updateSave" \notin Writing
        BY DEF Writing
      <3>. QED
        BY <2>0, <2>2, <3>1, <3>2, <3>3, <1>0, DatesSame, DatesFrame
    <2>. QED
      BY <1>3, <2>0, <2>2, <1>a DEF UpdateCheck
  <1>s. ASSUME NEW e \in Row, NEW omits, NEW next, Select(r, e, omits, next),
               Goto(r, "save"), UNCHANGED <<tour, now, batch>>, pc[r] \in Reading,
               e.id = mem[r].snap.id, e.startDate = mem[r].snap.startDate,
               e.endDate = mem[r].snap.endDate,
               e.status \in {"AVAILABLE", "Delete", mem[r].snap.status}
        PROVE  DatesInv'
    <2>1. Dated(e) /\ e.status # "absent"
      BY <1>s, <1>i DEF Dated, Right
    <2>. QED
      BY <1>s, <2>1, SelectedDates
  <1>4. CASE UpdateSelect(r)
    <2>1. PICK e : e = [mem[r].snap EXCEPT !.baseQuantity = job[r].seats,
                                           !.lastRegisterDate = job[r].last,
                                           !.status = "AVAILABLE"]
      OBVIOUS
    <2>2. /\ e \in Row /\ e.id = mem[r].snap.id /\ e.startDate = mem[r].snap.startDate
          /\ e.endDate = mem[r].snap.endDate /\ e.status = "AVAILABLE"
      BY <2>1, <1>0 DEF Row, Job, Statuses, Open
    <2>3. Select(r, e, job[r].omits, "updatePlan")
      BY <1>4, <2>1 DEF UpdateSelect
    <2>. QED
      BY <1>4, <1>s, <2>2, <2>3 DEF UpdateSelect, Reading, db
  <1>5. CASE DeleteSelect(r)
    <2>1. PICK e : e = [mem[r].snap EXCEPT !.status = "Delete"]
      OBVIOUS
    <2>2. /\ e \in Row /\ e.id = mem[r].snap.id /\ e.startDate = mem[r].snap.startDate
          /\ e.endDate = mem[r].snap.endDate /\ e.status = "Delete"
      BY <2>1, <1>0 DEF Row, Statuses, Open
    <2>3. Select(r, e, {}, "done")
      BY <1>5, <2>1 DEF DeleteSelect
    <2>. QED
      BY <1>5, <1>s, <2>2, <2>3 DEF DeleteSelect, Reading, db
  <1>6. CASE VoteSelect(r)
    <2>1. PICK e : e = [mem[r].snap EXCEPT !.upVote = Toggled(mem[r].snap, job[r].user)]
      OBVIOUS
    <2>v. Toggled(mem[r].snap, job[r].user) \in SUBSET Users
      BY <1>0 DEF Row, Job, Toggled
    <2>2. /\ e \in Row /\ e.id = mem[r].snap.id /\ e.startDate = mem[r].snap.startDate
          /\ e.endDate = mem[r].snap.endDate /\ e.status = mem[r].snap.status
      BY <2>1, <2>v, <1>0 DEF Row
    <2>3. Select(r, e, {}, "done")
      BY <1>6, <2>1 DEF VoteSelect
    <2>. QED
      BY <1>6, <1>s, <2>2, <2>3 DEF VoteSelect, Reading, db
  <1>7. CASE SaveUpdate(r)
    <2>0. UNCHANGED <<now, batch>> /\ Update(r) /\ mem[r].want.status # "absent"
      BY <1>7, <1>i DEF SaveUpdate, Writing
    <2>1. DatesKept /\ \A t \in Tours : Dated(tour[t])'
      BY <2>0, <1>0, UpdatedDates
    <2>2. CASE Answer(r, "oke")
      BY <2>0, <2>1, <2>2, AnsweredDates
    <2>3. CASE Goto(r, mem[r].next) /\ UNCHANGED <<mem, reply>>
      <3>1. mem[r].next \in {"full", "cart", "updatePlan", "done", "idle"}
        BY <1>0 DEF Memory
      <3>2. /\ pc'[r] = mem[r].next
            /\ \A q \in Procs : mem'[q] = mem[q] /\ (q # r => pc'[q] = pc[q])
        BY <2>3 DEF Goto, TypeOK
      <3>3. Dated(mem[r].snap)' /\ Dated(mem[r].want)'
        BY <2>1, <2>3, <1>0, <1>i, StaysDated DEF Dated, Right
      <3>. QED
        BY <2>0, <2>1, <3>1, <3>2, <3>3, <1>0, DatesFrame DEF Reading
    <2>. QED
      BY <1>7, <2>2, <2>3 DEF SaveUpdate
  <1>. QED
    BY <1>2, <1>3, <1>4, <1>5, <1>6, <1>7 DEF Editing

LEMMA ArrivalDates ==
  ASSUME TypeOK, TypeOK', DatesInv, NEW r \in Requests, Arrival(r)
  PROVE  DatesInv'
  <1>0. /\ r \in Procs /\ mem[r] \in Memory /\ mem[r].snap \in Row /\ mem[r].want \in Row
        /\ job[r].tour \in Tours /\ tour[job[r].tour] \in Row
        /\ tour[job[r].tour].id = job[r].tour
    BY DEF TypeOK, Memory, Job
  <1>i. Dated(mem[r].snap) /\ Dated(mem[r].want) /\ \A t \in Tours : Dated(tour[t])
    BY <1>0 DEF DatesInv
  <1>a. ASSUME UNCHANGED <<tour, now, batch>>, \E m : Answer(r, m) PROVE DatesInv'
    BY <1>a, AnsweredDates, DatesSame
  <1>1. CASE BookRead(r)
    BY <1>1, BookingDates
  <1>2. CASE CreateTour(r)
    <2>0. UNCHANGED <<now, batch>> /\ tour[job[r].tour].status = "absent"
      BY <1>2 DEF CreateTour
    <2> DEFINE x == [id |-> job[r].tour, owner |-> job[r].user,
                     status |-> "AVAILABLE", quantity |-> 0,
                     baseQuantity |-> job[r].seats,
                     lastRegisterDate |-> job[r].last, startDate |-> job[r].start,
                     endDate |-> job[r].end, upVote |-> {}]
    <2>2. x.status = "AVAILABLE" /\ x.id = job[r].tour
      OBVIOUS
    <2> HIDE DEF x
    <2>3. CASE /\ tour' = [tour EXCEPT ![job[r].tour] = x]
               /\ Goto(r, "createPlan")
               /\ UNCHANGED <<mem, reply>>
      <3>0. PICK i \in Tours : i = job[r].tour
        BY <1>0
      <3>1. tour'[i] = x /\ \A t \in Tours : t # i => tour'[t] = tour[t]
        BY <2>3, <3>0 DEF TypeOK
      <3>2. DatesKept
        BY <2>0, <3>0, <3>1 DEF DatesKept, TypeOK
      <3>3. ASSUME NEW t \in Tours PROVE Dated(tour[t])'
        <4>1. CASE t = i
          BY <4>1, <2>2, <3>0, <3>1 DEF Dated, Right
        <4>2. CASE t # i
          <5>1. tour'[t] = tour[t] /\ tour[t].id = t
            BY <4>2, <3>1 DEF TypeOK
          <5>. QED
            BY <5>1, <4>2, <3>1, <2>0, <1>i DEF Dated, Right
        <4>. QED
          BY <4>1, <4>2
      <3>4. /\ pc'[r] = "createPlan"
            /\ \A q \in Procs : mem'[q] = mem[q] /\ (q # r => pc'[q] = pc[q])
        BY <2>3 DEF Goto, TypeOK
      <3>5. Dated(mem[r].snap)' /\ Dated(mem[r].want)'
        BY <2>3, <3>2, <1>0, <1>i, StaysDated DEF Dated, Right
      <3>. QED
        BY <2>0, <3>2, <3>3, <3>4, <3>5, <1>0, DatesFrame DEF Writing, Reading
    <2>. QED
      BY <1>2, <1>a, <2>3 DEF CreateTour, x
  <1>3. CASE UpdateRead(r) \/ DeleteRead(r) \/ VoteRead(r) \/ CartCreateFind(r)
             \/ CartDeleteFind(r) \/ CartEmptyFind(r)
    <2>0. UNCHANGED <<tour, now, batch>>
      BY <1>3 DEF UpdateRead, DeleteRead, VoteRead, CartCreateFind, CartDeleteFind,
                  CartEmptyFind, db
    <2>2. CASE /\ \/ /\ mem' = [mem EXCEPT ![r].snap = tour[job[r].tour]]
                     /\ \/ Goto(r, "updateCheck")
                        \/ /\ Goto(r, "deleteSave") \/ Goto(r, "voteSave")
                           /\ tour[job[r].tour].status # "absent"
                  \/ /\ UNCHANGED mem \/ \E f : mem' = [mem EXCEPT ![r].found = f]
                     /\ Goto(r, "cartInsert") \/ Goto(r, "cartDelete")
      <3>1. /\ pc'[r] \notin Writing
            /\ \A q \in Procs : q # r => pc'[q] = pc[q] /\ mem'[q] = mem[q]
        BY <2>2 DEF Goto, TypeOK, Writing
      <3>2. /\ mem'[r].want = mem[r].want
            /\ \/ mem'[r].snap = mem[r].snap /\ pc'[r] \notin Reading
               \/ /\ mem'[r].snap = tour[job[r].tour]
                  /\ pc'[r] \in Reading => tour[job[r].tour].status # "absent"
        BY <2>2, <1>0 DEF TypeOK, Memory, Goto, Reading
      <3>3. Dated(mem[r].snap)' /\ Dated(mem[r].want)'
        BY <2>0, <3>2, <1>0, <1>i, DatesSame DEF Dated, Right
      <3>. QED
        BY <2>0, <3>1, <3>2, <3>3, <1>0, DatesSame, DatesFrame
    <2>3. CASE UpdateRead(r)
      BY <2>2, <2>3 DEF UpdateRead
    <2>4. CASE DeleteRead(r)
      BY <2>0, <2>2, <2>4, <1>a DEF DeleteRead
    <2>5. CASE VoteRead(r)
      BY <2>0, <2>2, <2>5, <1>a DEF VoteRead
    <2>6. CASE CartCreateFind(r)
      BY <2>0, <2>2, <2>6, <1>a DEF CartCreateFind
    <2>7. CASE CartDeleteFind(r)
      BY <2>0, <2>2, <2>7, <1>a DEF CartDeleteFind
    <2>8. CASE CartEmptyFind(r)
      BY <2>2, <2>8 DEF CartEmptyFind
    <2>. QED
      BY <1>3, <2>3, <2>4, <2>5, <2>6, <2>7, <2>8
  <1>. QED
    BY <1>1, <1>2, <1>3 DEF Arrival

LEMMA CronDates ==
  ASSUME TypeOK, TypeOK', DatesInv, NEW c \in CronRuns, Cron(c)
  PROVE  DatesInv'
  <1>0. c \in Procs /\ mem[c] \in Memory /\ batch[c] \subseteq Row /\ now \in Nat
    BY DEF TypeOK
  <1>p. /\ {"cronSave", "idle"} \cap (Writing \cup Reading) = {}
        /\ "cronUpdate" \notin Reading /\ "cronUpdate" \in Writing
    BY DEF Writing, Reading
  <1>m. \A q \in Procs : mem[q].snap \in Row /\ mem[q].want \in Row
    BY DEF TypeOK, Memory
  <1>1. CASE CronRead(c)
    <2> DEFINE W(t, s) == [tour[t] EXCEPT !.status = s]
    <2>0. /\ batch' = [batch EXCEPT ![c] = Saves]
          /\ UNCHANGED <<tour, now, mem>> /\ Goto(c, "cronSave")
      BY <1>1 DEF CronRead, db
    <2>1. ASSUME NEW e \in Saves PROVE e.status # "absent" /\ Dated(e)
      <3>1. PICK t \in Tours, s \in {"LAST", "TRAVELING", "DONE"} : e = W(t, s)
        BY DEF Saves
      <3>2. tour[t] \in Row /\ tour[t].id = t
        BY DEF TypeOK
      <3>3. /\ e.id = t /\ e.status = s /\ e.startDate = tour[t].startDate
            /\ e.endDate = tour[t].endDate
        BY <3>1, <3>2 DEF Row
      <3>4. tour[t].status # "absent" /\ Due(e)
        BY <3>3 DEF Saves, Open
      <3>. QED
        BY <3>2, <3>3, <3>4, <1>0 DEF Dated, Right, Due, Row
    <2>2. \A d \in CronRuns : \A e \in batch'[d] : e.status # "absent" /\ Dated(e)
      BY <2>0, <2>1 DEF DatesInv, TypeOK
    <2>3. ASSUME NEW d \in CronRuns, NEW e \in batch'[d]
          PROVE  e.status # "absent" /\ Dated(e)'
      BY <2>0, <2>2 DEF Dated, Right
    <2>4. /\ pc'[c] = "cronSave"
          /\ \A q \in Procs : mem'[q] = mem[q] /\ (q # c => pc'[q] = pc[q])
      BY <2>0, <1>0 DEF Goto, TypeOK
    <2>5. ASSUME NEW q \in Procs
          PROVE  /\ pc'[q] \in Writing => mem'[q].want.status # "absent"
                 /\ pc'[q] \in Reading => mem'[q].snap.status # "absent"
      BY <2>4, <1>p DEF DatesInv
    <2>6. /\ \A t \in Tours : Dated(tour[t])'
          /\ \A q \in Procs : Dated(mem[q].snap)' /\ Dated(mem[q].want)'
      BY <2>0 DEF DatesInv, Dated, Right
    <2>. QED
      BY <2>3, <2>5, <2>6 DEF DatesInv
  <1>2. CASE CronSelect(c)
    <2>0. PICK e \in batch[c] : /\ Select(c, e, {}, "idle")
                                /\ batch' = [batch EXCEPT ![c] = @ \ {e}]
                                /\ UNCHANGED <<tour, now>>
                                /\ Goto(c, "cronUpdate")
      BY <1>2 DEF CronSelect, db
    <2>1. /\ mem'[c].want = e /\ mem'[c].snap = mem[c].snap
          /\ \A q \in Procs : q # c => mem'[q] = mem[q]
      BY <2>0, <1>0, SelectEffect
    <2>2. pc'[c] = "cronUpdate" /\ \A q \in Procs : q # c => pc'[q] = pc[q]
      BY <2>0, <1>0 DEF Goto, TypeOK
    <2>3. \A d \in CronRuns : batch'[d] \subseteq batch[d]
      BY <2>0 DEF TypeOK
    <2>4. ASSUME NEW d \in CronRuns, NEW f \in batch'[d]
          PROVE  f.status # "absent" /\ Dated(f)'
      BY <2>0, <2>3 DEF DatesInv, Dated, Right
    <2>5. e.status # "absent" /\ Dated(e)
      BY <1>0 DEF DatesInv
    <2>6. ASSUME NEW q \in Procs PROVE Dated(mem[q].snap)' /\ Dated(mem[q].want)'
      BY <2>0, <2>1, <2>5 DEF DatesInv, Dated, Right
    <2>7. ASSUME NEW q \in Procs
          PROVE  /\ pc'[q] \in Writing => mem'[q].want.status # "absent"
                 /\ pc'[q] \in Reading => mem'[q].snap.status # "absent"
      BY <2>1, <2>2, <2>5, <1>p DEF DatesInv
    <2>8. \A t \in Tours : Dated(tour[t])'
      BY <2>0, DatesSame
    <2>. QED
      BY <2>4, <2>6, <2>7, <2>8 DEF DatesInv
  <1>3. CASE CronUpdate(c)
    <2>0. /\ UNCHANGED <<now, batch>> /\ Update(c)
          /\ mem[c].want.status # "absent"
      BY <1>3, <1>0, <1>p DEF CronUpdate, DatesInv
    <2>1. DatesKept /\ \A t \in Tours : Dated(tour[t])'
      BY <2>0, <1>0, UpdatedDates
    <2>2. /\ mem'[c] = Blank /\ pc'[c] \in {"cronSave", "idle"}
          /\ \A q \in Procs : q # c => mem'[q] = mem[q] /\ pc'[q] = pc[q]
      BY <1>3, <1>0 DEF CronUpdate, Goto, TypeOK
    <2>3. Dated(mem[c].snap)' /\ Dated(mem[c].want)'
      BY <2>2, BlankDated DEF Dated, Right
    <2>. QED
      BY <2>0, <2>1, <2>2, <2>3, <1>0, <1>p, DatesFrame
  <1>. QED
    BY <1>1, <1>2, <1>3 DEF Cron

LEMMA DatesStep == TypeOK /\ DatesInv /\ [Next]_vars => DatesInv'
  <1> SUFFICES ASSUME TypeOK, DatesInv, [Next]_vars PROVE DatesInv'
    OBVIOUS
  <1>0. TypeOK'
    BY TypeStep
  <1>1. ASSUME NEW r \in Requests, Arrival(r) PROVE DatesInv'
    BY <1>0, <1>1, ArrivalDates
  <1>2. ASSUME NEW r \in Requests, Booking(r) \/ BookMail(r) PROVE DatesInv'
    BY <1>0, <1>2, BookingDates
  <1>3. ASSUME NEW r \in Requests, Editing(r) PROVE DatesInv'
    BY <1>0, <1>3, EditingDates
  <1>4. ASSUME NEW c \in CronRuns, Cron(c) PROVE DatesInv'
    BY <1>0, <1>4, CronDates
  <1>5. CASE Tick
    <2>1. UNCHANGED <<tour, pc, mem, batch>> /\ now' = now + 1 /\ now \in Nat
      BY <1>5 DEF Tick, db, TypeOK
    <2>2. DatesKept
      BY <2>1 DEF DatesKept
    <2>3. \A t \in Tours : tour[t] \in Row
      BY DEF TypeOK
    <2>4. \A q \in Procs : mem[q].snap \in Row /\ mem[q].want \in Row
      BY DEF TypeOK, Memory
    <2>5. \A d \in CronRuns : \A e \in batch[d] : e \in Row
      BY DEF TypeOK
    <2>6. \A e \in Row : Dated(e) => Dated(e)'
      BY <1>0, <2>2, StaysDated
    <2>7. \A t \in Tours : Dated(tour[t])'
      BY <2>1, <2>3, <2>6 DEF DatesInv, Dated, Right
    <2>8. \A q \in Procs : Dated(mem[q].snap)' /\ Dated(mem[q].want)'
      BY <2>1, <2>4, <2>6 DEF DatesInv, Dated, Right
    <2>9. \A d \in CronRuns : \A e \in batch'[d] : e.status # "absent" /\ Dated(e)'
      BY <2>1, <2>5, <2>6 DEF DatesInv
    <2>. QED
      BY <2>1, <2>7, <2>8, <2>9 DEF DatesInv
  <1>6. CASE UNCHANGED vars
    BY <1>6 DEF vars, DatesInv, Dated, Right
  <1>7. CASE Crash
    <2>1. /\ UNCHANGED <<tour, now>>
          /\ \A p \in Procs : mem'[p] = Blank /\ pc'[p] \notin Writing \cup Reading
          /\ \A c \in CronRuns : batch'[c] = {}
      BY <1>7 DEF Crash, db, Busy, Writing, Reading
    <2>2. \A p \in Procs : Dated(mem[p].snap)' /\ Dated(mem[p].want)'
      BY <2>1, BlankDated DEF Dated, Right
    <2>3. \A t \in Tours : Dated(tour[t])'
      BY <2>1, <1>0, DatesSame
    <2>. QED
      BY <2>1, <2>2, <2>3 DEF DatesInv
  <1>. QED
    BY <1>1, <1>2, <1>3, <1>4, <1>5, <1>6, <1>7 DEF Next

LEMMA InitDates == Init => DatesInv
  <1> SUFFICES ASSUME Init PROVE DatesInv
    OBVIOUS
  <1>1. TypeOK
    BY InitType
  <1>2. \A t \in Tours : Dated(tour[t])
    BY DEF Init, NoRow, Dated
  <1>3. \A p \in Procs : mem[p] = Blank /\ pc[p] \notin Writing \cup Reading
    BY DEF Init, Writing, Reading
  <1>. QED
    BY <1>1, <1>2, <1>3, BlankDated DEF Init, DatesInv

(* Whatever stale statuses handlers, the status job and crashes leave behind, *)
(* no tour is DONE before its end or TRAVELING before its start: what the     *)
(* status job computes and every other save may only copy.                    *)
THEOREM DatesFollowed == Spec => []StatusFollowsDates
  <1>1. TypeOK /\ DatesInv => StatusFollowsDates
    <2> SUFFICES ASSUME TypeOK, DatesInv, NEW t \in Tours PROVE Right(tour[t])
      BY DEF StatusFollowsDates, Right
    <2>1. Dated(tour[t]) /\ tour[t].status \in {"DONE", "TRAVELING"} => Right(tour[t])
      BY DEF Dated
    <2>. QED
      BY <2>1 DEF DatesInv, Right
  <1>2. Spec => []DatesInv
    BY InitType, InitDates, TypeStep, DatesStep, PTL DEF Spec
  <1>. QED
    BY <1>1, <1>2, TypeCorrect, PTL

--------------------------------------------------------------------------------
(* One handler at a time.  When the manager runs at most one handler or cron *)
(* run, the one that is busy alone touches the tables, so what it read is    *)
(* still stored when it saves.  AloneInv says so for each program counter:   *)
(* Kinded, which requests can be there; View, how what they hold relates to  *)
(* the row of their tour; CronView, how the objects of a cron run relate to  *)
(* theirs.  It needs neither accepted rows nor a manager that stays alive.   *)

Quiet == \A p, q \in Busy : p = q

BookPcs == {"order", "detail", "link", "passengers", "counter", "full", "cart",
            "cartRemove", "mail"}

Kinded(r) ==
    LET k == job[r].kind IN
    /\ pc[r] \notin {"idle", "cronSave", "cronUpdate"}
    /\ pc[r] \in BookPcs => k = "book"
    /\ pc[r] = "createPlan" => k = "create"
    /\ pc[r] \in {"updateCheck", "updateSave", "updatePlan"} => k = "update"
    /\ pc[r] = "deleteSave" => k = "delete"
    /\ pc[r] = "voteSave" => k = "vote"
    /\ pc[r] = "cartInsert" => k = "addToCart"
    /\ pc[r] = "cartDelete" => k \in {"dropFromCart", "emptyCart"}
    /\ pc[r] = "save" => \/ k \in {"delete", "vote"} /\ mem[r].next = "done"
                         \/ k = "book" /\ mem[r].next \in {"full", "cart"}
                         \/ k = "update" /\ mem[r].next = "updatePlan"
    /\ pc[r] # "done" => reply[r] = "none"

(* The row that the save in progress will leave. *)
Outcome(p) == Merge(tour[mem[p].want.id], mem[p].want, mem[p].dirty)

Refits(x, j) == "baseQuantity" \in j.omits \/ j.seats >= x.quantity

Holds == {"order", "detail", "link", "passengers", "counter", "updateCheck",
          "updateSave", "deleteSave", "voteSave"}

View(r) ==
    LET x == tour[job[r].tour]
        k == job[r].kind
        m == mem[r]
    IN  /\ pc[r] \in Holds => m.snap = x
        /\ pc[r] = "order" => EnoughSlot(x, job[r].party)
        /\ pc[r] = "updateSave" => Refits(x, job[r])
        /\ pc[r] = "updatePlan" => x.status # "absent"
        /\ pc[r] \in {"save", "full"} => m.want.id = job[r].tour
        /\ pc[r] = "full" => /\ m.want.quantity = x.quantity
                             /\ m.want.baseQuantity = x.baseQuantity
                             /\ m.want.upVote = x.upVote
        /\ pc[r] = "save" =>
              /\ Outcome(r).upVote = IF k = "vote" THEN Toggled(x, job[r].user)
                                     ELSE x.upVote
              /\ Outcome(r).quantity = IF k = "book" THEN m.want.quantity
                                       ELSE x.quantity
              /\ \/ Outcome(r).baseQuantity = x.baseQuantity
                 \/ /\ k = "update" /\ Refits(x, job[r])
                    /\ Outcome(r).baseQuantity = job[r].seats
                    /\ "baseQuantity" \notin job[r].omits
              /\ k = "book" => /\ m.want.baseQuantity = x.baseQuantity
                               /\ m.want.upVote = x.upVote

(* Two rows with the same seats and votes. *)
Same(e, x) == /\ e.quantity = x.quantity /\ e.baseQuantity = x.baseQuantity
              /\ e.upVote = x.upVote

CronView(c) ==
    /\ pc[c] \in {"idle", "cronSave", "cronUpdate"}
    /\ pc[c] # "idle" => \A e \in batch[c] : Same(e, tour[e.id])
    /\ pc[c] = "cronUpdate" => Same(Outcome(c), tour[mem[c].want.id])

AloneInv ==
    /\ Quiet
    /\ \A r \in Requests : job[r] \in Asks[r] /\ Kinded(r) /\ View(r)
    /\ \A c \in CronRuns : CronView(c)

LEMMA EmptyWhenAlone ==
  ASSUME MaxInFlight <= 1, Quiet, Cardinality(Busy) < MaxInFlight
  PROVE  Busy = {}
  <1> SUFFICES ASSUME NEW p \in Busy PROVE FALSE
    OBVIOUS
  <1>1. Busy = {p}
    BY DEF Quiet
  <1>2. Cardinality(Busy) = 1
    BY <1>1, FS_Singleton
  <1>. QED
    BY <1>2, ConstantsAssumption

(* What a SELECT decides to write: the row the UPDATE will leave agrees with *)
(* the saved object in the columns the object defines.                       *)
LEMMA SelectOutcome ==
  ASSUME TypeOK, NEW p \in Procs, NEW e \in Row, NEW omits, NEW next,
         Select(p, e, omits, next), UNCHANGED tour
  PROVE  /\ mem'[p].next = next
         /\ Outcome(p)'.quantity = IF "quantity" \in omits THEN tour[e.id].quantity
                                   ELSE e.quantity
         /\ Outcome(p)'.baseQuantity = IF "baseQuantity" \in omits
                                       THEN tour[e.id].baseQuantity ELSE e.baseQuantity
         /\ "upVote" \notin omits => Outcome(p)'.upVote = e.upVote
  <1>1. PICK extra \in SUBSET {"upVote"} :
           mem' = [mem EXCEPT ![p].want = e, ![p].next = next,
                     ![p].dirty = extra \cup {c \in Columns \ omits :
                                                e[c] # tour[e.id][c]}]
    BY DEF Select
  <1>2. PICK d : d = extra \cup {c \in Columns \ omits : e[c] # tour[e.id][c]}
    OBVIOUS
  <1>3. mem' = [mem EXCEPT ![p].want = e, ![p].next = next, ![p].dirty = d]
    BY <1>1, <1>2
  <1>4. mem[p] \in Memory /\ mem \in [Procs -> Memory]
    BY DEF TypeOK
  <1>5. mem'[p].want = e /\ mem'[p].dirty = d /\ mem'[p].next = next
    BY <1>3, <1>4 DEF Memory
  <1>6. PICK x \in Row : x = tour[e.id]
    BY DEF TypeOK, Row
  <1>7. Outcome(p)' = Merge(x, e, d)
    BY <1>5, <1>6 DEF Outcome
  <1>8. /\ "quantity" \in d <=> "quantity" \notin omits /\ e["quantity"] # x["quantity"]
        /\ "baseQuantity" \in d <=>
             "baseQuantity" \notin omits /\ e["baseQuantity"] # x["baseQuantity"]
        /\ "upVote" \notin omits /\ "upVote" \notin d => e["upVote"] = x["upVote"]
    BY <1>2, <1>6 DEF Columns
  <1>9. /\ Merge(x, e, d).quantity = IF "quantity" \in d THEN e.quantity ELSE x.quantity
        /\ Merge(x, e, d).baseQuantity
             = IF "baseQuantity" \in d THEN e.baseQuantity ELSE x.baseQuantity
        /\ Merge(x, e, d).upVote = IF "upVote" \in d THEN e.upVote ELSE x.upVote
    BY DEF Merge, Row
  <1>. QED
    BY <1>5, <1>6, <1>7, <1>8, <1>9

LEMMA AloneFrame ==
  ASSUME TypeOK, AloneInv, NEW p \in Procs, \A q \in Busy : q = p, UNCHANGED job,
         \A q \in Procs : q # p => pc'[q] = pc[q],
         \A q \in Requests : q # p => reply'[q] = reply[q],
         p \in Requests => Kinded(p)' /\ View(p)',
         p \in CronRuns => CronView(p)'
  PROVE  AloneInv'
  <1>1. \A q \in Procs : q # p => pc[q] \in {"new", "done", "idle"} /\ pc'[q] = pc[q]
    BY DEF Busy
  <1>2. Quiet'
    BY <1>1 DEF Quiet, Busy
  <1>3. ASSUME NEW q \in Requests, q # p PROVE Kinded(q)' /\ View(q)'
    <2>1. pc'[q] \in {"new", "done"} /\ reply'[q] = reply[q] /\ job'[q] = job[q] /\ pc'[q] = pc[q]
      BY <1>1, <1>3 DEF AloneInv, Kinded
    <2>2. Kinded(q)
      BY DEF AloneInv
    <2>3. Kinded(q)'
      BY <2>1, <2>2 DEF Kinded, BookPcs
    <2>4. View(q)'
      BY <2>1 DEF View, Holds
    <2>. QED
      BY <2>3, <2>4
  <1>4. ASSUME NEW c \in CronRuns, c # p PROVE CronView(c)'
    <2>1. pc'[c] = "idle"
      BY <1>1, <1>4 DEF AloneInv, CronView
    <2>. QED
      BY <2>1 DEF CronView
  <1>5. \A r \in Requests : job'[r] \in Asks[r]
    BY DEF AloneInv
  <1>. QED
    BY <1>2, <1>3, <1>4, <1>5 DEF AloneInv

LEMMA AnsweredAlone ==
  ASSUME TypeOK, AloneInv, NEW r \in Requests, \A q \in Busy : q = r, UNCHANGED job,
         NEW m, Answer(r, m)
  PROVE  AloneInv'
  <1>1. /\ pc'[r] = "done" /\ \A q \in Procs : q # r => pc'[q] = pc[q]
        /\ \A q \in Requests : q # r => reply'[q] = reply[q]
    BY DEF Answer, Goto, TypeOK
  <1>2. Kinded(r)' /\ View(r)'
    BY <1>1 DEF Kinded, View, BookPcs, Holds
  <1>3. r \notin CronRuns
    BY ConstantsAssumption
  <1>. QED
    BY <1>1, <1>2, <1>3, AloneFrame

LEMMA MovedAlone ==
  ASSUME TypeOK, AloneInv, NEW r \in Requests, \A q \in Busy : q = r, UNCHANGED job,
         NEW l, Goto(r, l), UNCHANGED reply, Kinded(r)', View(r)'
  PROVE  AloneInv'
  <1>1. \A q \in Procs : q # r => pc'[q] = pc[q]
    BY DEF Goto, TypeOK
  <1>3. r \notin CronRuns
    BY ConstantsAssumption
  <1>. QED
    BY <1>1, <1>3, AloneFrame

(* The one handler that is busy is the one that moves. *)
LEMMA OnlyBusy ==
  ASSUME TypeOK, AloneInv, NEW p \in Procs, pc[p] \notin {"new", "done", "idle"}
  PROVE  \A q \in Busy : q = p
  BY DEF AloneInv, Quiet, Busy

LEMMA BookingAlone ==
  ASSUME MaxInFlight <= 1, TypeOK, AloneInv, NEW r \in Requests,
         BookRead(r) \/ Booking(r) \/ BookMail(r)
  PROVE  AloneInv'
  <1>0. /\ r \in Procs /\ mem[r] \in Memory /\ mem[r].snap \in Row /\ mem[r].want \in Row
        /\ job[r].tour \in Tours /\ tour[job[r].tour] \in Row /\ job[r].party \in Int
        /\ tour[job[r].tour].id = job[r].tour
    BY DEF TypeOK, Memory, Job
  <1>v. Kinded(r) /\ View(r)
    BY DEF AloneInv
  <1>u. UNCHANGED <<tour, job>>
    BY Zenon DEF BookRead, Booking, BookOrder, BookDetail, BookLink, BookPassengers,
           BookCounterSelect, BookFullSelect, BookCartFind, BookCartRemove, BookMail, db
  <1>b. \A q \in Busy : q = r
    <2>1. CASE BookRead(r)
      BY <2>1, EmptyWhenAlone DEF BookRead, Arrives, AloneInv
    <2>2. CASE ~BookRead(r)
      <3>1. pc[r] \notin {"new", "done", "idle"}
        BY <2>2 DEF Booking, BookOrder, BookDetail, BookLink, BookPassengers,
           BookCounterSelect, BookFullSelect, BookCartFind, BookCartRemove, BookMail
      <3>. QED
        BY <3>1, <1>0, OnlyBusy
    <2>. QED
      BY <2>1, <2>2
  <1>a. ASSUME \E m : Answer(r, m) PROVE AloneInv'
    BY <1>a, <1>b, <1>u, AnsweredAlone
  <1>1. CASE BookRead(r)
    <2>2. CASE /\ mem' = [mem EXCEPT ![r].snap = tour[job[r].tour]]
               /\ Goto(r, "order") /\ EnoughSlot(tour[job[r].tour], job[r].party)
               /\ UNCHANGED reply
      <3>1. mem'[r].snap = tour[job[r].tour] /\ pc'[r] = "order"
        BY <2>2, <1>0 DEF Goto, TypeOK, Memory
      <3>2. job[r].kind = "book" /\ reply[r] = "none"
        BY <1>1, <1>v DEF BookRead, Arrives, Kinded
      <3>3. Kinded(r)'
        BY <2>2, <3>1, <3>2, <1>u DEF Kinded, BookPcs
      <3>4. View(r)'
        BY <2>2, <3>1, <1>u DEF View, Holds
      <3>. QED
        BY <1>b, <1>u, <2>2, <3>3, <3>4, MovedAlone
    <2>. QED
      BY <1>1, <1>a, <2>2 DEF BookRead
  <1>2. CASE BookOrder(r) \/ BookDetail(r) \/ BookLink(r) \/ BookPassengers(r)
    <2>2. CASE /\ \E l \in Placed : Goto(r, l)
               /\ UNCHANGED <<mem, reply>> /\ pc[r] \in {"order"} \cup Placed
      <3>1. PICK l \in Placed : Goto(r, l) /\ pc'[r] = l
        BY <2>2, <1>0 DEF Goto, TypeOK
      <3>3. Kinded(r)'
        BY <2>2, <3>1, <1>v, <1>u DEF Kinded, BookPcs, Placed
      <3>4. View(r)'
        BY <2>2, <3>1, <1>v, <1>u DEF View, Holds, Placed
      <3>. QED
        BY <1>b, <1>u, <2>2, <3>1, <3>3, <3>4, MovedAlone
    <2>. QED
      BY <1>2, <1>a, <2>2 DEF BookOrder, BookDetail, BookLink, BookPassengers, Placed
  <1>3. CASE BookCounterSelect(r)
    <2>1. PICK e : e = Counted(r)
      OBVIOUS
    <2>k. job[r].kind = "book" /\ mem[r].snap = tour[job[r].tour] /\ reply[r] = "none"
      BY <1>3, <1>v DEF BookCounterSelect, Kinded, View, BookPcs, Holds
    <2>2. /\ e \in Row /\ e.id = job[r].tour
          /\ e.baseQuantity = tour[job[r].tour].baseQuantity
          /\ e.upVote = tour[job[r].tour].upVote
      BY <2>1, <2>k, <1>0 DEF Row, Counted
    <2>5. PICK next \in {"full", "cart"} : Select(r, e, {}, next)
      BY <1>3, <2>1 DEF BookCounterSelect
    <2>6. /\ mem'[r].next = next /\ mem'[r].want = e
          /\ Outcome(r)'.quantity = e.quantity
          /\ Outcome(r)'.baseQuantity = e.baseQuantity
          /\ Outcome(r)'.upVote = e.upVote
      BY <2>2, <2>5, <1>0, <1>u, SelectOutcome, SelectEffect
    <2>7. pc'[r] = "save" /\ Goto(r, "save") /\ UNCHANGED reply
      BY <1>3, <1>0 DEF BookCounterSelect, Goto, TypeOK
    <2>8. Kinded(r)'
      BY <2>6, <2>7, <2>k, <1>u DEF Kinded, BookPcs
    <2>9. View(r)'
      BY <2>2, <2>6, <2>7, <2>k, <1>u DEF View, Holds
    <2>. QED
      BY <1>b, <1>u, <2>7, <2>8, <2>9, MovedAlone
  <1>4. CASE BookFullSelect(r)
    <2>1. PICK e : e = Full(r)
      OBVIOUS
    <2>k. /\ job[r].kind = "book" /\ reply[r] = "none" /\ mem[r].want.id = job[r].tour
          /\ mem[r].want.quantity = tour[job[r].tour].quantity
          /\ mem[r].want.baseQuantity = tour[job[r].tour].baseQuantity
          /\ mem[r].want.upVote = tour[job[r].tour].upVote
      BY <1>4, <1>v DEF BookFullSelect, Kinded, View, BookPcs, Holds
    <2>2. /\ e \in Row /\ e.id = job[r].tour
          /\ e.baseQuantity = tour[job[r].tour].baseQuantity
          /\ e.upVote = tour[job[r].tour].upVote
      BY <2>1, <2>k, <1>0 DEF Row, Statuses, Open, Full
    <2>5. Select(r, e, {}, "cart")
      BY <1>4, <2>1 DEF BookFullSelect
    <2>6. /\ mem'[r].next = "cart" /\ mem'[r].want = e
          /\ Outcome(r)'.quantity = e.quantity
          /\ Outcome(r)'.baseQuantity = e.baseQuantity
          /\ Outcome(r)'.upVote = e.upVote
      BY <2>2, <2>5, <1>0, <1>u, SelectOutcome, SelectEffect
    <2>7. pc'[r] = "save" /\ Goto(r, "save") /\ UNCHANGED reply
      BY <1>4, <1>0 DEF BookFullSelect, Goto, TypeOK
    <2>8. Kinded(r)'
      BY <2>6, <2>7, <2>k, <1>u DEF Kinded, BookPcs
    <2>9. View(r)'
      BY <2>2, <2>6, <2>7, <2>k, <1>u DEF View, Holds
    <2>. QED
      BY <1>b, <1>u, <2>7, <2>8, <2>9, MovedAlone
  <1>5. CASE BookCartFind(r) \/ BookCartRemove(r)
    <2>1. PICK l \in {"mail", "cartRemove"} : Goto(r, l)
      BY <1>5 DEF BookCartFind, BookCartRemove
    <2>2. pc'[r] = l /\ UNCHANGED reply /\ pc[r] \in {"cart", "cartRemove"}
      BY <1>5, <2>1, <1>0 DEF BookCartFind, BookCartRemove, Goto, TypeOK
    <2>3. Kinded(r)'
      BY <2>2, <1>v, <1>u DEF Kinded, BookPcs
    <2>4. View(r)'
      BY <2>2 DEF View, Holds
    <2>. QED
      BY <1>b, <1>u, <2>1, <2>2, <2>3, <2>4, MovedAlone
  <1>6. CASE BookMail(r)
    BY <1>6, <1>a DEF BookMail
  <1>. QED
    BY <1>1, <1>2, <1>3, <1>4, <1>5, <1>6 DEF Booking

LEMMA ArrivalAlone ==
  ASSUME MaxInFlight <= 1, TypeOK, AloneInv, NEW r \in Requests, Arrival(r)
  PROVE  AloneInv'
  <1>0. /\ r \in Procs /\ mem[r] \in Memory /\ job[r].tour \in Tours
    BY DEF TypeOK, Job
  <1>n. pc[r] = "new" /\ Cardinality(Busy) < MaxInFlight
    BY DEF Arrival, BookRead, CreateTour, UpdateRead, DeleteRead, VoteRead,
           CartCreateFind, CartDeleteFind, CartEmptyFind, Arrives
  <1>b. \A q \in Busy : q = r
    BY <1>n, EmptyWhenAlone DEF AloneInv
  <1>u. UNCHANGED job
    BY DEF Arrival, BookRead, CreateTour, UpdateRead, DeleteRead, VoteRead,
           CartCreateFind, CartDeleteFind, CartEmptyFind
  <1>v. reply[r] = "none"
    BY <1>n DEF AloneInv, Kinded
  <1>a. ASSUME \E m : Answer(r, m) PROVE AloneInv'
    BY <1>a, <1>b, <1>u, AnsweredAlone
  <1>h. ASSUME UNCHANGED <<tour, reply>>, mem' = [mem EXCEPT ![r].snap = tour[job[r].tour]],
               NEW l, Goto(r, l),
               \/ l = "updateCheck" /\ job[r].kind = "update"
               \/ l = "deleteSave" /\ job[r].kind = "delete"
               \/ l = "voteSave" /\ job[r].kind = "vote"
        PROVE  AloneInv'
    <2>1. mem'[r].snap = tour[job[r].tour] /\ pc'[r] = l
      BY <1>h, <1>0 DEF Goto, TypeOK, Memory
    <2>2. Kinded(r)'
      BY <1>h, <2>1, <1>u, <1>v DEF Kinded, BookPcs
    <2>3. View(r)'
      BY <1>h, <2>1, <1>u DEF View, Holds
    <2>. QED
      BY <1>h, <1>b, <1>u, <2>2, <2>3, MovedAlone
  <1>c. ASSUME UNCHANGED reply, NEW l, Goto(r, l),
               \/ l = "createPlan" /\ job[r].kind = "create"
               \/ l = "cartInsert" /\ job[r].kind = "addToCart"
               \/ l = "cartDelete" /\ job[r].kind \in {"dropFromCart", "emptyCart"}
        PROVE  AloneInv'
    <2>1. pc'[r] = l
      BY <1>c, <1>0 DEF Goto, TypeOK
    <2>2. Kinded(r)'
      BY <1>c, <2>1, <1>u, <1>v DEF Kinded, BookPcs
    <2>3. View(r)'
      BY <1>c, <2>1 DEF View, Holds
    <2>. QED
      BY <1>c, <1>b, <1>u, <2>2, <2>3, MovedAlone
  <1>1. CASE BookRead(r)
    BY <1>1, BookingAlone
  <1>2. CASE CreateTour(r)
    BY <1>2, <1>a, <1>c DEF CreateTour, Arrives
  <1>3. CASE UpdateRead(r)
    BY <1>3, <1>h DEF UpdateRead, Arrives, db
  <1>4. CASE DeleteRead(r)
    BY <1>4, <1>a, <1>h DEF DeleteRead, Arrives, db
  <1>5. CASE VoteRead(r)
    BY <1>5, <1>a, <1>h DEF VoteRead, Arrives, db
  <1>6. CASE CartCreateFind(r)
    BY <1>6, <1>a, <1>c DEF CartCreateFind, Arrives
  <1>7. CASE CartDeleteFind(r)
    BY <1>7, <1>a, <1>c DEF CartDeleteFind, Arrives
  <1>8. CASE CartEmptyFind(r)
    BY <1>8, <1>c DEF CartEmptyFind, Arrives
  <1>. QED
    BY <1>1, <1>2, <1>3, <1>4, <1>5, <1>6, <1>7, <1>8 DEF Arrival

(* The UPDATE writes the outcome of the save and no other row. *)
LEMMA UpdateOutcome ==
  ASSUME TypeOK, NEW p \in Procs, Update(p)
  PROVE  /\ mem[p].want.id \in Tours
         /\ tour'[mem[p].want.id] = Outcome(p)
         /\ \A t \in Tours : t # mem[p].want.id => tour'[t] = tour[t]
  <1>1. mem[p].want.id \in Tours
    BY DEF TypeOK, Memory, Row
  <1>2. tour' = [tour EXCEPT ![mem[p].want.id] = Outcome(p)]
    BY DEF Update, Outcome
  <1>. QED
    BY <1>1, <1>2 DEF TypeOK

LEMMA EditingAlone ==
  ASSUME MaxInFlight <= 1, TypeOK, DatesInv, DatesInv', AloneInv,
         NEW r \in Requests, Editing(r)
  PROVE  AloneInv'
  <1>0. /\ r \in Procs /\ mem[r] \in Memory /\ mem[r].snap \in Row /\ mem[r].want \in Row
        /\ job[r].tour \in Tours /\ tour[job[r].tour] \in Row /\ job[r] \in Job
        /\ tour[job[r].tour].id = job[r].tour
    BY DEF TypeOK, Memory, Job
  <1>v. Kinded(r) /\ View(r)
    BY DEF AloneInv
  <1>u. UNCHANGED job
    BY DEF Editing, CreatePlan, UpdatePlan, CartInsert, CartDelete, UpdateCheck,
           UpdateSelect, DeleteSelect, VoteSelect, SaveUpdate
  <1>b. \A q \in Busy : q = r
    <2>1. pc[r] \notin {"new", "done", "idle"}
      BY DEF Editing, CreatePlan, UpdatePlan, CartInsert, CartDelete, UpdateCheck,
             UpdateSelect, DeleteSelect, VoteSelect, SaveUpdate
    <2>. QED
      BY <2>1, <1>0, OnlyBusy
  <1>a. ASSUME \E m : Answer(r, m) PROVE AloneInv'
    BY <1>a, <1>b, <1>u, AnsweredAlone
  <1>2. CASE CreatePlan(r) \/ UpdatePlan(r) \/ CartInsert(r) \/ CartDelete(r)
    BY <1>2, <1>a DEF CreatePlan, UpdatePlan, CartInsert, CartDelete
  <1>3. CASE UpdateCheck(r)
    <2>k. job[r].kind = "update" /\ mem[r].snap = tour[job[r].tour] /\ reply[r] = "none"
      BY <1>3, <1>v DEF UpdateCheck, Kinded, View, Holds
    <2>2. CASE /\ mem' = [mem EXCEPT ![r].seen = plan[mem[r].snap.id]]
               /\ Goto(r, "updateSave") /\ ~SmallerThanBought(mem[r].snap, job[r])
               /\ UNCHANGED reply
      <3>1. mem'[r].snap = mem[r].snap /\ pc'[r] = "updateSave" /\ UNCHANGED tour
        BY <1>3, <2>2, <1>0 DEF UpdateCheck, Goto, TypeOK, Memory, db
      <3>2. Refits(tour[job[r].tour], job[r])
        BY <2>2, <2>k, <1>0 DEF SmallerThanBought, Refits, Row, Job
      <3>3. Kinded(r)'
        BY <2>2, <3>1, <2>k, <1>u DEF Kinded, BookPcs
      <3>4. View(r)'
        BY <3>1, <3>2, <2>k, <1>u DEF View, Holds
      <3>. QED
        BY <1>b, <1>u, <2>2, <3>3, <3>4, MovedAlone
    <2>. QED
      BY <1>3, <2>2, <1>a DEF UpdateCheck
  <1>4. CASE UpdateSelect(r)
    <2>k. /\ job[r].kind = "update" /\ mem[r].snap = tour[job[r].tour] /\ reply[r] = "none"
          /\ Refits(tour[job[r].tour], job[r])
      BY <1>4, <1>v DEF UpdateSelect, Kinded, View, Holds
    <2>1. PICK e : e = [mem[r].snap EXCEPT !.baseQuantity = job[r].seats,
                                           !.lastRegisterDate = job[r].last,
                                           !.status = "AVAILABLE"]
      OBVIOUS
    <2>2. /\ e \in Row /\ e.id = job[r].tour /\ e.baseQuantity = job[r].seats
          /\ e.quantity = tour[job[r].tour].quantity
          /\ e.upVote = tour[job[r].tour].upVote
      BY <2>1, <2>k, <1>0 DEF Row, Job, Statuses, Open
    <2>3. Select(r, e, job[r].omits, "updatePlan") /\ UNCHANGED tour
      BY <1>4, <2>1 DEF UpdateSelect, db
    <2>o. "quantity" \notin job[r].omits /\ "upVote" \notin job[r].omits
      BY <1>0 DEF Job
    <2>6. /\ mem'[r].next = "updatePlan" /\ mem'[r].want = e
          /\ Outcome(r)'.quantity = e.quantity
          /\ Outcome(r)'.baseQuantity = IF "baseQuantity" \in job[r].omits
                          THEN tour[job[r].tour].baseQuantity ELSE e.baseQuantity
          /\ Outcome(r)'.upVote = e.upVote
      <3>1. mem'[r].want = e
        BY <2>2, <2>3, <1>0, SelectEffect
      <3>. QED
        BY <3>1, <2>2, <2>3, <2>o, <1>0, SelectOutcome
    <2>7. pc'[r] = "save" /\ Goto(r, "save") /\ UNCHANGED reply
      BY <1>4, <1>0 DEF UpdateSelect, Goto, TypeOK
    <2>8. Kinded(r)'
      BY <2>6, <2>7, <2>k, <1>u DEF Kinded, BookPcs
    <2>9. View(r)'
      BY <2>2, <2>3, <2>6, <2>7, <2>k, <1>u DEF View, Holds
    <2>. QED
      BY <1>b, <1>u, <2>7, <2>8, <2>9, MovedAlone
  <1>s. ASSUME NEW e \in Row, Select(r, e, {}, "done"), UNCHANGED tour,
               Goto(r, "save"), UNCHANGED reply, reply[r] = "none",
               e.id = job[r].tour, e.quantity = tour[job[r].tour].quantity,
               e.baseQuantity = tour[job[r].tour].baseQuantity,
               job[r].kind \in {"delete", "vote"},
               e.upVote = IF job[r].kind = "vote"
                          THEN Toggled(tour[job[r].tour], job[r].user)
                          ELSE tour[job[r].tour].upVote
        PROVE  AloneInv'
    <2>6. /\ mem'[r].next = "done" /\ mem'[r].want = e
          /\ Outcome(r)'.quantity = e.quantity
          /\ Outcome(r)'.baseQuantity = e.baseQuantity
          /\ Outcome(r)'.upVote = e.upVote
      BY <1>s, <1>0, SelectOutcome, SelectEffect
    <2>7. pc'[r] = "save"
      BY <1>s, <1>0 DEF Goto, TypeOK
    <2>8. Kinded(r)'
      BY <1>s, <2>6, <2>7, <1>u DEF Kinded, BookPcs
    <2>t. Toggled(tour[job[r].tour], job[r].user)'
          = Toggled(tour[job[r].tour], job[r].user)
      BY <1>s, <1>u DEF Toggled
    <2>9. View(r)'
      BY <1>s, <2>6, <2>7, <2>t, <1>u DEF View, Holds
    <2>. QED
      BY <1>s, <1>b, <1>u, <2>8, <2>9, MovedAlone
  <1>5. CASE DeleteSelect(r)
    <2>k. job[r].kind = "delete" /\ mem[r].snap = tour[job[r].tour] /\ reply[r] = "none"
      BY <1>5, <1>v DEF DeleteSelect, Kinded, View, Holds
    <2>1. PICK e : e = [mem[r].snap EXCEPT !.status = "Delete"]
      OBVIOUS
    <2>2. /\ e \in Row /\ e.id = job[r].tour
          /\ e.quantity = tour[job[r].tour].quantity
          /\ e.baseQuantity = tour[job[r].tour].baseQuantity
          /\ e.upVote = tour[job[r].tour].upVote
      BY <2>1, <2>k, <1>0 DEF Row, Statuses, Open
    <2>3. Select(r, e, {}, "done")
      BY <1>5, <2>1 DEF DeleteSelect
    <2>. QED
      BY <1>5, <1>s, <2>k, <2>2, <2>3 DEF DeleteSelect, db
  <1>6. CASE VoteSelect(r)
    <2>k. job[r].kind = "vote" /\ mem[r].snap = tour[job[r].tour] /\ reply[r] = "none"
      BY <1>6, <1>v DEF VoteSelect, Kinded, View, Holds
    <2>v. PICK v : v = Toggled(mem[r].snap, job[r].user)
      OBVIOUS
    <2>w. v \in SUBSET Users
      BY <2>v, <1>0 DEF Row, Job, Toggled
    <2>1. PICK e : e = [mem[r].snap EXCEPT !.upVote = v]
      OBVIOUS
    <2>2. /\ e \in Row /\ e.id = job[r].tour
          /\ e.quantity = tour[job[r].tour].quantity
          /\ e.baseQuantity = tour[job[r].tour].baseQuantity
          /\ e.upVote = v
      BY <2>1, <2>k, <2>w, <1>0 DEF Row
    <2>3. Select(r, e, {}, "done")
      BY <1>6, <2>1, <2>v DEF VoteSelect
    <2>. QED
      BY <1>6, <1>s, <2>k, <2>v, <2>2, <2>3 DEF VoteSelect, db
  <1>7. CASE SaveUpdate(r)
    <2>2. CASE Answer(r, "oke")
      BY <1>a, <2>2
    <2>3. CASE /\ Goto(r, mem[r].next) /\ mem[r].next # "done"
               /\ UNCHANGED <<mem, reply>>
      <3>0. PICK l : l = mem[r].next
        OBVIOUS
      <3>1. /\ pc[r] = "save" /\ reply[r] = "none"
            /\ \/ job[r].kind = "book" /\ l \in {"full", "cart"}
               \/ job[r].kind = "update" /\ l = "updatePlan"
        BY <1>7, <2>3, <3>0, <1>v DEF SaveUpdate, Kinded
      <3>2. Goto(r, l) /\ pc'[r] = l /\ mem'[r] = mem[r]
        BY <2>3, <3>0, <1>0 DEF Goto, TypeOK
      <3>3. mem[r].want.id = job[r].tour /\ tour'[job[r].tour] = Outcome(r)
        BY <1>7, <3>1, <1>v, <1>0, UpdateOutcome DEF SaveUpdate, View
      <3>4. Kinded(r)'
        BY <2>3, <3>1, <3>2, <1>u DEF Kinded, BookPcs
      <3>5. CASE l = "full"
        <4>1. /\ Outcome(r).upVote = tour[job[r].tour].upVote
              /\ Outcome(r).quantity = mem[r].want.quantity
              /\ Outcome(r).baseQuantity = tour[job[r].tour].baseQuantity
              /\ mem[r].want.baseQuantity = tour[job[r].tour].baseQuantity
              /\ mem[r].want.upVote = tour[job[r].tour].upVote
          BY <3>1, <3>5, <1>v DEF View
        <4>2. View(r)'
          BY <3>2, <3>3, <3>5, <4>1, <1>u DEF View, Holds
        <4>. QED
          BY <1>b, <1>u, <2>3, <3>2, <3>4, <4>2, MovedAlone
      <3>6. CASE l = "cart"
        <4>2. View(r)'
          BY <3>2, <3>6 DEF View, Holds
        <4>. QED
          BY <1>b, <1>u, <2>3, <3>2, <3>4, <4>2, MovedAlone
      <3>7. CASE l = "updatePlan"
        <4>1. mem[r].want.status # "absent" /\ Dated(mem[r].want)'
          BY <3>1, <3>2, <1>0 DEF DatesInv, Writing
        <4>2. tour'[job[r].tour].status # "absent"
          BY <3>2, <3>3, <4>1 DEF Dated
        <4>3. View(r)'
          BY <3>2, <3>7, <4>2, <1>u DEF View, Holds
        <4>. QED
          BY <1>b, <1>u, <2>3, <3>2, <3>4, <4>3, MovedAlone
      <3>. QED
        BY <3>1, <3>5, <3>6, <3>7
    <2>. QED
      BY <1>7, <2>2, <2>3 DEF SaveUpdate
  <1>. QED
    BY <1>2, <1>3, <1>4, <1>5, <1>6, <1>7 DEF Editing

LEMMA CronAlone ==
  ASSUME MaxInFlight <= 1, TypeOK, AloneInv, NEW c \in CronRuns, Cron(c)
  PROVE  AloneInv'
  <1>0. c \in Procs /\ c \notin Requests /\ mem[c] \in Memory /\ batch[c] \subseteq Row
    BY ConstantsAssumption DEF TypeOK
  <1>v. CronView(c)
    BY DEF AloneInv
  <1>u. UNCHANGED <<job, reply>>
    BY DEF Cron, CronRead, CronSelect, CronUpdate
  <1>b. \A q \in Busy : q = c
    <2>1. CASE CronRead(c)
      BY <2>1, EmptyWhenAlone DEF CronRead, AloneInv
    <2>2. CASE CronSelect(c) \/ CronUpdate(c)
      BY <2>2, <1>0, OnlyBusy DEF CronSelect, CronUpdate
    <2>. QED
      BY <2>1, <2>2 DEF Cron
  <1>g. ASSUME NEW l, Goto(c, l), CronView(c)' PROVE AloneInv'
    <2>1. \A q \in Procs : q # c => pc'[q] = pc[q]
      BY <1>g DEF Goto, TypeOK
    <2>. QED
      BY <2>1, <1>g, <1>u, <1>b, <1>0, AloneFrame
  <1>1. CASE CronRead(c)
    <2> DEFINE W(t, s) == [tour[t] EXCEPT !.status = s]
    <2>0. /\ batch' = [batch EXCEPT ![c] = Saves]
          /\ UNCHANGED tour /\ Goto(c, "cronSave")
      BY <1>1 DEF CronRead, db
    <2>1. ASSUME NEW e \in Saves PROVE Same(e, tour[e.id])
      <3>1. PICK t \in Tours, s \in {"LAST", "TRAVELING", "DONE"} : e = W(t, s)
        BY DEF Saves
      <3>2. tour[t] \in Row /\ tour[t].id = t
        BY DEF TypeOK
      <3>. QED
        BY <3>1, <3>2 DEF Row, Same
    <2>2. pc'[c] = "cronSave" /\ batch'[c] = Saves
      BY <2>0, <1>0 DEF Goto, TypeOK
    <2>3. \A e \in batch'[c] : Same(e, tour'[e.id])
      BY <2>0, <2>1, <2>2
    <2>. QED
      BY <2>0, <2>2, <2>3, <1>g DEF CronView, Same
  <1>2. CASE CronSelect(c)
    <2>0. PICK e \in batch[c] : /\ Select(c, e, {}, "idle")
                                /\ batch' = [batch EXCEPT ![c] = @ \ {e}]
                                /\ UNCHANGED tour /\ pc[c] = "cronSave"
                                /\ Goto(c, "cronUpdate")
      BY <1>2 DEF CronSelect, db
    <2>1. /\ mem'[c].want = e
          /\ Outcome(c)'.quantity = e.quantity
          /\ Outcome(c)'.baseQuantity = e.baseQuantity
          /\ Outcome(c)'.upVote = e.upVote
      BY <2>0, <1>0, SelectOutcome, SelectEffect
    <2>2. pc'[c] = "cronUpdate" /\ batch'[c] \subseteq batch[c]
      BY <2>0, <1>0 DEF Goto, TypeOK
    <2>3. \A f \in batch[c] : Same(f, tour[f.id])
      BY <2>0, <1>v DEF CronView
    <2>4. \A f \in batch'[c] : Same(f, tour'[f.id])
      BY <2>0, <2>2, <2>3
    <2>5. Same(Outcome(c)', tour'[mem'[c].want.id])
      BY <2>0, <2>1, <2>3 DEF Same
    <2>6. CronView(c)'
      BY <2>2, <2>4, <2>5 DEF CronView, Same
    <2>. QED
      BY <2>0, <2>6, <1>g
  <1>3. CASE CronUpdate(c)
    <2>0. PICK i \in Tours : i = mem[c].want.id
      BY <1>0 DEF Memory, Row
    <2>1. /\ tour'[i] = Outcome(c) /\ \A t \in Tours : t # i => tour'[t] = tour[t]
      BY <1>3, <1>0, <2>0, UpdateOutcome DEF CronUpdate
    <2>2. Same(Outcome(c), tour[i]) /\ \A e \in batch[c] : Same(e, tour[e.id])
      BY <1>3, <1>v, <2>0 DEF CronUpdate, CronView
    <2>3. \A t \in Tours : Same(tour'[t], tour[t])
      BY <2>1, <2>2 DEF Same
    <2>4. \A e \in batch[c] : e.id \in Tours
      BY <1>0 DEF Row
    <2>5. \A e \in batch[c] : Same(e, tour'[e.id])
      BY <2>2, <2>3, <2>4 DEF Same
    <2>6. PICK l \in {"idle", "cronSave"} : Goto(c, l)
      BY <1>3 DEF CronUpdate
    <2>7. pc'[c] = l /\ batch'[c] = batch[c]
      BY <1>3, <2>6, <1>0 DEF CronUpdate, Goto, TypeOK
    <2>8. CronView(c)'
      BY <2>5, <2>6, <2>7 DEF CronView, Same
    <2>. QED
      BY <2>6, <2>8, <1>g
  <1>. QED
    BY <1>1, <1>2, <1>3 DEF Cron

LEMMA AloneStep ==
  ASSUME MaxInFlight <= 1, TypeOK, DatesInv, AloneInv, [Next]_vars
  PROVE  AloneInv'
  <1>0. TypeOK' /\ DatesInv'
    BY TypeStep, DatesStep
  <1>1. ASSUME NEW r \in Requests, Arrival(r) PROVE AloneInv'
    BY <1>1, ArrivalAlone
  <1>2. ASSUME NEW r \in Requests, Booking(r) \/ BookMail(r) PROVE AloneInv'
    BY <1>2, BookingAlone
  <1>3. ASSUME NEW r \in Requests, Editing(r) PROVE AloneInv'
    BY <1>0, <1>3, EditingAlone
  <1>4. ASSUME NEW c \in CronRuns, Cron(c) PROVE AloneInv'
    BY <1>4, CronAlone
  <1>5. CASE Tick \/ UNCHANGED vars
    <2>1. UNCHANGED <<tour, pc, job, mem, reply, batch>>
      BY <1>5 DEF Tick, vars, db
    <2>2. Quiet'
      BY <2>1 DEF AloneInv, Quiet, Busy
    <2>3. ASSUME NEW r \in Requests PROVE job'[r] \in Asks[r] /\ Kinded(r)' /\ View(r)'
      <3>1. job[r] \in Asks[r] /\ Kinded(r) /\ View(r)
        BY DEF AloneInv
      <3>. QED
        BY <2>1, <3>1 DEF Kinded, View, EnoughSlot, Refits, Outcome, Merge, Toggled
    <2>4. ASSUME NEW c \in CronRuns PROVE CronView(c)'
      <3>1. CronView(c)
        BY DEF AloneInv
      <3>. QED
        BY <2>1, <3>1 DEF CronView, Same, Outcome, Merge
    <2>. QED
      BY <2>2, <2>3, <2>4 DEF AloneInv
  <1>6. CASE Crash
    <2>1. /\ UNCHANGED job /\ Busy' = {}
          /\ \A r \in Requests : \/ pc'[r] = "done"
                                 \/ pc'[r] = pc[r] /\ reply'[r] = reply[r]
          /\ \A c \in CronRuns : pc'[c] = pc[c] \/ pc'[c] = "idle"
          /\ \A p \in Procs : pc'[p] \in {"new", "done", "idle"}
      BY <1>6, ConstantsAssumption DEF Crash, Busy
    <2>2. Quiet'
      BY <2>1 DEF Quiet
    <2>3. ASSUME NEW r \in Requests PROVE job'[r] \in Asks[r] /\ Kinded(r)' /\ View(r)'
      <3>1. job[r] \in Asks[r] /\ Kinded(r)
        BY DEF AloneInv
      <3>2. pc'[r] \in {"new", "done"} /\ (pc'[r] # "done" => reply'[r] = "none")
        BY <2>1, <3>1 DEF Kinded
      <3>3. Kinded(r)'
        BY <3>2 DEF Kinded, BookPcs
      <3>4. View(r)'
        BY <3>2 DEF View, Holds
      <3>. QED
        BY <2>1, <3>1, <3>3, <3>4
    <2>4. ASSUME NEW c \in CronRuns PROVE CronView(c)'
      <3>1. pc[c] \in {"idle", "cronSave", "cronUpdate"}
        BY DEF AloneInv, CronView
      <3>2. pc'[c] = "idle"
        BY <2>1, <3>1
      <3>. QED
        BY <3>2 DEF CronView
    <2>. QED
      BY <2>2, <2>3, <2>4 DEF AloneInv
  <1>. QED
    BY <1>1, <1>2, <1>3, <1>4, <1>5, <1>6 DEF Next

LEMMA InitAlone == Init => AloneInv
  <1> SUFFICES ASSUME Init PROVE AloneInv
    OBVIOUS
  <1>1. Busy = {}
    BY DEF Init, Busy
  <1>2. ASSUME NEW r \in Requests PROVE job[r] \in Asks[r] /\ Kinded(r) /\ View(r)
    <2>1. pc[r] = "new" /\ reply[r] = "none" /\ job[r] \in Asks[r]
      BY DEF Init
    <2>. QED
      BY <2>1 DEF Kinded, View, BookPcs, Holds
  <1>3. ASSUME NEW c \in CronRuns PROVE CronView(c)
    <2>1. pc[c] = "idle"
      BY ConstantsAssumption DEF Init
    <2>. QED
      BY <2>1 DEF CronView
  <1>. QED
    BY <1>1, <1>2, <1>3 DEF AloneInv, Quiet

(* With one handler at a time, whoever runs holds what the tables say: every *)
(* copy in flight is current, whatever fails and however often the manager  *)
(* dies.                                                                     *)
THEOREM AloneHolds == ASSUME MaxInFlight <= 1 PROVE Spec => []AloneInv
  <1>1. Spec => []DatesInv
    BY InitType, InitDates, TypeStep, DatesStep, PTL DEF Spec
  <1>2. TypeOK /\ DatesInv /\ AloneInv /\ [Next]_vars => AloneInv'
    BY AloneStep
  <1>. QED
    BY <1>1, <1>2, InitAlone, TypeCorrect, PTL DEF Spec

--------------------------------------------------------------------------------
(* Carts: one handler at a time, whatever fails. *)

CartInv == OneCartRow /\ \A r \in Requests : pc[r] = "cartInsert" => CartRows(r) = {}

LEMMA CartStep ==
  ASSUME MaxInFlight <= 1, TypeOK, AloneInv, CartInv, [Next]_vars
  PROVE  CartInv'
  <1>a. ASSUME UNCHANGED <<cart, job>>,
               \A r \in Requests : pc'[r] = "cartInsert" =>
                                      pc[r] = "cartInsert" \/ CartRows(r) = {}
        PROVE  CartInv'
    <2>1. \A r \in Requests : CartRows(r)' = CartRows(r)
      BY <1>a DEF CartRows
    <2>. QED
      BY <1>a, <2>1 DEF CartInv, OneCartRow
  <1>m. ASSUME UNCHANGED <<cart, job>>, NEW p \in Procs, NEW l, l # "cartInsert", Goto(p, l)
        PROVE  CartInv'
    <2>1. \A r \in Requests : pc'[r] = "cartInsert" => pc[r] = "cartInsert"
      BY <1>m DEF Goto, TypeOK
    <2>. QED
      BY <2>1, <1>m, <1>a
  <1>s. ASSUME UNCHANGED job, cart' \subseteq cart, NEW r \in Requests,
               pc[r] \notin {"new", "done", "idle"}, NEW l, l # "cartInsert", Goto(r, l)
        PROVE  CartInv'
    <2>1. \A q \in Busy : q = r
      BY <1>s, OnlyBusy
    <2>2. \A q \in Requests : pc'[q] # "cartInsert"
      BY <1>s, <2>1 DEF Goto, TypeOK, Busy
    <2>. QED
      BY <1>s, <2>2 DEF CartInv, OneCartRow
  <1>1. ASSUME NEW r \in Requests, Arrival(r) PROVE CartInv'
    <2>1. UNCHANGED <<cart, job>>
      BY <1>1, Zenon DEF Arrival, BookRead, CreateTour, UpdateRead, DeleteRead, VoteRead,
             CartCreateFind, CartDeleteFind, CartEmptyFind, db
    <2>2. CASE CartCreateFind(r) /\ Goto(r, "cartInsert") /\ ~InCart(r)
      <3>1. \A q \in Requests : pc'[q] = "cartInsert" => pc[q] = "cartInsert" \/ q = r
        BY <2>2 DEF Goto, TypeOK
      <3>. QED
        BY <2>1, <2>2, <3>1, <1>a DEF InCart
    <2>3. CASE \E l \in Pcs \ {"cartInsert"} : Goto(r, l)
      BY <2>1, <2>3, <1>m
    <2>4. {"done", "order", "createPlan", "updateCheck", "deleteSave", "voteSave",
           "cartDelete"} \subseteq Pcs \ {"cartInsert"}
      BY DEF Pcs
    <2>5. CASE \E m : Answer(r, m)
      BY <2>3, <2>4, <2>5 DEF Answer
    <2>6. CASE BookRead(r) \/ CreateTour(r)
      BY <2>3, <2>4, <2>5, <2>6 DEF BookRead, CreateTour
    <2>7. CASE UpdateRead(r) \/ DeleteRead(r) \/ VoteRead(r)
      BY <2>3, <2>4, <2>5, <2>7 DEF UpdateRead, DeleteRead, VoteRead
    <2>8. CASE CartCreateFind(r)
      BY <2>2, <2>5, <2>8 DEF CartCreateFind
    <2>9. CASE CartDeleteFind(r) \/ CartEmptyFind(r)
      BY <2>3, <2>4, <2>5, <2>9 DEF CartDeleteFind, CartEmptyFind
    <2>. QED
      BY <1>1, <2>6, <2>7, <2>8, <2>9 DEF Arrival
  <1>2. ASSUME NEW r \in Requests, Booking(r) \/ BookMail(r) PROVE CartInv'
    <2>0. UNCHANGED job /\ pc[r] \notin {"new", "done", "idle"}
      BY <1>2, Zenon DEF Booking, BookOrder, BookDetail, BookLink, BookPassengers,
             BookCounterSelect, BookFullSelect, BookCartFind, BookCartRemove, BookMail
    <2>1. \E l \in {"done", "detail", "link", "passengers", "counter", "save", "mail",
                    "cartRemove"} : Goto(r, l)
      BY <1>2 DEF Booking, BookOrder, BookDetail, BookLink, BookPassengers,
             BookCounterSelect, BookFullSelect, BookCartFind, BookCartRemove, BookMail,
             Answer
    <2>2. cart' \subseteq cart
      BY <1>2 DEF Booking, BookOrder, BookDetail, BookLink, BookPassengers,
             BookCounterSelect, BookFullSelect, BookCartFind, BookCartRemove, BookMail, db
    <2>. QED
      BY <2>0, <2>1, <2>2, <1>s
  <1>3. ASSUME NEW r \in Requests, Editing(r), ~CartInsert(r) PROVE CartInv'
    <2>0. UNCHANGED job /\ pc[r] \notin {"new", "done", "idle"}
      BY <1>3, Zenon DEF Editing, CreatePlan, UpdateCheck, UpdateSelect, UpdatePlan,
             DeleteSelect, VoteSelect, SaveUpdate, CartDelete
    <2>m. mem[r].next \in {"full", "cart", "updatePlan", "done", "idle"}
      BY DEF TypeOK, Memory
    <2>1. \E l \in {"done", "updateSave", "save", "full", "cart", "updatePlan", "idle"} :
             Goto(r, l)
      BY <1>3, <2>m DEF Editing, CreatePlan, UpdateCheck, UpdateSelect, UpdatePlan,
             DeleteSelect, VoteSelect, SaveUpdate, CartDelete, Answer
    <2>2. cart' \subseteq cart
      BY <1>3 DEF Editing, CreatePlan, UpdateCheck, UpdateSelect, UpdatePlan,
             DeleteSelect, VoteSelect, SaveUpdate, CartDelete, db
    <2>. QED
      BY <2>0, <2>1, <2>2, <1>s
  <1>4. ASSUME NEW r \in Requests, CartInsert(r) PROVE CartInv'
    <2>1. /\ UNCHANGED job /\ cart' = cart \cup {r} /\ CartRows(r) = {}
          /\ Goto(r, "done") /\ pc[r] = "cartInsert"
      BY <1>4 DEF CartInsert, CartInv, Answer
    <2>2. \A q \in Busy : q = r
      BY <2>1, OnlyBusy
    <2>3. \A q \in Requests : pc'[q] # "cartInsert"
      BY <2>1, <2>2 DEF Goto, TypeOK, Busy
    <2>4. OneCartRow'
      BY <2>1 DEF CartInv, OneCartRow, CartRows
    <2>. QED
      BY <2>3, <2>4 DEF CartInv
  <1>5. ASSUME NEW c \in CronRuns, Cron(c) PROVE CartInv'
    <2>1. UNCHANGED <<cart, job>>
      BY <1>5 DEF Cron, CronRead, CronSelect, CronUpdate, db
    <2>2. \E l \in {"cronSave", "cronUpdate", "idle"} : Goto(c, l)
      BY <1>5 DEF Cron, CronRead, CronSelect, CronUpdate
    <2>. QED
      BY <2>1, <2>2, <1>m
  <1>6. CASE Tick \/ Crash \/ UNCHANGED vars
    <2>1. /\ UNCHANGED <<cart, job>>
          /\ \A r \in Requests : pc'[r] = "cartInsert" => pc[r] = "cartInsert"
      BY <1>6 DEF Tick, Crash, vars, db
    <2>. QED
      BY <2>1, <1>a
  <1>. QED
    BY <1>1, <1>2, <1>3, <1>4, <1>5, <1>6 DEF Next

(* With one handler at a time a user never has a tour in the cart twice,     *)
(* whatever fails and however often the manager dies: nobody inserts between *)
(* createCart's look and its insert.                                         *)
THEOREM OneRowInCart == ASSUME MaxInFlight <= 1 PROVE Spec => []OneCartRow
  <1>1. Init => CartInv
    BY DEF Init, CartInv, OneCartRow
  <1>2. TypeOK /\ AloneInv /\ CartInv /\ [Next]_vars => CartInv'
    BY CartStep
  <1>3. CartInv => OneCartRow
    BY DEF CartInv
  <1>. QED
    BY <1>1, <1>2, <1>3, AloneHolds, TypeCorrect, PTL DEF Spec

--------------------------------------------------------------------------------
(* Votes.  The parity of a user's votes is counted over the requests that   *)
(* have started, which are finitely many in every state.                    *)

Started == {r \in Requests : pc[r] # "new"}

Voted(t, u) == {r \in Requests : /\ job[r].kind = "vote" /\ job[r].tour = t
                                 /\ job[r].user = u /\ reply[r] = "oke"}

VotesInv ==
    /\ IsFiniteSet(Started)
    /\ \A t \in Tours : tour[t].status = "absent" => tour[t].upVote = {}
    /\ \A t \in Tours, u \in Users :
          u \in tour[t].upVote <=> Cardinality(Voted(t, u)) % 2 = 1

LEMMA Parity == ASSUME NEW n \in Nat PROVE (n + 1) % 2 = 1 <=> ~(n % 2 = 1)
  OBVIOUS

(* The requests that left the start stay finitely many. *)
LEMMA FewStart ==
  ASSUME IsFiniteSet(Started), NEW r,
         \A q \in Requests : q # r /\ pc[q] = "new" => pc'[q] = "new"
  PROVE  IsFiniteSet(Started')
  <1>1. Started' \subseteq Started \cup {r}
    BY DEF Started
  <1>. QED
    BY <1>1, FS_AddElement, FS_Subset

(* Steps that no voter sees. *)
LEMMA Untallied ==
  ASSUME TypeOK, VotesInv, UNCHANGED job, IsFiniteSet(Started'),
         \A q \in Requests : \/ reply'[q] = reply[q]
                             \/ reply[q] = "none" /\ reply'[q] # "oke"
                             \/ reply[q] = "none" /\ job[q].kind # "vote",
         \A t \in Tours : /\ tour'[t].upVote = tour[t].upVote
                          /\ tour'[t].status = "absent" => tour[t].status = "absent"
  PROVE  VotesInv'
  <1>1. ASSUME NEW t \in Tours, NEW u \in Users PROVE Voted(t, u)' = Voted(t, u)
    BY DEF Voted
  <1>. QED
    BY <1>1 DEF VotesInv

LEMMA VotesStep ==
  ASSUME MaxInFlight <= 1, TypeOK, TypeOK', DatesInv, DatesInv', AloneInv, VotesInv,
         [Next]_vars
  PROVE  VotesInv'
  <1>f. IsFiniteSet(Started)
    BY DEF VotesInv
  <1>k. \A r \in Requests : Kinded(r) /\ View(r)
    BY DEF AloneInv
  <1>a. ASSUME NEW r \in Requests, UNCHANGED <<tour, job>>, reply[r] = "none",
               \/ UNCHANGED reply /\ \E l : Goto(r, l)
               \/ \E m : Answer(r, m) /\ (m # "oke" \/ job[r].kind # "vote")
        PROVE  VotesInv'
    <2>1. \A q \in Requests : q # r => pc'[q] = pc[q] /\ reply'[q] = reply[q]
      BY <1>a DEF Goto, Answer, TypeOK
    <2>2. IsFiniteSet(Started')
      BY <2>1, <1>f, FewStart
    <2>3. reply'[r] = reply[r] \/ reply'[r] # "oke" \/ job[r].kind # "vote"
      BY <1>a DEF Answer, TypeOK
    <2>. QED
      BY <1>a, <2>1, <2>2, <2>3, Untallied
  <1>1. ASSUME NEW r \in Requests, Arrival(r) PROVE VotesInv'
    <2>n. reply[r] = "none"
      <3>1. pc[r] = "new"
        BY <1>1 DEF Arrival, BookRead, CreateTour, UpdateRead, DeleteRead, VoteRead,
               CartCreateFind, CartDeleteFind, CartEmptyFind, Arrives
      <3>. QED
        BY <3>1, <1>k DEF Kinded
    <2>j. UNCHANGED job
      BY <1>1 DEF Arrival, BookRead, CreateTour, UpdateRead, DeleteRead, VoteRead,
             CartCreateFind, CartDeleteFind, CartEmptyFind
    <2>1. CASE CreateTour(r) /\ Goto(r, "createPlan")
      <3>0. PICK i \in Tours : i = job[r].tour
        BY DEF TypeOK, Job
      <3>1. tour[i].status = "absent" /\ tour[i].upVote = {}
        BY <2>1, <3>0 DEF CreateTour, VotesInv
      <3>2. /\ UNCHANGED reply
            /\ tour'[i].upVote = {} /\ tour'[i].status # "absent"
            /\ \A t \in Tours : t # i => tour'[t] = tour[t]
        BY <2>1, <3>0 DEF CreateTour, TypeOK, Answer, Goto
      <3>3. \A q \in Requests : q # r => pc'[q] = pc[q]
        BY <2>1 DEF Goto, TypeOK
      <3>4. IsFiniteSet(Started')
        BY <3>3, <1>f, FewStart
      <3>5. \A t \in Tours : /\ tour'[t].upVote = tour[t].upVote
                             /\ tour'[t].status = "absent" => tour[t].status = "absent"
        BY <3>1, <3>2
      <3>. QED
        BY <3>2, <3>4, <3>5, <2>j, Untallied
    <2>2. CASE CreateTour(r) /\ Answer(r, "error")
      <3>1. UNCHANGED tour
        BY <2>2 DEF CreateTour, Answer, Goto, TypeOK
      <3>. QED
        BY <2>2, <2>n, <2>j, <3>1, <1>a
    <2>3. CASE ~CreateTour(r)
      <3>1. UNCHANGED tour
        BY <1>1, <2>3, Zenon DEF Arrival, BookRead, UpdateRead, DeleteRead, VoteRead,
               CartCreateFind, CartDeleteFind, CartEmptyFind, db
      <3>2. \/ UNCHANGED reply /\ \E l : Goto(r, l)
            \/ \E m : Answer(r, m) /\ m # "oke"
        <4>0. \A m \in {"error", "can not found", "not Enough slot",
                        "Time Registration is over", "This tour having in cart",
                        "user bought can not delete"} : m # "oke"
          OBVIOUS
        <4>1. CASE BookRead(r)
          BY <4>0, <4>1, Zenon DEF BookRead
        <4>2. CASE UpdateRead(r)
          BY <4>0, <4>2, Zenon DEF UpdateRead
        <4>3. CASE DeleteRead(r)
          BY <4>0, <4>3, Zenon DEF DeleteRead
        <4>4. CASE VoteRead(r)
          BY <4>0, <4>4, Zenon DEF VoteRead
        <4>5. CASE CartCreateFind(r)
          BY <4>0, <4>5, Zenon DEF CartCreateFind
        <4>6. CASE CartDeleteFind(r)
          BY <4>0, <4>6, Zenon DEF CartDeleteFind
        <4>7. CASE CartEmptyFind(r)
          BY <4>0, <4>7, Zenon DEF CartEmptyFind
        <4>. QED
          BY <1>1, <2>3, <4>1, <4>2, <4>3, <4>4, <4>5, <4>6, <4>7 DEF Arrival
      <3>. QED
        BY <3>1, <3>2, <2>n, <2>j, <1>a
    <2>. QED
      BY <2>1, <2>2, <2>3 DEF CreateTour
  <1>2. ASSUME NEW r \in Requests, Booking(r) \/ BookMail(r) PROVE VotesInv'
    <2>0. /\ UNCHANGED <<tour, job>>
          /\ pc[r] \in BookPcs
      BY <1>2, Zenon DEF Booking, BookOrder, BookDetail, BookLink, BookPassengers,
             BookCounterSelect, BookFullSelect, BookCartFind, BookCartRemove, BookMail,
             BookPcs, db
    <2>1. \/ UNCHANGED reply /\ \E l : Goto(r, l)
          \/ \E m : Answer(r, m)
      BY <1>2 DEF Booking, BookOrder, BookDetail, BookLink, BookPassengers,
             BookCounterSelect, BookFullSelect, BookCartFind, BookCartRemove, BookMail
    <2>2. job[r].kind = "book" /\ reply[r] = "none"
      BY <2>0, <1>k DEF Kinded, BookPcs
    <2>. QED
      BY <2>0, <2>1, <2>2, <1>a
  <1>3. ASSUME NEW r \in Requests, Editing(r), ~SaveUpdate(r) PROVE VotesInv'
    <2>0. UNCHANGED <<tour, job>> /\ pc[r] # "done"
      BY <1>3, Zenon DEF Editing, CreatePlan, UpdateCheck, UpdateSelect, UpdatePlan,
             DeleteSelect, VoteSelect, CartInsert, CartDelete, db
    <2>1. \/ UNCHANGED reply /\ \E l : Goto(r, l)
          \/ \E m : Answer(r, m) /\ (m # "oke" \/ job[r].kind # "vote")
      <3>1. CASE CreatePlan(r) \/ UpdatePlan(r) \/ CartInsert(r) \/ CartDelete(r)
        <4>1. job[r].kind # "vote"
          BY <3>1, <1>k DEF CreatePlan, UpdatePlan, CartInsert, CartDelete, Kinded
        <4>. QED
          BY <3>1, <4>1 DEF CreatePlan, UpdatePlan, CartInsert, CartDelete
      <3>2. CASE UpdateCheck(r) \/ UpdateSelect(r) \/ DeleteSelect(r) \/ VoteSelect(r)
        BY <3>2 DEF UpdateCheck, UpdateSelect, DeleteSelect, VoteSelect
      <3>. QED
        BY <1>3, <3>1, <3>2 DEF Editing
    <2>2. reply[r] = "none"
      BY <2>0, <1>k DEF Kinded
    <2>. QED
      BY <2>0, <2>1, <2>2, <1>a
  <1>4. ASSUME NEW r \in Requests, SaveUpdate(r) PROVE VotesInv'
    <2>0. /\ UNCHANGED job /\ Update(r) /\ pc[r] = "save" /\ reply[r] = "none"
          /\ r \in Procs
      BY <1>4, <1>k DEF SaveUpdate, Kinded
    <2>1. PICK i \in Tours : i = job[r].tour /\ i = mem[r].want.id
      BY <2>0, <1>k DEF View, TypeOK, Job
    <2>2. tour'[i] = Outcome(r) /\ \A t \in Tours : t # i => tour'[t] = tour[t]
      BY <2>0, <2>1, UpdateOutcome
    <2>3. \A q \in Requests : q # r => pc'[q] = pc[q] /\ reply'[q] = reply[q]
      BY <1>4 DEF SaveUpdate, Goto, Answer, TypeOK
    <2>4. IsFiniteSet(Started')
      BY <2>3, <1>f, FewStart
    <2>5. tour'[i].status # "absent"
      <3>1. mem[r].want.status # "absent"
        BY <2>0 DEF DatesInv, Writing
      <3>2. tour[i].status # "absent"
        BY <2>0, <2>1, <3>1 DEF DatesInv, Dated
      <3>. QED
        BY <2>0, <3>1, UpdatedDates, <3>2, <1>4 DEF DatesKept, SaveUpdate
    <2>6. CASE job[r].kind # "vote"
      <3>1. tour'[i].upVote = tour[i].upVote
        BY <2>0, <2>1, <2>2, <2>6, <1>k DEF View
      <3>. QED
        BY <2>0, <2>2, <2>3, <2>4, <2>5, <2>6, <3>1, Untallied
    <2>7. CASE job[r].kind = "vote"
      <3>0. PICK v \in Users : v = job[r].user
        BY DEF TypeOK, Job
      <3>1. tour'[i].upVote = Toggled(tour[i], v)
        BY <2>0, <2>1, <2>2, <2>7, <3>0, <1>k DEF View
      <3>2. reply'[r] = "oke"
        BY <1>4, <2>0, <2>7, <1>k DEF SaveUpdate, Kinded, Answer, TypeOK
      <3>3. ASSUME NEW t \in Tours, NEW u \in Users, t # i \/ u # v
            PROVE  u \in tour'[t].upVote <=> Cardinality(Voted(t, u)') % 2 = 1
        <4>1. Voted(t, u)' = Voted(t, u)
          BY <2>0, <2>1, <2>3, <3>0, <3>3 DEF Voted
        <4>2. u \in tour'[t].upVote <=> u \in tour[t].upVote
          BY <2>2, <3>1, <3>3 DEF Toggled
        <4>. QED
          BY <4>1, <4>2 DEF VotesInv
      <3>4. v \in tour'[i].upVote <=> Cardinality(Voted(i, v)') % 2 = 1
        <4>1. Voted(i, v)' = Voted(i, v) \cup {r} /\ r \notin Voted(i, v)
          BY <2>0, <2>1, <2>3, <2>7, <3>0, <3>2 DEF Voted
        <4>2. Voted(i, v) \subseteq Started
          BY <1>k DEF Voted, Started, Kinded
        <4>3. IsFiniteSet(Voted(i, v))
          BY <4>2, <1>f, FS_Subset
        <4>4. PICK n : n = Cardinality(Voted(i, v))
          OBVIOUS
        <4>5. n \in Nat /\ Cardinality(Voted(i, v)') = n + 1
          BY <4>1, <4>3, <4>4, FS_AddElement, FS_CardinalityType
        <4>6. v \in tour[i].upVote <=> n % 2 = 1
          BY <4>4 DEF VotesInv
        <4>7. v \in tour'[i].upVote <=> v \notin tour[i].upVote
          BY <3>1 DEF Toggled
        <4>8. (n + 1) % 2 = 1 <=> ~(n % 2 = 1)
          BY <4>5, Parity
        <4>. QED
          BY <4>5, <4>6, <4>7, <4>8, Zenon
      <3>5. \A t \in Tours, u \in Users :
               u \in tour'[t].upVote <=> Cardinality(Voted(t, u)') % 2 = 1
        BY <3>3, <3>4
      <3>6. \A t \in Tours : tour'[t].status = "absent" => tour'[t].upVote = {}
        BY <2>2, <2>5 DEF VotesInv
      <3>. QED
        BY <2>4, <3>5, <3>6 DEF VotesInv
    <2>. QED
      BY <2>6, <2>7
  <1>5. ASSUME NEW c \in CronRuns, Cron(c) PROVE VotesInv'
    <2>0. UNCHANGED <<job, reply>> /\ c \in Procs
      BY <1>5 DEF Cron, CronRead, CronSelect, CronUpdate
    <2>1. \A q \in Requests : pc'[q] = pc[q]
      BY <1>5, ConstantsAssumption DEF Cron, CronRead, CronSelect, CronUpdate, Goto, TypeOK
    <2>2. IsFiniteSet(Started')
      BY <2>1, <1>f, FewStart
    <2>3. CASE CronRead(c) \/ CronSelect(c)
      <3>1. UNCHANGED tour
        BY <2>3 DEF CronRead, CronSelect, db
      <3>. QED
        BY <2>0, <2>2, <3>1, Untallied
    <2>4. CASE CronUpdate(c)
      <3>0. PICK i \in Tours : i = mem[c].want.id
        BY <2>0 DEF TypeOK, Memory, Row
      <3>1. tour'[i] = Outcome(c) /\ \A t \in Tours : t # i => tour'[t] = tour[t]
        BY <2>0, <2>4, <3>0, UpdateOutcome DEF CronUpdate
      <3>2. Outcome(c).upVote = tour[i].upVote
        BY <2>4, <3>0 DEF CronUpdate, AloneInv, CronView, Same
      <3>3. mem[c].want.status # "absent"
        BY <2>0, <2>4 DEF CronUpdate, DatesInv, Writing
      <3>4. tour[i].status # "absent"
        BY <2>0, <3>0, <3>3 DEF DatesInv, Dated
      <3>5. tour'[i].status # "absent"
        BY <2>0, <2>4, <3>3, <3>4, UpdatedDates DEF CronUpdate, DatesKept
      <3>. QED
        BY <2>0, <2>2, <3>1, <3>2, <3>5, Untallied
    <2>. QED
      BY <1>5, <2>3, <2>4 DEF Cron
  <1>6. CASE Tick \/ UNCHANGED vars
    <2>1. UNCHANGED <<tour, pc, job, reply>>
      BY <1>6 DEF Tick, vars, db
    <2>2. IsFiniteSet(Started')
      BY <2>1, <1>f DEF Started
    <2>. QED
      BY <2>1, <2>2, Untallied
  <1>7. CASE Crash
    <2>1. /\ UNCHANGED <<tour, job>>
          /\ \A q \in Requests : pc[q] = "new" => pc'[q] = "new"
          /\ \A q \in Requests : \/ reply'[q] = reply[q]
                                 \/ reply'[q] = "lost" /\ pc[q] # "done"
      BY <1>7 DEF Crash, db, Busy
    <2>2. IsFiniteSet(Started')
      BY <2>1, <1>f, FewStart
    <2>3. \A q \in Requests : pc[q] # "done" => reply[q] = "none"
      BY <1>k DEF Kinded
    <2>. QED
      BY <2>1, <2>2, <2>3, Untallied
  <1>. QED
    BY <1>1, <1>2, <1>3, <1>4, <1>5, <1>6, <1>7 DEF Next

LEMMA InitVotes == Init => VotesInv
  <1> SUFFICES ASSUME Init PROVE VotesInv
    OBVIOUS
  <1>1. Started = {}
    BY DEF Init, Started
  <1>2. \A t \in Tours : tour[t].upVote = {}
    BY DEF Init, NoRow
  <1>3. ASSUME NEW t \in Tours, NEW u \in Users PROVE Cardinality(Voted(t, u)) = 0
    <2>1. Voted(t, u) = {}
      BY DEF Init, Voted
    <2>. QED
      BY <2>1, FS_EmptySet
  <1>4. ~(0 % 2 = 1)
    OBVIOUS
  <1>. QED
    BY <1>1, <1>2, <1>3, <1>4, FS_EmptySet DEF VotesInv

(* With one handler at a time a vote counts exactly when its user voted an   *)
(* odd number of times, through edits, bookings, the status job and crashes. *)
THEOREM VotesAreToggled == ASSUME MaxInFlight <= 1 PROVE Spec => []VotesToggle
  <1>1. VotesInv => VotesToggle
    BY DEF VotesInv, VotesToggle, Voted
  <1>2. Spec => []DatesInv
    BY InitType, InitDates, TypeStep, DatesStep, PTL DEF Spec
  <1>3. TypeOK /\ DatesInv /\ AloneInv /\ VotesInv /\ [Next]_vars => VotesInv'
    BY VotesStep, TypeStep, DatesStep
  <1>. QED
    BY <1>1, <1>2, <1>3, InitVotes, AloneHolds, TypeCorrect, PTL DEF Spec

--------------------------------------------------------------------------------
(* Schedules: the list a tour keeps is the longest one stored, because an   *)
(* update adds what its own read of the schedules lacked.                   *)

Stored(t) == {r \in Requests : /\ job[r].kind \in {"create", "update"}
                               /\ job[r].tour = t /\ reply[r] = "oke"}

PlanInv ==
    /\ \A t \in Tours :
          /\ \A r \in Stored(t) : job[r].days <= plan[t]
          /\ plan[t] = 0 \/ \E r \in Stored(t) : job[r].days = plan[t]
          /\ tour[t].status = "absent" => plan[t] = 0 /\ Stored(t) = {}
    /\ \A r \in Requests :
          /\ pc[r] = "createPlan" => /\ plan[job[r].tour] = 0 /\ Stored(job[r].tour) = {}
                                     /\ tour[job[r].tour].status # "absent"
          /\ \/ pc[r] \in {"updateSave", "updatePlan"}
             \/ pc[r] = "save" /\ job[r].kind = "update"
             => mem[r].seen = plan[job[r].tour]

(* No row of the table is ever removed. *)
LEMMA RowsRemain ==
  ASSUME TypeOK, DatesInv, [Next]_vars
  PROVE  \A t \in Tours : tour'[t].status = "absent" => tour[t].status = "absent"
  <1>0. TypeOK'
    BY TypeStep
  <1>1. ASSUME NEW p \in Procs, Update(p), pc[p] \in Writing, UNCHANGED now
        PROVE  \A t \in Tours : tour'[t].status = "absent" => tour[t].status = "absent"
    <2>1. mem[p].want.status # "absent"
      BY <1>1 DEF DatesInv
    <2>2. DatesKept
      BY <1>0, <1>1, <2>1, UpdatedDates
    <2>. QED
      BY <2>2 DEF DatesKept
  <1>2. ASSUME NEW r \in Requests, SaveUpdate(r)
        PROVE  \A t \in Tours : tour'[t].status = "absent" => tour[t].status = "absent"
    BY <1>1, <1>2 DEF SaveUpdate, Writing
  <1>3. ASSUME NEW c \in CronRuns, CronUpdate(c)
        PROVE  \A t \in Tours : tour'[t].status = "absent" => tour[t].status = "absent"
    BY <1>1, <1>3 DEF CronUpdate, Writing
  <1>4. ASSUME NEW r \in Requests, CreateTour(r)
        PROVE  \A t \in Tours : tour'[t].status = "absent" => tour[t].status = "absent"
    BY <1>4 DEF CreateTour, TypeOK
  <1>5. ASSUME NEW r \in Requests, Arrival(r) PROVE CreateTour(r) \/ UNCHANGED tour
    BY <1>5 DEF Arrival, BookRead, UpdateRead, DeleteRead, VoteRead, CartCreateFind,
                CartDeleteFind, CartEmptyFind, db
  <1>6. ASSUME NEW r \in Requests, Booking(r) \/ BookMail(r) PROVE UNCHANGED tour
    BY <1>6 DEF Booking, BookOrder, BookDetail, BookLink, BookPassengers, BookCounterSelect,
                BookFullSelect, BookCartFind, BookCartRemove, BookMail, db
  <1>7. ASSUME NEW r \in Requests, Editing(r) PROVE SaveUpdate(r) \/ UNCHANGED tour
    BY <1>7 DEF Editing, CreatePlan, UpdateCheck, UpdateSelect, UpdatePlan,
                DeleteSelect, VoteSelect, CartInsert, CartDelete, db
  <1>8. ASSUME NEW c \in CronRuns, Cron(c) PROVE CronUpdate(c) \/ UNCHANGED tour
    BY <1>8 DEF Cron, CronRead, CronSelect, db
  <1>9. Tick \/ Crash \/ UNCHANGED vars => UNCHANGED tour
    BY DEF Tick, Crash, vars, db
  <1>. QED
    BY <1>2, <1>3, <1>4, <1>5, <1>6, <1>7, <1>8, <1>9 DEF Next

(* A SELECT leaves what updateTour saw of the schedules alone. *)
LEMMA SelectSeen ==
  ASSUME TypeOK, NEW p \in Procs, NEW e, NEW omits, NEW next, Select(p, e, omits, next)
  PROVE  mem'[p].seen = mem[p].seen
  <1>1. PICK extra \in SUBSET {"upVote"} :
           mem' = [mem EXCEPT ![p].want = e, ![p].next = next,
                     ![p].dirty = extra \cup {c \in Columns \ omits :
                                                e[c] # tour[e.id][c]}]
    BY DEF Select
  <1>2. PICK d : d = extra \cup {c \in Columns \ omits : e[c] # tour[e.id][c]}
    OBVIOUS
  <1>3. mem' = [mem EXCEPT ![p].want = e, ![p].next = next, ![p].dirty = d]
    BY <1>1, <1>2
  <1>4. mem[p] \in Memory /\ mem \in [Procs -> Memory]
    BY DEF TypeOK
  <1>. QED
    BY <1>3, <1>4 DEF Memory

NoRowRefused == \A r \in Requests : \A j \in Asks[r] : j.fault # "row"

Planning(r) == \/ pc[r] \in {"updateSave", "updatePlan"}
               \/ pc[r] = "save" /\ job[r].kind = "update"

LEMMA PlanFrame ==
  ASSUME TypeOK, AloneInv, PlanInv, UNCHANGED <<plan, job>>, NEW p \in Procs,
         \A q \in Busy : q = p,
         \A q \in Procs : q # p => pc'[q] = pc[q],
         \A q \in Requests : \/ reply'[q] = reply[q]
                             \/ reply[q] = "none" /\ reply'[q] # "oke"
                             \/ reply[q] = "none" /\ job[q].kind \notin {"create", "update"},
         \A t \in Tours : tour'[t].status = "absent" => tour[t].status = "absent",
         p \in Requests =>
            /\ pc'[p] = "createPlan" =>
                  /\ plan[job[p].tour] = 0 /\ Stored(job[p].tour) = {}
                  /\ tour'[job[p].tour].status # "absent"
            /\ Planning(p)' => mem'[p].seen = plan[job[p].tour]
  PROVE  PlanInv'
  <1>1. \A t : Stored(t)' = Stored(t)
    BY DEF Stored
  <1>2. ASSUME NEW q \in Requests, q # p
        PROVE  pc'[q] # "createPlan" /\ ~Planning(q)'
    <2>1. pc'[q] \in {"new", "done", "idle"}
      BY <1>2 DEF Busy
    <2>. QED
      BY <2>1 DEF Planning
  <1>. QED
    BY <1>1, <1>2 DEF PlanInv, Planning

LEMMA PlanStep ==
  ASSUME MaxInFlight <= 1, NoRowRefused, TypeOK, TypeOK', DatesInv, AloneInv, PlanInv,
         [Next]_vars
  PROVE  PlanInv'
  <1>k. \A r \in Requests : /\ Kinded(r) /\ View(r) /\ job[r] \in Asks[r]
                            /\ job[r] \in Job /\ job[r].tour \in Tours
    BY DEF AloneInv, TypeOK, Job
  <1>t. \A t \in Tours : tour'[t].status = "absent" => tour[t].status = "absent"
    BY RowsRemain
  <1>a. ASSUME NEW r \in Requests, UNCHANGED <<plan, job>>, reply[r] = "none",
               \A q \in Busy : q = r,
               \/ /\ UNCHANGED reply
                  /\ \E l : /\ Goto(r, l) /\ l # "createPlan"
                            /\ l \in {"updateSave", "updatePlan"} => Planning(r)
                            /\ l = "save" /\ job[r].kind = "update" => Planning(r)
                  /\ Planning(r) => mem'[r].seen = mem[r].seen
               \/ \E m : Answer(r, m) /\
                         (m # "oke" \/ job[r].kind \notin {"create", "update"})
        PROVE  PlanInv'
    <2>0. r \in Procs
      OBVIOUS
    <2>1. \A q \in Procs : q # r => pc'[q] = pc[q]
      BY <1>a DEF Goto, Answer, TypeOK
    <2>2. \A q \in Requests : q # r => reply'[q] = reply[q]
      BY <1>a DEF Answer, TypeOK
    <2>3. \/ reply'[r] = reply[r] \/ reply'[r] # "oke"
          \/ job[r].kind \notin {"create", "update"}
      BY <1>a DEF Answer, TypeOK
    <2>4. CASE \E m : Answer(r, m)
      <3>1. pc'[r] = "done"
        BY <2>4 DEF Answer, Goto, TypeOK
      <3>. QED
        BY <1>a, <1>t, <2>0, <2>1, <2>2, <2>3, <3>1, PlanFrame DEF Planning
    <2>5. CASE ~\E m : Answer(r, m)
      <3>1. PICK l : /\ Goto(r, l) /\ l # "createPlan"
                     /\ l \in {"updateSave", "updatePlan"} => Planning(r)
                     /\ l = "save" /\ job[r].kind = "update" => Planning(r)
        BY <1>a, <2>5
      <3>2. pc'[r] = l /\ (Planning(r) => mem'[r].seen = mem[r].seen)
        BY <1>a, <2>0, <2>5, <3>1 DEF Goto, TypeOK
      <3>3. Planning(r)' => Planning(r)
        BY <1>a, <3>1, <3>2 DEF Planning
      <3>4. Planning(r) => mem[r].seen = plan[job[r].tour]
        BY DEF PlanInv, Planning
      <3>. QED
        BY <1>a, <1>t, <2>0, <2>1, <2>2, <2>3, <3>1, <3>2, <3>3, <3>4, PlanFrame
    <2>. QED
      BY <2>4, <2>5
  <1>1. ASSUME NEW r \in Requests, Arrival(r) PROVE PlanInv'
    <2>n. pc[r] = "new" /\ Cardinality(Busy) < MaxInFlight
      BY <1>1 DEF Arrival, BookRead, CreateTour, UpdateRead, DeleteRead, VoteRead,
             CartCreateFind, CartDeleteFind, CartEmptyFind, Arrives
    <2>b. \A q \in Busy : q = r
      BY <2>n, EmptyWhenAlone DEF AloneInv
    <2>m. reply[r] = "none" /\ ~Planning(r)
      BY <2>n, <1>k DEF Kinded, Planning
    <2>j. UNCHANGED <<plan, job>>
      BY <1>1, Zenon DEF Arrival, BookRead, CreateTour, UpdateRead, DeleteRead, VoteRead,
             CartCreateFind, CartDeleteFind, CartEmptyFind, db
    <2>1. CASE CreateTour(r) /\ Goto(r, "createPlan")
      <3>0. PICK i \in Tours : i = job[r].tour
        BY <1>k
      <3>1. tour[i].status = "absent" /\ plan[i] = 0 /\ Stored(i) = {}
        BY <2>1, <3>0 DEF CreateTour, PlanInv
      <3>2. UNCHANGED reply /\ tour'[i].status # "absent"
        BY <2>1, <3>0 DEF CreateTour, TypeOK, Answer, Goto
      <3>3. pc'[r] = "createPlan" /\ \A q \in Procs : q # r => pc'[q] = pc[q]
        BY <2>1 DEF Goto, TypeOK
      <3>. QED
        BY <2>j, <2>b, <3>0, <3>1, <3>2, <3>3, <1>t, PlanFrame DEF Planning
    <2>2. CASE ~(CreateTour(r) /\ Goto(r, "createPlan"))
      <3>0. \A m \in {"error", "can not found", "not Enough slot",
                      "Time Registration is over", "This tour having in cart",
                      "user bought can not delete"} : m # "oke"
        OBVIOUS
      <3>1. \/ UNCHANGED reply /\ \E l \in {"order", "updateCheck", "deleteSave",
                                   "voteSave", "cartInsert", "cartDelete"} : Goto(r, l)
            \/ \E m : Answer(r, m) /\ m # "oke"
        <4>1. CASE CreateTour(r)
          BY <2>2, <3>0, <4>1, Zenon DEF CreateTour
        <4>2. CASE BookRead(r)
          BY <3>0, <4>2, Zenon DEF BookRead
        <4>3. CASE DeleteRead(r) \/ VoteRead(r)
          BY <3>0, <4>3, Zenon DEF DeleteRead, VoteRead
        <4>4. CASE UpdateRead(r) \/ CartEmptyFind(r)
          BY <4>4, Zenon DEF UpdateRead, CartEmptyFind
        <4>5. CASE CartCreateFind(r)
          BY <3>0, <4>5, Zenon DEF CartCreateFind
        <4>6. CASE CartDeleteFind(r)
          BY <3>0, <4>6, Zenon DEF CartDeleteFind
        <4>. QED
          BY <1>1, <4>1, <4>2, <4>3, <4>4, <4>5, <4>6, Zenon DEF Arrival
      <3>2. CASE \E m : Answer(r, m) /\ m # "oke"
        BY <3>2, <2>j, <2>m, <2>b, <1>a
      <3>3. CASE UNCHANGED reply /\ \E l \in {"order", "updateCheck", "deleteSave",
                                   "voteSave", "cartInsert", "cartDelete"} : Goto(r, l)
        BY <3>3, <2>j, <2>m, <2>b, <1>a
      <3>. QED
        BY <3>1, <3>2, <3>3
    <2>. QED
      BY <2>1, <2>2
  <1>2. ASSUME NEW r \in Requests, Booking(r) \/ BookMail(r) PROVE PlanInv'
    <2>0. UNCHANGED <<plan, job>> /\ pc[r] \in BookPcs
      BY <1>2, Zenon DEF Booking, BookOrder, BookDetail, BookLink, BookPassengers,
             BookCounterSelect, BookFullSelect, BookCartFind, BookCartRemove, BookMail,
             BookPcs, db
    <2>1. \/ /\ UNCHANGED reply
             /\ \E l \in {"detail", "link", "passengers", "counter", "save", "mail",
                          "cartRemove"} : Goto(r, l)
          \/ \E m : Answer(r, m)
      BY <1>2 DEF Booking, BookOrder, BookDetail, BookLink, BookPassengers,
             BookCounterSelect, BookFullSelect, BookCartFind, BookCartRemove, BookMail
    <2>2. job[r].kind = "book" /\ reply[r] = "none" /\ ~Planning(r)
      BY <2>0, <1>k DEF Kinded, BookPcs, Planning
    <2>3. \A q \in Busy : q = r
      BY <2>0, OnlyBusy DEF BookPcs
    <2>. QED
      BY <2>0, <2>1, <2>2, <2>3, <1>a
  <1>3. ASSUME NEW r \in Requests, CreatePlan(r) \/ UpdatePlan(r) PROVE PlanInv'
    <2>0. PICK i \in Tours : i = job[r].tour
      BY <1>k
    <2>1. job[r].fault # "row" /\ job[r].days \in Nat /\ job[r].kind \in {"create", "update"}
      BY <1>3, <1>k DEF NoRowRefused, Job, CreatePlan, UpdatePlan, Kinded
    <2>2. PICK n : /\ plan' = [plan EXCEPT ![i] = @ + n]
                   /\ \/ CreatePlan(r) /\ n = job[r].days
                      \/ UpdatePlan(r) /\ n = Added(r)
      BY <1>3, <2>0, <2>1 DEF CreatePlan, UpdatePlan
    <2>3. Answer(r, "oke") /\ UNCHANGED <<tour, job>>
      BY <1>3, <2>1 DEF CreatePlan, UpdatePlan
    <2>4. /\ pc'[r] = "done" /\ reply'[r] = "oke"
          /\ \A q \in Requests : q # r => pc'[q] = pc[q] /\ reply'[q] = reply[q]
      BY <2>3 DEF Answer, Goto, TypeOK
    <2>5. \A q \in Busy : q = r
      BY <1>3, OnlyBusy DEF CreatePlan, UpdatePlan
    <2>6. tour[i].status # "absent"
      BY <1>3, <1>k, <2>0 DEF CreatePlan, UpdatePlan, PlanInv, View
    <2>7. \/ n = job[r].days /\ plan[i] = 0 /\ Stored(i) = {}
          \/ n = IF job[r].days > plan[i] THEN job[r].days - plan[i] ELSE 0
      BY <2>0, <2>2 DEF CreatePlan, UpdatePlan, PlanInv, Added
    <2>8. Stored(i)' = Stored(i) \cup {r} /\ \A t \in Tours : t # i => Stored(t)' = Stored(t)
      BY <2>0, <2>1, <2>3, <2>4 DEF Stored
    <2>9. plan[i] \in Nat /\ plan'[i] = plan[i] + n /\ \A t \in Tours : t # i => plan'[t] = plan[t]
      BY <2>2 DEF TypeOK
    <2>10. \A q \in Requests : job[q].days \in Nat
      BY DEF TypeOK, Job
    <2>11. /\ \A q \in Stored(i) \cup {r} : job[q].days <= plan'[i]
           /\ plan'[i] = 0 \/ \E q \in Stored(i) \cup {r} : job[q].days = plan'[i]
      <3>1. CASE n = job[r].days /\ plan[i] = 0 /\ Stored(i) = {}
        BY <3>1, <2>1, <2>9
      <3>2. CASE job[r].days > plan[i] /\ n = job[r].days - plan[i]
        <4>1. plan'[i] = job[r].days
          BY <3>2, <2>1, <2>9
        <4>2. \A q \in Stored(i) : q \in Requests /\ job[q].days <= plan[i]
          BY DEF PlanInv, Stored
        <4>. QED
          BY <3>2, <4>1, <4>2, <2>1, <2>9, <2>10
      <3>3. CASE ~(job[r].days > plan[i]) /\ n = 0
        <4>1. plan'[i] = plan[i] /\ job[r].days <= plan[i]
          BY <3>3, <2>1, <2>9
        <4>. QED
          BY <4>1 DEF PlanInv
      <3>. QED
        BY <2>7, <3>1, <3>2, <3>3
    <2>12. ASSUME NEW t \in Tours
           PROVE  /\ \A q \in Stored(t)' : job'[q].days <= plan'[t]
                  /\ plan'[t] = 0 \/ \E q \in Stored(t)' : job'[q].days = plan'[t]
                  /\ tour'[t].status = "absent" => plan'[t] = 0 /\ Stored(t)' = {}
      <3>1. CASE t = i
        BY <3>1, <2>3, <2>6, <2>8, <2>11
      <3>2. CASE t # i
        BY <3>2, <2>3, <2>8, <2>9 DEF PlanInv
      <3>. QED
        BY <3>1, <3>2
    <2>13. ASSUME NEW q \in Requests PROVE pc'[q] # "createPlan" /\ ~Planning(q)'
      <3>1. pc'[q] \in {"new", "done", "idle"}
        BY <2>4, <2>5 DEF Busy
      <3>. QED
        BY <3>1 DEF Planning
    <2>. QED
      BY <2>12, <2>13 DEF PlanInv, Planning
  <1>4. ASSUME NEW r \in Requests, Editing(r), ~CreatePlan(r), ~UpdatePlan(r)
        PROVE  PlanInv'
    <2>0. UNCHANGED <<plan, job>> /\ pc[r] \notin {"new", "done", "idle"}
      BY <1>4, Zenon DEF Editing, UpdateCheck, UpdateSelect, DeleteSelect, VoteSelect,
             SaveUpdate, CartInsert, CartDelete, db
    <2>1. reply[r] = "none" /\ r \in Procs /\ mem[r] \in Memory
      BY <2>0, <1>k DEF Kinded, TypeOK
    <2>2. \A q \in Busy : q = r
      BY <2>0, OnlyBusy
    <2>3. CASE CartInsert(r) \/ CartDelete(r)
      <3>1. Answer(r, "oke") /\ job[r].kind \notin {"create", "update"}
        BY <2>3, <1>k DEF CartInsert, CartDelete, Kinded
      <3>. QED
        BY <2>0, <2>1, <2>2, <3>1, <1>a
    <2>4. CASE UpdateCheck(r)
      <3>1. CASE Answer(r, "error")
        BY <3>1, <2>0, <2>1, <2>2, <1>a
      <3>2. CASE /\ mem' = [mem EXCEPT ![r].seen = plan[mem[r].snap.id]]
                 /\ Goto(r, "updateSave") /\ UNCHANGED reply
        <4>1. mem[r].snap = tour[job[r].tour]
          BY <2>4, <1>k DEF UpdateCheck, View, Holds
        <4>2. mem[r].snap.id = job[r].tour
          BY <4>1, <1>k DEF TypeOK
        <4>3. /\ mem'[r].seen = plan[job[r].tour] /\ pc'[r] = "updateSave"
              /\ \A q \in Procs : q # r => pc'[q] = pc[q]
          BY <3>2, <4>2, <2>1 DEF Goto, TypeOK, Memory
        <4>. QED
          BY <3>2, <4>3, <2>0, <2>1, <2>2, <1>t, PlanFrame
      <3>. QED
        BY <2>4, <3>1, <3>2 DEF UpdateCheck
    <2>5. CASE UpdateSelect(r)
      <3>1. PICK e : Select(r, e, job[r].omits, "updatePlan")
        BY <2>5 DEF UpdateSelect
      <3>2. mem'[r].seen = mem[r].seen
        BY <3>1, <2>1, SelectSeen
      <3>3. Planning(r) /\ Goto(r, "save") /\ UNCHANGED reply
        BY <2>5 DEF UpdateSelect, Planning
      <3>. QED
        BY <2>0, <2>1, <2>2, <3>2, <3>3, <1>a
    <2>6. CASE DeleteSelect(r) \/ VoteSelect(r)
      <3>1. /\ job[r].kind # "update" /\ ~Planning(r)
            /\ Goto(r, "save") /\ UNCHANGED reply
        BY <2>6, <1>k DEF DeleteSelect, VoteSelect, Planning, Kinded
      <3>. QED
        BY <2>0, <2>1, <2>2, <3>1, <1>a
    <2>7. CASE SaveUpdate(r)
      <3>1. CASE Answer(r, "oke") /\ mem[r].next = "done"
        <4>1. job[r].kind \notin {"create", "update"}
          BY <2>7, <3>1, <1>k DEF SaveUpdate, Kinded
        <4>. QED
          BY <3>1, <4>1, <2>0, <2>1, <2>2, <1>a
      <3>2. CASE Goto(r, mem[r].next) /\ mem[r].next # "done" /\ UNCHANGED <<mem, reply>>
        <4>1. PICK l : l = mem[r].next
          OBVIOUS
        <4>2. /\ Goto(r, l) /\ l \in {"full", "cart", "updatePlan"}
              /\ l = "updatePlan" => Planning(r)
          BY <2>7, <3>2, <4>1, <1>k DEF SaveUpdate, Kinded, Planning
        <4>. QED
          BY <3>2, <4>2, <2>0, <2>1, <2>2, <1>a
      <3>. QED
        BY <2>7, <3>1, <3>2 DEF SaveUpdate
    <2>. QED
      BY <1>4, <2>3, <2>4, <2>5, <2>6, <2>7 DEF Editing
  <1>5. ASSUME NEW c \in CronRuns, Cron(c) PROVE PlanInv'
    <2>0. UNCHANGED <<plan, job, reply>> /\ c \in Procs /\ c \notin Requests
      BY <1>5, ConstantsAssumption DEF Cron, CronRead, CronSelect, CronUpdate, db
    <2>1. \A q \in Procs : q # c => pc'[q] = pc[q]
      BY <1>5 DEF Cron, CronRead, CronSelect, CronUpdate, Goto, TypeOK
    <2>2. \A q \in Busy : q = c
      <3>1. CASE CronRead(c)
        BY <3>1, EmptyWhenAlone DEF CronRead, AloneInv
      <3>2. CASE CronSelect(c) \/ CronUpdate(c)
        BY <3>2, <2>0, OnlyBusy DEF CronSelect, CronUpdate
      <3>. QED
        BY <1>5, <3>1, <3>2 DEF Cron
    <2>. QED
      BY <2>0, <2>1, <2>2, <1>t, PlanFrame
  <1>6. CASE Tick \/ UNCHANGED vars
    BY <1>6 DEF Tick, vars, db, PlanInv, Stored
  <1>7. CASE Crash
    <2>1. /\ UNCHANGED <<plan, job, tour>>
          /\ \A q \in Requests : /\ pc'[q] # "createPlan" /\ ~Planning(q)'
                                 /\ \/ reply'[q] = reply[q]
                                    \/ reply'[q] = "lost" /\ pc[q] # "done"
      BY <1>7 DEF Crash, db, Busy, Planning
    <2>2. \A q \in Requests : pc[q] # "done" => reply[q] = "none"
      BY <1>k DEF Kinded
    <2>3. \A t : Stored(t)' = Stored(t)
      BY <2>1, <2>2 DEF Stored
    <2>. QED
      BY <2>1, <2>3 DEF PlanInv, Planning
  <1>. QED
    BY <1>1, <1>2, <1>3, <1>4, <1>5, <1>6, <1>7 DEF Next

(* With one handler at a time and no schedule row refused, a tour has as     *)
(* many schedule rows as the longest list stored, even when the manager dies *)
(* between saving the tour and its schedules.                                *)
THEOREM LongestPlanStored ==
  ASSUME MaxInFlight <= 1, NoRowRefused PROVE Spec => []PlanIsLongest
  <1>1. Init => PlanInv
    BY DEF Init, PlanInv, Stored
  <1>2. Spec => []DatesInv
    BY InitType, InitDates, TypeStep, DatesStep, PTL DEF Spec
  <1>3. TypeOK /\ DatesInv /\ AloneInv /\ PlanInv /\ [Next]_vars => PlanInv'
    BY PlanStep, TypeStep
  <1>4. PlanInv => PlanIsLongest
    BY DEF PlanInv, PlanIsLongest, Stored
  <1>. QED
    BY <1>1, <1>2, <1>3, <1>4, AloneHolds, TypeCorrect, PTL DEF Spec

--------------------------------------------------------------------------------
(* Seats: a booking owes its party to the counter from its order row until  *)
(* the save of the counter, and nobody else is there meanwhile.             *)

Counting(r) == pc[r] \in Placed \/ (pc[r] = "save" /\ job[r].kind = "book")

SaleInv ==
    /\ \A t \in Tours :
          /\ sold[t] <= tour[t].baseQuantity
          /\ tour[t].status = "absent" => sold[t] = 0 /\ tour[t].quantity = 0
          /\ (\A r \in Requests : job[r].tour = t => ~Counting(r))
                => sold[t] = tour[t].quantity
    /\ \A r \in Requests :
          /\ pc[r] \in Placed => sold[job[r].tour] = tour[job[r].tour].quantity + job[r].party
          /\ pc[r] = "save" /\ job[r].kind = "book" => sold[job[r].tour] = mem[r].want.quantity

(* Without a booking between its order row and its counter, the counter of a *)
(* tour is what is sold.                                                     *)
LEMMA SettledCounter ==
  ASSUME SaleInv, NEW p, \A q \in Busy : q = p, NEW t \in Tours,
         ~(p \in Requests /\ Counting(p) /\ job[p].tour = t)
  PROVE  sold[t] = tour[t].quantity
  <1>1. ASSUME NEW q \in Requests, job[q].tour = t PROVE ~Counting(q)
    <2>1. CASE q = p
      BY <1>1, <2>1
    <2>2. CASE q # p
      <3>1. pc[q] \in {"new", "done", "idle"}
        BY <2>2 DEF Busy
      <3>. QED
        BY <3>1 DEF Counting, Placed
    <2>. QED
      BY <2>1, <2>2
  <1>. QED
    BY <1>1 DEF SaleInv

LEMMA SaleFrame ==
  ASSUME SaleInv, UNCHANGED job, NEW p \in Procs, \A q \in Busy : q = p,
         \A q \in Procs : q # p => pc'[q] = pc[q],
         \A t \in Tours :
            /\ sold'[t] <= tour'[t].baseQuantity
            /\ tour'[t].status = "absent" => sold'[t] = 0 /\ tour'[t].quantity = 0
            /\ \/ sold'[t] = tour'[t].quantity
               \/ p \in Requests /\ Counting(p)' /\ job[p].tour = t,
         p \in Requests =>
            /\ pc'[p] \in Placed =>
                  sold'[job[p].tour] = tour'[job[p].tour].quantity + job[p].party
            /\ pc'[p] = "save" /\ job[p].kind = "book" =>
                  sold'[job[p].tour] = mem'[p].want.quantity
  PROVE  SaleInv'
  <1>1. ASSUME NEW q \in Requests, q # p PROVE pc'[q] \notin Placed /\ pc'[q] # "save"
    <2>1. pc'[q] \in {"new", "done", "idle"}
      BY <1>1 DEF Busy
    <2>. QED
      BY <2>1 DEF Placed
  <1>2. ASSUME NEW q \in Requests
        PROVE  /\ pc'[q] \in Placed =>
                     sold'[job'[q].tour] = tour'[job'[q].tour].quantity + job'[q].party
               /\ pc'[q] = "save" /\ job'[q].kind = "book" =>
                     sold'[job'[q].tour] = mem'[q].want.quantity
    BY <1>1
  <1>3. ASSUME NEW t \in Tours,
               \A r \in Requests : job'[r].tour = t => ~Counting(r)'
        PROVE  sold'[t] = tour'[t].quantity
    BY <1>3
  <1>. QED
    BY <1>2, <1>3 DEF SaleInv

(* Steps of a request that neither sell nor save. *)
LEMMA SaleStill ==
  ASSUME TypeOK, SaleInv, UNCHANGED <<tour, sold, job>>, NEW p \in Procs,
         \A q \in Busy : q = p, NEW l, Goto(p, l),
         p \in Requests /\ Counting(p) => l \in Placed /\ pc[p] \in Placed,
         p \in Requests /\ l \in Placed => pc[p] \in Placed,
         p \in Requests /\ l = "save" => job[p].kind # "book"
  PROVE  SaleInv'
  <1>1. pc'[p] = l /\ \A q \in Procs : q # p => pc'[q] = pc[q]
    BY DEF Goto, TypeOK
  <1>2. ASSUME NEW t \in Tours
        PROVE  /\ sold'[t] <= tour'[t].baseQuantity
               /\ tour'[t].status = "absent" => sold'[t] = 0 /\ tour'[t].quantity = 0
    BY DEF SaleInv
  <1>3. ASSUME NEW t \in Tours
        PROVE  \/ sold'[t] = tour'[t].quantity
               \/ p \in Requests /\ Counting(p)' /\ job[p].tour = t
    <2>1. CASE p \in Requests /\ Counting(p) /\ job[p].tour = t
      BY <2>1, <1>1 DEF Counting
    <2>2. CASE ~(p \in Requests /\ Counting(p) /\ job[p].tour = t)
      BY <2>2, SettledCounter
    <2>. QED
      BY <2>1, <2>2
  <1>4. p \in Requests =>
            /\ pc'[p] \in Placed =>
                  sold'[job[p].tour] = tour'[job[p].tour].quantity + job[p].party
            /\ pc'[p] = "save" /\ job[p].kind = "book" =>
                  sold'[job[p].tour] = mem'[p].want.quantity
    BY <1>1 DEF SaleInv
  <1>. QED
    BY <1>1, <1>2, <1>3, <1>4, SaleFrame

LEMMA BookingSale ==
  ASSUME NoRowRefused, TypeOK, DatesInv, AloneInv, SaleInv, NEW r \in Requests,
         Booking(r) \/ BookMail(r)
  PROVE  SaleInv'
  <1>0. /\ r \in Procs /\ mem[r] \in Memory /\ mem[r].snap \in Row
        /\ job[r].tour \in Tours /\ tour[job[r].tour] \in Row /\ job[r].party \in Int
    BY DEF TypeOK, Memory, Job
  <1>v. Kinded(r) /\ View(r) /\ job[r] \in Asks[r]
    BY DEF AloneInv
  <1>p. pc[r] \in BookPcs /\ UNCHANGED <<tour, job>>
    BY Zenon DEF Booking, BookOrder, BookDetail, BookLink, BookPassengers,
           BookCounterSelect, BookFullSelect, BookCartFind, BookCartRemove, BookMail,
           BookPcs, db
  <1>k. job[r].kind = "book" /\ reply[r] = "none"
    BY <1>p, <1>v DEF Kinded, BookPcs
  <1>b. \A q \in Busy : q = r
    BY <1>0, <1>p, OnlyBusy DEF BookPcs
  <1>i. PICK i \in Tours : i = job[r].tour
    BY <1>0
  <1>t. tour[i] \in Row /\ sold[i] \in Int /\ tour[i].quantity \in Int
        /\ tour[i].baseQuantity \in Int
    BY DEF TypeOK, Row
  <1>1. CASE BookOrder(r)
    <2>1. CASE Answer(r, "error") /\ UNCHANGED sold
      <3>1. Goto(r, "done") /\ ~Counting(r)
        BY <1>1, <2>1 DEF Answer, BookOrder, Counting, Placed
      <3>. QED
        BY <1>p, <1>b, <2>1, <3>1, SaleStill DEF Placed
    <2>2. CASE /\ sold' = [sold EXCEPT ![job[r].tour] = @ + job[r].party]
               /\ Goto(r, "detail")
      <3>1. pc[r] = "order" /\ ~Counting(r)
        BY <1>1 DEF BookOrder, Counting, Placed
      <3>2. sold[i] = tour[i].quantity /\ \A t \in Tours : sold[t] = tour[t].quantity
        BY <1>b, <3>1, SettledCounter
      <3>3. tour[i].baseQuantity - tour[i].quantity >= job[r].party
        BY <1>v, <1>i, <3>1 DEF View, EnoughSlot
      <3>4. /\ sold'[i] = sold[i] + job[r].party
            /\ \A t \in Tours : t # i => sold'[t] = sold[t]
        BY <1>i, <2>2 DEF TypeOK
      <3>5. sold'[i] <= tour[i].baseQuantity
        BY <1>0, <1>t, <3>2, <3>3, <3>4
      <3>6. tour[i].status # "absent"
        <4>1. mem[r].snap.status # "absent" /\ mem[r].snap = tour[i]
          BY <1>i, <1>v, <3>1 DEF DatesInv, Reading, View, Holds
        <4>. QED
          BY <4>1
      <3>7. pc'[r] = "detail" /\ \A q \in Procs : q # r => pc'[q] = pc[q]
        BY <1>0, <2>2 DEF Goto, TypeOK
      <3>8. ASSUME NEW t \in Tours
            PROVE  /\ sold'[t] <= tour'[t].baseQuantity
                   /\ tour'[t].status = "absent" => sold'[t] = 0 /\ tour'[t].quantity = 0
                   /\ \/ sold'[t] = tour'[t].quantity
                      \/ r \in Requests /\ Counting(r)' /\ job[r].tour = t
        <4>1. CASE t = i
          BY <4>1, <1>p, <1>i, <3>5, <3>6, <3>7 DEF Counting, Placed
        <4>2. CASE t # i
          BY <4>2, <1>p, <3>2, <3>4 DEF SaleInv
        <4>. QED
          BY <4>1, <4>2
      <3>9. sold'[job[r].tour] = tour'[job[r].tour].quantity + job[r].party
        BY <1>i, <1>p, <3>2, <3>4
      <3>. QED
        BY <1>p, <1>0, <1>b, <3>7, <3>8, <3>9, SaleFrame
    <2>. QED
      BY <1>1, <2>1, <2>2 DEF BookOrder
  <1>2. CASE BookDetail(r) \/ BookLink(r) \/ BookPassengers(r)
    <2>1. job[r].fault # "row"
      BY <1>v DEF NoRowRefused
    <2>2. PICK l \in Placed : Goto(r, l)
      BY <1>2, <2>1 DEF BookDetail, BookLink, BookPassengers, Placed
    <2>3. pc[r] \in Placed /\ UNCHANGED sold /\ l # "save"
      BY <1>2 DEF BookDetail, BookLink, BookPassengers, Placed
    <2>. QED
      BY <1>p, <1>0, <1>b, <2>2, <2>3, SaleStill
  <1>s. ASSUME NEW e \in Row, NEW next, Select(r, e, {}, next), Goto(r, "save"),
               UNCHANGED sold, sold[i] = e.quantity
        PROVE  SaleInv'
    <2>1. mem'[r].want = e
      BY <1>0, <1>s, SelectEffect
    <2>2. pc'[r] = "save" /\ \A q \in Procs : q # r => pc'[q] = pc[q]
      BY <1>0, <1>s DEF Goto, TypeOK
    <2>3. ASSUME NEW t \in Tours
          PROVE  /\ sold'[t] <= tour'[t].baseQuantity
                 /\ tour'[t].status = "absent" => sold'[t] = 0 /\ tour'[t].quantity = 0
                 /\ \/ sold'[t] = tour'[t].quantity
                    \/ r \in Requests /\ Counting(r)' /\ job[r].tour = t
      <3>1. sold'[t] <= tour'[t].baseQuantity
            /\ (tour'[t].status = "absent" => sold'[t] = 0 /\ tour'[t].quantity = 0)
        BY <1>s, <1>p DEF SaleInv
      <3>2. CASE t = i
        BY <3>1, <3>2, <1>i, <1>k, <1>p, <2>2 DEF Counting
      <3>3. CASE t # i
        <4>1. sold[t] = tour[t].quantity
          BY <3>3, <1>i, <1>b, SettledCounter
        <4>. QED
          BY <3>1, <4>1, <1>s, <1>p
      <3>. QED
        BY <3>2, <3>3
    <2>4. "save" \notin Placed
      BY DEF Placed
    <2>. QED
      BY <1>0, <1>b, <1>i, <1>p, <1>s, <2>1, <2>2, <2>3, <2>4, SaleFrame
  <1>3. CASE BookCounterSelect(r)
    <2>1. PICK e : e = Counted(r)
      OBVIOUS
    <2>2. /\ mem[r].snap = tour[i] /\ sold[i] = tour[i].quantity + job[r].party
      BY <1>3, <1>i, <1>v DEF BookCounterSelect, View, Holds, SaleInv, Placed
    <2>3. e \in Row /\ e.quantity = tour[i].quantity + job[r].party
      BY <2>1, <2>2, <1>0 DEF Counted, Row
    <2>4. PICK next : Select(r, e, {}, next)
      BY <1>3, <2>1 DEF BookCounterSelect
    <2>. QED
      BY <1>3, <1>s, <2>2, <2>3, <2>4 DEF BookCounterSelect, db
  <1>4. CASE BookFullSelect(r)
    <2>1. PICK e : e = Full(r)
      OBVIOUS
    <2>2. mem[r].want.quantity = tour[i].quantity
      BY <1>4, <1>i, <1>v DEF BookFullSelect, View
    <2>3. e \in Row /\ e.quantity = tour[i].quantity
      BY <2>1, <2>2, <1>0 DEF Full, Row, Memory, Statuses, Open
    <2>4. Select(r, e, {}, "cart")
      BY <1>4, <2>1 DEF BookFullSelect
    <2>5. ~Counting(r)
      BY <1>4 DEF BookFullSelect, Counting, Placed
    <2>6. sold[i] = tour[i].quantity
      BY <1>b, <2>5, SettledCounter
    <2>. QED
      BY <1>4, <1>s, <2>3, <2>4, <2>6 DEF BookFullSelect, db
  <1>5. CASE BookCartFind(r) \/ BookCartRemove(r) \/ BookMail(r)
    <2>1. /\ ~Counting(r) /\ UNCHANGED sold
          /\ \E l \in {"mail", "cartRemove", "done"} : Goto(r, l)
      BY <1>5 DEF BookCartFind, BookCartRemove, BookMail, Counting, Placed, Answer, db
    <2>. QED
      BY <1>p, <1>0, <1>b, <2>1, SaleStill DEF Placed
  <1>. QED
    BY <1>1, <1>2, <1>3, <1>4, <1>5 DEF Booking

LEMMA ArrivalSale ==
  ASSUME MaxInFlight <= 1, SeatsAreCounts, TypeOK, AloneInv, SaleInv,
         NEW r \in Requests, Arrival(r)
  PROVE  SaleInv'
  <1>0. r \in Procs /\ job[r] \in Job /\ job[r].tour \in Tours
    BY DEF TypeOK, Job
  <1>n. pc[r] = "new" /\ Cardinality(Busy) < MaxInFlight
    BY DEF Arrival, BookRead, CreateTour, UpdateRead, DeleteRead, VoteRead,
           CartCreateFind, CartDeleteFind, CartEmptyFind, Arrives
  <1>b. \A q \in Busy : q = r
    BY <1>n, EmptyWhenAlone DEF AloneInv
  <1>c. ~Counting(r)
    BY <1>n DEF Counting, Placed
  <1>u. UNCHANGED <<sold, job>>
    BY Zenon DEF Arrival, BookRead, CreateTour, UpdateRead, DeleteRead, VoteRead,
           CartCreateFind, CartDeleteFind, CartEmptyFind, db
  <1>g. \E l \in {"done", "order", "createPlan", "updateCheck", "deleteSave", "voteSave",
                  "cartInsert", "cartDelete"} : Goto(r, l)
    <2>1. CASE BookRead(r) \/ CreateTour(r)
      BY <2>1 DEF BookRead, CreateTour, Answer
    <2>2. CASE UpdateRead(r) \/ DeleteRead(r) \/ VoteRead(r)
      BY <2>2 DEF UpdateRead, DeleteRead, VoteRead, Answer
    <2>3. CASE CartCreateFind(r) \/ CartDeleteFind(r) \/ CartEmptyFind(r)
      BY <2>3 DEF CartCreateFind, CartDeleteFind, CartEmptyFind, Answer
    <2>. QED
      BY <2>1, <2>2, <2>3 DEF Arrival
  <1>1. CASE UNCHANGED tour
    BY <1>0, <1>1, <1>b, <1>c, <1>g, <1>u, SaleStill DEF Placed
  <1>2. CASE CreateTour(r) /\ ~UNCHANGED tour
    <2>0. PICK i \in Tours : i = job[r].tour
      BY <1>0
    <2>1. /\ tour[i].status = "absent" /\ tour'[i].quantity = 0
          /\ tour'[i].status # "absent" /\ tour'[i].baseQuantity = job[r].seats
          /\ \A t \in Tours : t # i => tour'[t] = tour[t]
      BY <1>2, <2>0 DEF CreateTour, TypeOK
    <2>2. sold[i] = 0 /\ job[r].seats \in Nat
      BY <1>0, <2>1 DEF SaleInv, Job, SeatsAreCounts, AloneInv
    <2>3. /\ \A q \in Procs : q # r => pc'[q] = pc[q]
          /\ pc'[r] \notin Placed \cup {"save"}
      BY <1>0, <1>g DEF Goto, TypeOK, Placed
    <2>4. ASSUME NEW t \in Tours
          PROVE  /\ sold'[t] <= tour'[t].baseQuantity
                 /\ tour'[t].status = "absent" => sold'[t] = 0 /\ tour'[t].quantity = 0
                 /\ sold'[t] = tour'[t].quantity
      <3>1. CASE t = i
        BY <3>1, <2>1, <2>2, <1>u
      <3>2. CASE t # i
        <4>1. sold[t] = tour[t].quantity
          BY <1>b, <1>c, SettledCounter
        <4>. QED
          BY <3>2, <4>1, <2>1, <1>u DEF SaleInv
      <3>. QED
        BY <3>1, <3>2
    <2>. QED
      BY <1>0, <1>b, <1>u, <2>3, <2>4, SaleFrame
  <1>3. CreateTour(r) \/ UNCHANGED tour
    BY DEF Arrival, BookRead, UpdateRead, DeleteRead, VoteRead, CartCreateFind,
           CartDeleteFind, CartEmptyFind, db
  <1>. QED
    BY <1>1, <1>2, <1>3

LEMMA EditingSale ==
  ASSUME TypeOK, DatesInv, AloneInv, SaleInv, [Next]_vars, NEW r \in Requests, Editing(r)
  PROVE  SaleInv'
  <1>0. /\ r \in Procs /\ mem[r] \in Memory /\ job[r] \in Job /\ job[r].tour \in Tours
    BY DEF TypeOK, Job
  <1>v. Kinded(r) /\ View(r)
    BY DEF AloneInv
  <1>u. UNCHANGED <<sold, job>> /\ pc[r] \notin {"new", "done", "idle"}
    BY Zenon DEF Editing, CreatePlan, UpdatePlan, CartInsert, CartDelete, UpdateCheck,
           UpdateSelect, DeleteSelect, VoteSelect, SaveUpdate, db
  <1>b. \A q \in Busy : q = r
    BY <1>0, <1>u, OnlyBusy
  <1>1. CASE ~SaveUpdate(r)
    <2>1. UNCHANGED tour
      BY <1>1 DEF Editing, CreatePlan, UpdatePlan, CartInsert, CartDelete, UpdateCheck,
             UpdateSelect, DeleteSelect, VoteSelect, db
    <2>2. ~Counting(r)
      BY <1>1 DEF Editing, CreatePlan, UpdatePlan, CartInsert, CartDelete, UpdateCheck,
             UpdateSelect, DeleteSelect, VoteSelect, Counting, Placed
    <2>3. CASE CreatePlan(r) \/ UpdatePlan(r) \/ CartInsert(r) \/ CartDelete(r) \/ UpdateCheck(r)
      <3>1. Goto(r, "done") \/ Goto(r, "updateSave")
        BY <2>3 DEF CreatePlan, UpdatePlan, CartInsert, CartDelete, UpdateCheck, Answer
      <3>. QED
        BY <3>1, <2>1, <2>2, <1>0, <1>u, <1>b, SaleStill DEF Placed
    <2>4. CASE UpdateSelect(r) \/ DeleteSelect(r) \/ VoteSelect(r)
      <3>1. Goto(r, "save") /\ job[r].kind # "book"
        BY <2>4, <1>v DEF UpdateSelect, DeleteSelect, VoteSelect, Kinded
      <3>. QED
        BY <3>1, <2>1, <2>2, <1>0, <1>u, <1>b, SaleStill DEF Placed
    <2>. QED
      BY <1>1, <2>3, <2>4 DEF Editing
  <1>2. CASE SaveUpdate(r)
    <2>0. Update(r) /\ pc[r] = "save"
      BY <1>2 DEF SaveUpdate
    <2>1. PICK i \in Tours : i = job[r].tour /\ i = mem[r].want.id
      BY <2>0, <1>0, <1>v DEF View
    <2>2. tour'[i] = Outcome(r) /\ \A t \in Tours : t # i => tour'[t] = tour[t]
      BY <1>0, <2>0, <2>1, UpdateOutcome
    <2>3. tour'[i].status # "absent"
      <3>1. mem[r].want.status # "absent" /\ Dated(mem[r].want)
        BY <1>0, <2>0 DEF DatesInv, Writing
      <3>2. tour[i].status # "absent"
        BY <2>1, <3>1 DEF Dated
      <3>. QED
        BY <3>2, RowsRemain
    <2>4. \A q \in Procs : q # r => pc'[q] = pc[q]
      BY <1>2 DEF SaveUpdate, Goto, Answer, TypeOK
    <2>5. pc'[r] \in {"done", "full", "cart", "updatePlan"}
      BY <1>0, <1>2, <2>0, <1>v DEF SaveUpdate, Kinded, Answer, Goto, TypeOK
    <2>6. sold[i] = tour'[i].quantity
      <3>1. CASE job[r].kind = "book"
        BY <3>1, <2>0, <2>1, <2>2, <1>v DEF SaleInv, View
      <3>2. CASE job[r].kind # "book"
        <4>1. ~Counting(r)
          BY <3>2, <2>0 DEF Counting, Placed
        <4>2. sold[i] = tour[i].quantity
          BY <4>1, <1>b, SettledCounter
        <4>. QED
          BY <3>2, <4>2, <2>0, <2>1, <2>2, <1>v DEF View
      <3>. QED
        BY <3>1, <3>2
    <2>7. sold[i] <= tour'[i].baseQuantity
      <3>1. CASE tour'[i].baseQuantity = tour[i].baseQuantity
        BY <3>1 DEF SaleInv
      <3>2. CASE /\ job[r].kind = "update" /\ Refits(tour[i], job[r])
                 /\ tour'[i].baseQuantity = job[r].seats
                 /\ "baseQuantity" \notin job[r].omits
        <4>1. ~Counting(r)
          BY <3>2, <2>0 DEF Counting, Placed
        <4>2. sold[i] = tour[i].quantity
          BY <4>1, <1>b, SettledCounter
        <4>3. sold[i] \in Int /\ job[r].seats \in Int
          BY <1>0 DEF TypeOK, Job
        <4>. QED
          BY <3>2, <4>2, <4>3 DEF Refits
      <3>. QED
        BY <3>1, <3>2, <2>0, <2>1, <2>2, <1>v DEF View
    <2>8. ASSUME NEW t \in Tours
          PROVE  /\ sold'[t] <= tour'[t].baseQuantity
                 /\ tour'[t].status = "absent" => sold'[t] = 0 /\ tour'[t].quantity = 0
                 /\ sold'[t] = tour'[t].quantity
      <3>1. CASE t = i
        BY <3>1, <2>3, <2>6, <2>7, <1>u
      <3>2. CASE t # i
        <4>1. sold[t] = tour[t].quantity
          BY <3>2, <2>1, <1>b, SettledCounter
        <4>. QED
          BY <3>2, <4>1, <2>2, <1>u DEF SaleInv
      <3>. QED
        BY <3>1, <3>2
    <2>. QED
      BY <1>0, <1>b, <1>u, <2>4, <2>5, <2>8, SaleFrame DEF Placed
  <1>. QED
    BY <1>1, <1>2

LEMMA CronSale ==
  ASSUME MaxInFlight <= 1, TypeOK, DatesInv, AloneInv, SaleInv, [Next]_vars,
         NEW c \in CronRuns, Cron(c)
  PROVE  SaleInv'
  <1>0. UNCHANGED <<sold, job>> /\ c \in Procs /\ c \notin Requests
    BY ConstantsAssumption DEF Cron, CronRead, CronSelect, CronUpdate, db
  <1>1. \A q \in Procs : q # c => pc'[q] = pc[q]
    BY DEF Cron, CronRead, CronSelect, CronUpdate, Goto, TypeOK
  <1>2. \A q \in Busy : q = c
    <2>1. CASE CronRead(c)
      BY <2>1, EmptyWhenAlone DEF CronRead, AloneInv
    <2>2. CASE CronSelect(c) \/ CronUpdate(c)
      BY <2>2, <1>0, OnlyBusy DEF CronSelect, CronUpdate
    <2>. QED
      BY <2>1, <2>2 DEF Cron
  <1>3. \A t \in Tours : Same(tour'[t], tour[t])
    <2>1. CASE CronRead(c) \/ CronSelect(c)
      BY <2>1 DEF CronRead, CronSelect, db, Same
    <2>2. CASE CronUpdate(c)
      <3>0. PICK i \in Tours : i = mem[c].want.id
        BY <1>0 DEF TypeOK, Memory, Row
      <3>1. tour'[i] = Outcome(c) /\ \A t \in Tours : t # i => tour'[t] = tour[t]
        BY <1>0, <2>2, <3>0, UpdateOutcome DEF CronUpdate
      <3>2. Same(Outcome(c), tour[i])
        BY <2>2, <3>0 DEF CronUpdate, AloneInv, CronView
      <3>. QED
        BY <3>1, <3>2 DEF Same
    <2>. QED
      BY <2>1, <2>2 DEF Cron
  <1>4. ASSUME NEW t \in Tours
        PROVE  /\ sold'[t] <= tour'[t].baseQuantity
               /\ tour'[t].status = "absent" => sold'[t] = 0 /\ tour'[t].quantity = 0
               /\ sold'[t] = tour'[t].quantity
    <2>1. sold[t] = tour[t].quantity
      BY <1>0, <1>2, SettledCounter
    <2>2. tour'[t].status = "absent" => tour[t].status = "absent"
      BY RowsRemain
    <2>. QED
      BY <1>0, <1>3, <2>1, <2>2 DEF Same, SaleInv
  <1>. QED
    BY <1>0, <1>1, <1>2, <1>4, SaleFrame

(* What booking needs besides one handler at a time: the manager does not die *)
(* between an order row and its counter, no passenger row is refused there,   *)
(* and clients send no negative number of persons or seats.                   *)
SafeSale == /\ MaxInFlight <= 1 /\ MaxCrashes = 0 /\ NoRowRefused
            /\ PartiesAreCounts /\ SeatsAreCounts

LEMMA SaleStep ==
  ASSUME SafeSale, TypeOK, DatesInv, AloneInv, SaleInv, [Next]_vars
  PROVE  SaleInv'
  <1>0. MaxInFlight <= 1 /\ MaxCrashes = 0 /\ NoRowRefused /\ SeatsAreCounts
    BY DEF SafeSale
  <1>1. ASSUME NEW r \in Requests, Arrival(r) PROVE SaleInv'
    BY <1>0, <1>1, ArrivalSale
  <1>2. ASSUME NEW r \in Requests, Booking(r) \/ BookMail(r) PROVE SaleInv'
    BY <1>0, <1>2, BookingSale
  <1>3. ASSUME NEW r \in Requests, Editing(r) PROVE SaleInv'
    BY <1>0, <1>3, EditingSale
  <1>4. ASSUME NEW c \in CronRuns, Cron(c) PROVE SaleInv'
    BY <1>0, <1>4, CronSale
  <1>5. CASE Tick \/ UNCHANGED vars
    BY <1>5 DEF Tick, vars, db, SaleInv, Counting
  <1>6. ~Crash
    BY <1>0 DEF Crash, TypeOK
  <1>. QED
    BY <1>1, <1>2, <1>3, <1>4, <1>5, <1>6 DEF Next

LEMMA InitSale == Init => SaleInv
  <1> SUFFICES ASSUME Init PROVE SaleInv
    OBVIOUS
  <1>1. \A t \in Tours : tour[t].quantity = 0 /\ tour[t].baseQuantity = 0 /\ sold[t] = 0
    BY DEF Init, NoRow
  <1>2. \A r \in Requests : pc[r] = "new"
    BY DEF Init
  <1>. QED
    BY <1>1, <1>2 DEF SaleInv, Placed

(* The strengthened invariant of the sale of seats: with one handler at a    *)
(* time, no crash and no schedule row refused, the counter of a tour is what *)
(* its orders carry, up to the booking now in progress.                      *)
THEOREM SaleHolds == ASSUME SafeSale PROVE Spec => [](DatesInv /\ AloneInv /\ SaleInv)
  <1>0. MaxInFlight <= 1
    BY DEF SafeSale
  <1>1. Spec => []DatesInv
    BY InitType, InitDates, TypeStep, DatesStep, PTL DEF Spec
  <1>2. Spec => []AloneInv
    BY <1>0, AloneHolds
  <1>3. TypeOK /\ DatesInv /\ AloneInv /\ SaleInv /\ [Next]_vars => SaleInv'
    BY SaleStep
  <1>. QED
    BY <1>1, <1>2, <1>3, InitSale, TypeCorrect, PTL DEF Spec

(* Never more persons on orders than seats: what 'not Enough slot' is for.   *)
THEOREM NeverOverbooked == ASSUME SafeSale PROVE Spec => []NoOverbooking
  <1>1. SaleInv => NoOverbooking
    BY DEF SaleInv, NoOverbooking
  <1>. QED
    BY <1>1, SaleHolds, PTL

(* Between bookings the counter of a tour is the number of persons sold.     *)
THEOREM CounterExact == ASSUME SafeSale PROVE Spec => []CounterIsExact
  <1>1. SaleInv => CounterIsExact
    BY DEF SaleInv, CounterIsExact, Counting, Placed
  <1>. QED
    BY <1>1, SaleHolds, PTL

Capacity == [t \in Tours |-> tour[t].baseQuantity]

LEMMA ResizeStep ==
  ASSUME TypeOK, TypeOK', SaleInv', UNCHANGED sold, NEW i \in Tours,
         \A t \in Tours : t # i => tour'[t] = tour[t]
  PROVE  Sale!Next
  <1>1. Capacity' = [Capacity EXCEPT ![i] = tour'[i].baseQuantity]
    BY DEF Capacity
  <1>2. Capacity'[i] = tour'[i].baseQuantity /\ sold[i] <= tour'[i].baseQuantity
    BY DEF Capacity, SaleInv
  <1>3. sold[i] \in Int /\ tour'[i].baseQuantity \in Int
    BY DEF TypeOK, Row
  <1>4. Sale!Resize(i)
    BY <1>1, <1>2, <1>3 DEF Sale!Resize, Capacity
  <1>. QED
    BY <1>4 DEF Sale!Next

LEMMA SaleSimulation ==
  ASSUME PartiesAreCounts, TypeOK, TypeOK', AloneInv, SaleInv, SaleInv', [Next]_vars
  PROVE  [Sale!Next]_<<Capacity, sold>>
  <1>0. UNCHANGED <<sold, tour>> => UNCHANGED <<Capacity, sold>>
    BY DEF Capacity
  <1>1. ASSUME NEW r \in Requests, CreateTour(r), ~UNCHANGED tour PROVE Sale!Next
    <2>1. PICK i \in Tours : i = job[r].tour
      BY DEF TypeOK, Job
    <2>2. UNCHANGED sold /\ \A t \in Tours : t # i => tour'[t] = tour[t]
      BY <1>1, <2>1 DEF CreateTour, TypeOK
    <2>. QED
      BY <2>2, ResizeStep
  <1>2. ASSUME NEW r \in Requests, BookOrder(r), ~UNCHANGED sold PROVE Sale!Next
    <2>1. PICK i \in Tours : i = job[r].tour
      BY DEF TypeOK, Job
    <2>2. PICK n \in Nat : n = job[r].party
      BY PartyCounts
    <2>3. sold' = [sold EXCEPT ![i] = @ + n] /\ UNCHANGED tour
      BY <1>2, <2>1, <2>2 DEF BookOrder
    <2>4. sold'[i] = sold[i] + n /\ sold[i] \in Int /\ tour[i].baseQuantity \in Int
      BY <2>3 DEF TypeOK, Row
    <2>5. sold'[i] <= tour[i].baseQuantity
      BY <2>3 DEF SaleInv
    <2>6. n \in 0..(Capacity[i] - sold[i])
      BY <2>4, <2>5 DEF Capacity
    <2>7. UNCHANGED Capacity
      BY <2>3 DEF Capacity
    <2>8. Sale!Sell(i)
      BY <2>3, <2>6, <2>7 DEF Sale!Sell, Capacity
    <2>. QED
      BY <2>8 DEF Sale!Next
  <1>u. ASSUME NEW p \in Procs, Update(p), UNCHANGED sold PROVE Sale!Next
    <2>1. PICK i \in Tours : i = mem[p].want.id
      BY <1>u, UpdateOutcome
    <2>. QED
      BY <1>u, <2>1, UpdateOutcome, ResizeStep
  <1>3. ASSUME NEW r \in Requests, SaveUpdate(r) PROVE Sale!Next
    BY <1>3, <1>u DEF SaveUpdate
  <1>4. ASSUME NEW c \in CronRuns, CronUpdate(c) PROVE Sale!Next
    BY <1>4, <1>u DEF CronUpdate
  <1>5. ASSUME NEW r \in Requests, Arrival(r) PROVE CreateTour(r) \/ UNCHANGED <<sold, tour>>
    BY <1>5 DEF Arrival, BookRead, UpdateRead, DeleteRead, VoteRead, CartCreateFind,
                CartDeleteFind, CartEmptyFind, db
  <1>6. ASSUME NEW r \in Requests, Booking(r) \/ BookMail(r)
        PROVE  BookOrder(r) \/ UNCHANGED <<sold, tour>>
    BY <1>6 DEF Booking, BookDetail, BookLink, BookPassengers, BookCounterSelect,
                BookFullSelect, BookCartFind, BookCartRemove, BookMail, db
  <1>7. ASSUME NEW r \in Requests, Editing(r)
        PROVE  SaveUpdate(r) \/ UNCHANGED <<sold, tour>>
    BY <1>7 DEF Editing, CreatePlan, UpdateCheck, UpdateSelect, UpdatePlan,
                DeleteSelect, VoteSelect, CartInsert, CartDelete, db
  <1>8. ASSUME NEW c \in CronRuns, Cron(c)
        PROVE  CronUpdate(c) \/ UNCHANGED <<sold, tour>>
    BY <1>8 DEF Cron, CronRead, CronSelect, db
  <1>9. Tick \/ Crash \/ UNCHANGED vars => UNCHANGED <<sold, tour>>
    BY DEF Tick, Crash, vars, db
  <1>10. \A r \in Requests : /\ CreateTour(r) => UNCHANGED sold
                             /\ BookOrder(r) => UNCHANGED tour
    BY DEF CreateTour, BookOrder
  <1>. QED
    BY <1>0, <1>1, <1>2, <1>3, <1>4, <1>5, <1>6, <1>7, <1>8, <1>9, <1>10 DEF Next

(* With one handler at a time the tour service implements SeatSale: seats    *)
(* are sold while they last and capacity never drops below what is sold.     *)
THEOREM ImplementsSale == ASSUME SafeSale PROVE Spec => SaleSpec
  <1>1. Init => Sale!Init
    BY DEF Init, Sale!Init, NoRow
  <1>2. TypeOK /\ TypeOK' /\ AloneInv /\ SaleInv /\ SaleInv' /\ [Next]_vars
           => [Sale!Next]_<<Capacity, sold>>
    BY SaleSimulation DEF SafeSale
  <1>3. [Sale!Next]_<<Capacity, sold>>
           => [Sale!Next]_<<[t \in Tours |-> tour[t].baseQuantity], sold>>
    BY DEF Capacity
  <1>4. Spec => [][Sale!Next]_<<[t \in Tours |-> tour[t].baseQuantity], sold>>
    BY <1>2, <1>3, SaleHolds, TypeCorrect, PTL DEF Spec
  <1>. QED
    BY <1>1, <1>4, PTL DEF Spec, SaleSpec, Sale!Spec
================================================================================
