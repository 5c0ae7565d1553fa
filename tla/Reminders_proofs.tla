----------------------------- MODULE Reminders_proofs --------------------------
(****************************************************************************)
(* What is proved of the reminders, for every instance: the calendar only   *)
(* restricts TourBooking, so what holds there holds beside it; and between  *)
(* the status job and midnight every tour that no request saved shows the   *)
(* status its dates called for when the job ran last, which is all that the *)
(* reminder of two o'clock, going by the status alone, can know.            *)
(****************************************************************************)
EXTENDS Reminders, TourBooking_proofs

USE DEF Procs

(* A step of the calendar is a step of TourBooking or leaves it alone. *)
LEMMA CalendarStep == [RemindersNext]_<<vars, calendar>> => [Next]_vars
  <1> SUFFICES ASSUME [RemindersNext]_<<vars, calendar>> PROVE [Next]_vars
    OBVIOUS
  <1>1. ASSUME NEW r \in Requests, Serve(r) PROVE Next
    BY <1>1 DEF Serve, Next
  <1>2. ASSUME NEW c \in CronRuns, Midnight(c) PROVE Next
    BY <1>2 DEF Midnight, Next
  <1>3. ASSUME NEW r \in Requests, Mail(r) PROVE UNCHANGED vars
    BY <1>3 DEF Mail
  <1>4. Morning \/ Remind => UNCHANGED vars
    BY DEF Morning, Remind
  <1>5. Pass \/ Night \/ Dies => Next
    BY DEF Pass, Night, Dies, Next
  <1>. QED
    BY <1>1, <1>2, <1>3, <1>4, <1>5 DEF RemindersNext

(* Everything proved of TourBooking's specification holds of the manager    *)
(* that runs its jobs by the calendar.                                      *)
THEOREM CalendarRefines == RemindersSpec => Spec
  <1>1. RemindersInit => Init
    BY DEF RemindersInit
  <1>. QED
    BY <1>1, CalendarStep, PTL DEF RemindersSpec, Spec

(* Beside the calendar too, the copies of the seat counter in the table and *)
(* in the handlers never show more persons than the confirmed orders have,  *)
(* when no request books a negative number of persons.                      *)
THEOREM LedgerByCalendar == ASSUME PartiesAreCounts PROVE RemindersSpec => []LedgerInv
  BY CalendarRefines, LedgerHolds, PTL

--------------------------------------------------------------------------------
(* The status an open row shows is the one its dates call for at moment m. *)
Followed(t, m) ==
    tour[t].status \in Open =>
       /\ tour[t].lastRegisterDate <= m /\ m < tour[t].startDate
             => tour[t].status = "LAST"
       /\ tour[t].startDate <= m /\ m <= tour[t].endDate
             => tour[t].status = "TRAVELING"
       /\ ~(m > tour[t].endDate)

(* Once the job has run for the last time today, every tour that no request *)
(* saved since shows the status of that moment until midnight.              *)
CalendarInv ==
    /\ dawn \in Nat
    /\ hour \in {"midnight", "day", "evening"}
    /\ \A c \in CronRuns : pc[c] \in {"idle", "cronSave", "cronUpdate"}
    /\ hour # "midnight" => /\ \A c \in CronRuns : pc[c] = "idle"
                            /\ \A t \in Tours \ touched : Followed(t, dawn + Sweep)

(* What Followed reads of a row stays as it was. *)
SameDates(t) ==
    /\ tour'[t].status = tour[t].status
    /\ tour'[t].lastRegisterDate = tour[t].lastRegisterDate
    /\ tour'[t].startDate = tour[t].startDate
    /\ tour'[t].endDate = tour[t].endDate

(* A request's step moves no cron run. *)
LEMMA ServeMoves ==
  ASSUME TypeOK, NEW r \in Requests,
         Arrival(r) \/ Booking(r) \/ BookMail(r) \/ Editing(r)
  PROVE  \A c \in CronRuns : pc'[c] = pc[c]
  <1>1. pc \in [Procs -> Pcs] /\ \A c \in CronRuns : c # r
    BY ConstantsAssumption DEF TypeOK
  <1>2. (\E l : Goto(r, l)) \/ (\E m : Answer(r, m)) => \A c \in CronRuns : pc'[c] = pc[c]
    BY <1>1 DEF Goto, Answer
  <1>3. Arrival(r) => (\E l : Goto(r, l)) \/ (\E m : Answer(r, m))
    BY Zenon DEF Arrival, BookRead, CreateTour, UpdateRead, DeleteRead, VoteRead,
          CartCreateFind, CartDeleteFind, CartEmptyFind
  <1>4. Booking(r) \/ BookMail(r) => (\E l : Goto(r, l)) \/ (\E m : Answer(r, m))
    BY Zenon DEF Booking, BookMail, BookOrder, BookDetail, BookLink, BookPassengers,
          BookCounterSelect, BookFullSelect, BookCartFind, BookCartRemove
  <1>5. Editing(r) => (\E l : Goto(r, l)) \/ (\E m : Answer(r, m))
    BY Zenon DEF Editing, CreatePlan, UpdateCheck, UpdateSelect, UpdatePlan,
          DeleteSelect, VoteSelect, SaveUpdate, CartInsert, CartDelete
  <1>. QED
    BY <1>2, <1>3, <1>4, <1>5

(* A request's step keeps the status and the dates of every tour but the    *)
(* one it shapes and the one it creates.                                    *)
LEMMA ServeKeeps ==
  ASSUME TypeOK, NEW r \in Requests,
         Arrival(r) \/ Booking(r) \/ BookMail(r) \/ Editing(r),
         NEW t \in Tours, t \notin Saving(r),
         ~(tour[t].status = "absent" /\ tour'[t].status # "absent")
  PROVE  SameDates(t)
  <1>1. UNCHANGED tour => SameDates(t)
    BY DEF SameDates
  <1>2. CASE CreateTour(r)
    <2>1. CASE UNCHANGED tour
      BY <1>1, <2>1
    <2>2. CASE t # job[r].tour
      BY <1>2, <2>2 DEF CreateTour, SameDates, TypeOK
    <2>3. CASE t = job[r].tour /\ ~UNCHANGED tour
      <3>1. tour[t].status = "absent"
        BY <1>2, <2>3 DEF CreateTour
      <3>2. tour'[t].status = "AVAILABLE"
        BY <1>2, <2>3 DEF CreateTour, TypeOK
      <3>. QED
        BY <3>1, <3>2
    <2>. QED
      BY <2>1, <2>2, <2>3
  <1>3. CASE SaveUpdate(r)
    <2> DEFINE w == mem[r].want
               d == mem[r].dirty
    <2>1. /\ pc[r] = "save"
          /\ tour' = [tour EXCEPT ![w.id] = Merge(tour[w.id], w, d)]
      BY <1>3 DEF SaveUpdate, Update
    <2>2. CASE t # w.id
      BY <2>1, <2>2 DEF SameDates, TypeOK
    <2>3. CASE t = w.id
      <3>1. d \cap Shaping = {}
        BY <2>1, <2>3 DEF Saving
      <3>2. "status" \notin d /\ "lastRegisterDate" \notin d
        BY <3>1 DEF Shaping
      <3>3. tour[t] \in Row /\ tour'[t] = Merge(tour[t], w, d)
        BY <2>1, <2>3 DEF TypeOK
      <3> HIDE DEF w, d
      <3>4. /\ Merge(tour[t], w, d).status = tour[t].status
            /\ Merge(tour[t], w, d).lastRegisterDate = tour[t].lastRegisterDate
            /\ Merge(tour[t], w, d).startDate = tour[t].startDate
            /\ Merge(tour[t], w, d).endDate = tour[t].endDate
        BY <3>2, <3>3 DEF Merge, Row
      <3>. QED
        BY <3>3, <3>4 DEF SameDates
    <2>. QED
      BY <2>2, <2>3
  <1>4. CASE Arrival(r) /\ ~CreateTour(r)
    BY <1>1, <1>4 DEF Arrival, BookRead, UpdateRead, DeleteRead, VoteRead,
          CartCreateFind, CartDeleteFind, CartEmptyFind, db
  <1>5. CASE Booking(r) \/ BookMail(r)
    BY <1>1, <1>5 DEF Booking, BookMail, BookOrder, BookDetail, BookLink,
          BookPassengers, BookCounterSelect, BookFullSelect, BookCartFind,
          BookCartRemove, db
  <1>6. CASE Editing(r) /\ ~SaveUpdate(r)
    BY <1>1, <1>6 DEF Editing, CreatePlan, UpdateCheck, UpdateSelect, UpdatePlan,
          DeleteSelect, VoteSelect, CartInsert, CartDelete, db
  <1>. QED
    BY <1>2, <1>3, <1>4, <1>5, <1>6

(* When the job's hour is over, every row it has to save is as saved. *)
LEMMA MorningFollows ==
  ASSUME TypeOK, Morning, NEW t \in Tours
  PROVE  Followed(t, dawn + Sweep)
  <1> SUFFICES ASSUME tour[t].status \in Open
               PROVE  /\ tour[t].lastRegisterDate <= now /\ now < tour[t].startDate
                            => tour[t].status = "LAST"
                      /\ tour[t].startDate <= now /\ now <= tour[t].endDate
                            => tour[t].status = "TRAVELING"
                      /\ ~(now > tour[t].endDate)
    BY DEF Followed, Morning
  <1>1. tour[t] \in Row /\ tour[t].id = t
    BY DEF TypeOK
  <1>2. ASSUME NEW s \in {"LAST", "TRAVELING", "DONE"}, Due([tour[t] EXCEPT !.status = s])
        PROVE  tour[t].status = s
    <2> DEFINE e == [tour[t] EXCEPT !.status = s]
    <2>1. e.id = t /\ e.status = s
      BY <1>1 DEF Row
    <2>2. e \in {[tour[u] EXCEPT !.status = v] :
                    u \in Tours, v \in {"LAST", "TRAVELING", "DONE"}}
      OBVIOUS
    <2>3. e \in Saves
      <3>1. tour[e.id].status \in Open /\ Due(e)
        BY <1>2, <2>1
      <3> HIDE DEF e
      <3>. QED
        BY <2>2, <3>1 DEF Saves
    <2>4. e = tour[t]
      BY <2>1, <2>3 DEF Morning
    <2>. QED
      BY <2>1, <2>4
  <1>3. \A s \in {"LAST", "TRAVELING", "DONE"} :
           /\ [tour[t] EXCEPT !.status = s].status = s
           /\ [tour[t] EXCEPT !.status = s].lastRegisterDate = tour[t].lastRegisterDate
           /\ [tour[t] EXCEPT !.status = s].startDate = tour[t].startDate
           /\ [tour[t] EXCEPT !.status = s].endDate = tour[t].endDate
    BY <1>1 DEF Row
  <1>4. tour[t].lastRegisterDate <= now /\ now < tour[t].startDate
           => Due([tour[t] EXCEPT !.status = "LAST"])
    BY <1>3 DEF Due
  <1>5. tour[t].startDate <= now /\ now <= tour[t].endDate
           => Due([tour[t] EXCEPT !.status = "TRAVELING"])
    BY <1>3 DEF Due
  <1>6. now > tour[t].endDate => Due([tour[t] EXCEPT !.status = "DONE"])
    BY <1>3 DEF Due
  <1>7. tour[t].status # "DONE"
    BY DEF Open
  <1>. QED
    BY <1>2, <1>4, <1>5, <1>6, <1>7

LEMMA FollowedStays ==
  ASSUME NEW t \in Tours, SameDates(t), UNCHANGED dawn, Followed(t, dawn + Sweep)
  PROVE  Followed(t, dawn + Sweep)'
  BY DEF SameDates, Followed

LEMMA CalendarKept ==
    TypeOK /\ CalendarInv /\ [RemindersNext]_<<vars, calendar>> => CalendarInv'
  <1> SUFFICES ASSUME TypeOK, CalendarInv, [RemindersNext]_<<vars, calendar>>
               PROVE  CalendarInv'
    OBVIOUS
  <1>0. UNCHANGED <<tour, dawn>> =>
           \A t \in Tours : Followed(t, dawn + Sweep) => Followed(t, dawn + Sweep)'
    BY DEF Followed
  <1>1. ASSUME NEW r \in Requests, Serve(r) PROVE CalendarInv'
    <2>1. /\ Arrival(r) \/ Booking(r) \/ BookMail(r) \/ Editing(r)
          /\ UNCHANGED <<hour, dawn>>
          /\ touched' = touched \cup Saving(r)
               \cup {t \in Tours : tour[t].status = "absent" /\ tour'[t].status # "absent"}
      BY <1>1 DEF Serve
    <2>3. \A c \in CronRuns : pc'[c] = pc[c]
      BY <2>1, ServeMoves
    <2>4. ASSUME hour # "midnight", NEW t \in Tours \ touched' PROVE Followed(t, dawn + Sweep)'
      <3>1. t \in Tours \ touched /\ t \notin Saving(r)
            /\ ~(tour[t].status = "absent" /\ tour'[t].status # "absent")
        BY <2>1, <2>4
      <3>2. SameDates(t)
        BY <2>1, <3>1, ServeKeeps
      <3>3. Followed(t, dawn + Sweep)
        BY <2>4, <3>1 DEF CalendarInv
      <3>. QED
        BY <2>1, <3>1, <3>2, <3>3, FollowedStays
    <2>. QED
      BY <2>1, <2>3, <2>4 DEF CalendarInv
  <1>2. ASSUME NEW c \in CronRuns, Midnight(c) PROVE CalendarInv'
    <2>1. hour = "midnight" /\ hour' = "midnight" /\ dawn' = dawn
      BY <1>2 DEF Midnight, calendar
    <2>2. \E l \in {"idle", "cronSave", "cronUpdate"} : Goto(c, l)
      BY <1>2 DEF Midnight, Cron, CronRead, CronSelect, CronUpdate
    <2>3. \A d \in CronRuns : pc'[d] \in {"idle", "cronSave", "cronUpdate"}
      BY <2>2 DEF Goto, CalendarInv, TypeOK
    <2>. QED
      BY <2>1, <2>3 DEF CalendarInv
  <1>3. ASSUME NEW r \in Requests, Mail(r) PROVE CalendarInv'
    <2>1. UNCHANGED <<tour, dawn, pc, hour, touched>>
      BY <1>3 DEF Mail, vars
    <2>. QED
      BY <1>0, <2>1 DEF CalendarInv
  <1>4. CASE Morning
    <2>1. UNCHANGED <<tour, dawn, pc>> /\ hour' = "day" /\ \A c \in CronRuns : pc[c] = "idle"
      BY <1>4 DEF Morning, vars
    <2>2. \A t \in Tours : Followed(t, dawn + Sweep)
      BY <1>4, MorningFollows
    <2>. QED
      BY <1>0, <2>1, <2>2 DEF CalendarInv
  <1>5. CASE Remind
    <2>1. UNCHANGED <<tour, dawn, pc, touched>> /\ hour = "day" /\ hour' = "evening"
      BY <1>5 DEF Remind, vars
    <2>. QED
      BY <1>0, <2>1 DEF CalendarInv
  <1>6. CASE Night
    <2>1. hour' = "midnight" /\ dawn' \in Nat /\ UNCHANGED pc
      BY <1>6 DEF Night, Tick, TypeOK
    <2>. QED
      BY <2>1 DEF CalendarInv
  <1>p. CASE Pass
    <2>1. UNCHANGED <<tour, dawn, pc, hour, touched>>
      BY <1>p DEF Pass, Tick, calendar, db
    <2>. QED
      BY <1>0, <2>1 DEF CalendarInv
  <1>7. CASE Dies
    <2>1. UNCHANGED <<tour, dawn>>
      BY <1>7 DEF Dies, Crash, db
    <2>2. \A c \in CronRuns : pc'[c] = "idle" \/ pc'[c] = pc[c]
      BY <1>7, ConstantsAssumption DEF Dies, Crash
    <2>3. \/ UNCHANGED <<hour, touched>>
          \/ hour' = "day" /\ touched' = Tours
          \/ hour = "day" /\ hour' = "evening" /\ UNCHANGED touched
      BY <1>7 DEF Dies
    <2>4. CASE hour' = "day" /\ touched' = Tours
      <3>1. \A c \in CronRuns : pc'[c] = "idle"
        BY <1>7, ConstantsAssumption DEF Dies, Crash, Busy, CalendarInv
      <3>. QED
        BY <2>1, <2>4, <3>1 DEF CalendarInv
    <2>5. CASE UNCHANGED touched /\ (hour' = "midnight" \/ hour # "midnight")
                /\ hour' \in {"midnight", "day", "evening"}
      BY <1>0, <2>1, <2>2, <2>5 DEF CalendarInv
    <2>. QED
      BY <2>3, <2>4, <2>5 DEF CalendarInv
  <1>8. CASE UNCHANGED <<vars, calendar>>
    <2>1. UNCHANGED <<tour, dawn, pc, hour, touched>>
      BY <1>8 DEF vars, calendar
    <2>. QED
      BY <1>0, <2>1 DEF CalendarInv
  <1>. QED
    BY <1>1, <1>2, <1>3, <1>4, <1>5, <1>6, <1>p, <1>7, <1>8 DEF RemindersNext

LEMMA InitCalendar == RemindersInit => CalendarInv
  BY ConstantsAssumption DEF RemindersInit, Init, CalendarInv

(* Of the tours that no request saved today, the reminder's query by status *)
(* finds only such as were ahead at the job's last run, and every one whose *)
(* dates call for a reminder.                                               *)
LEMMA StatusIsEnough ==
  ASSUME TypeOK, DatesInv, CalendarInv, hour = "day",
         now = dawn + Afternoon, NEW t \in Tours, t \notin touched
  PROVE  /\ t \in Announced => Ahead(t, dawn + Sweep)
         /\ t \in Departing => t \in Announced
  <1>1. /\ tour[t] \in Row /\ now \in Nat
        /\ tour[t].startDate \in Nat /\ tour[t].endDate \in Nat
        /\ tour[t].lastRegisterDate \in Nat
    BY DEF TypeOK, Row
  <1>m. PICK m \in Nat : m = dawn + Sweep /\ m < now
    BY CalendarAssumption DEF CalendarInv
  <1>2. Followed(t, m)
    BY <1>m DEF CalendarInv
  <1>3. tour[t].status = "DONE" => now > tour[t].endDate
    BY DEF DatesInv, Dated, Right
  <1>4. ASSUME t \in Announced PROVE Ahead(t, m)
    <2>1. tour[t].status = "LAST"
      BY <1>4 DEF Announced
    <2>. QED
      BY <1>1, <1>2, <2>1 DEF Followed, Ahead, Open
  <1>5. ASSUME t \in Departing PROVE t \in Announced
    <2>1. /\ tour[t].status \notin {"absent", "Delete"}
          /\ tour[t].lastRegisterDate <= m
          /\ Ahead(t, now) /\ Soon(t)
      BY <1>5, <1>m DEF Departing
    <2>2. tour[t].status \in Open
      BY <1>1, <1>3, <2>1 DEF Ahead, Row, Statuses
    <2>3. tour[t].status = "LAST"
      BY <1>1, <1>m, <1>2, <2>1, <2>2 DEF Followed, Ahead
    <2>. QED
      BY <2>1, <2>3 DEF Announced
  <1>. QED
    BY <1>m, <1>4, <1>5

LEMMA ChancesKept ==
    TypeOK /\ DatesInv /\ CalendarInv /\ ChancesAreTaken /\ [RemindersNext]_<<vars, calendar>>
        => ChancesAreTaken'
  <1> SUFFICES ASSUME TypeOK, DatesInv, CalendarInv, ChancesAreTaken,
                      [RemindersNext]_<<vars, calendar>>
               PROVE  ChancesAreTaken'
    OBVIOUS
  <1>1. UNCHANGED <<due, mailed, bounced, chances>> => ChancesAreTaken'
    BY DEF ChancesAreTaken
  <1>2. ASSUME NEW r \in Requests, Serve(r) PROVE ChancesAreTaken'
    BY <1>1, <1>2 DEF Serve
  <1>3. ASSUME NEW r \in Requests, Mail(r) PROVE ChancesAreTaken'
    BY <1>3 DEF Mail, ChancesAreTaken
  <1>4. ASSUME NEW c \in CronRuns, Midnight(c) PROVE ChancesAreTaken'
    BY <1>1, <1>4 DEF Midnight, calendar
  <1>5. CASE Morning \/ Pass \/ Night
    BY <1>1, <1>5 DEF Morning, Pass, Night, calendar
  <1>6. CASE Remind
    <2>1. /\ hour = "day" /\ now = dawn + Afternoon
          /\ UNCHANGED <<mailed, bounced>> /\ due \subseteq due'
      BY <1>6 DEF Remind
    <2>2. CASE UNCHANGED chances
      BY <2>1, <2>2 DEF ChancesAreTaken
    <2>3. CASE /\ due' = due \cup (Linked \cap On(Announced))
               /\ chances' = chances \cup (Linked \cap On(Departing \ touched))
      <3>1. \A t \in Departing \ touched : t \in Announced
        BY <2>1, StatusIsEnough DEF Departing
      <3>2. On(Departing \ touched) \subseteq On(Announced)
        BY <3>1 DEF On
      <3>. QED
        BY <2>1, <2>3, <3>2 DEF ChancesAreTaken
    <2>. QED
      BY <1>6, <2>2, <2>3 DEF Remind
  <1>7. CASE Dies
    BY <1>7 DEF Dies, ChancesAreTaken
  <1>8. CASE UNCHANGED <<vars, calendar>>
    BY <1>1, <1>8 DEF calendar
  <1>. QED
    BY <1>2, <1>3, <1>4, <1>5, <1>6, <1>7, <1>8 DEF RemindersNext

(* The invariants the reminders rest on: the statuses of TourBooking's      *)
(* DatesInv, and after the job's hour Followed for every untouched tour.    *)
THEOREM CalendarHolds == RemindersSpec => [](TypeOK /\ DatesInv /\ CalendarInv)
  <1>1. RemindersInit => TypeOK /\ DatesInv /\ CalendarInv
    BY InitType, InitDates, InitCalendar DEF RemindersInit
  <1>2. TypeOK /\ DatesInv /\ CalendarInv /\ [RemindersNext]_<<vars, calendar>>
            => (TypeOK /\ DatesInv /\ CalendarInv)'
    BY CalendarStep, TypeStep, DatesStep, CalendarKept
  <1>. QED
    BY <1>1, <1>2, PTL DEF RemindersSpec

(* Whoever is booked on a tour that its dates call to be announced today is *)
(* mailed today: a tour closed for registration at the job's last run, that *)
(* has not started by two o'clock and starts soon, which no request saved   *)
(* today; unless half an order ended the loop or the manager died over it.  *)
THEOREM NobodyForgotten == RemindersSpec => []ChancesAreTaken
  <1>1. RemindersInit => ChancesAreTaken
    BY DEF RemindersInit, ChancesAreTaken
  <1>. QED
    BY <1>1, CalendarHolds, ChancesKept, PTL DEF RemindersSpec

(* No reminder is started for a tour that had started or was over when the  *)
(* job ran last, unless a request saved that tour or the job was missed: a  *)
(* reminder comes on the day of the start at the latest.                    *)
THEOREM RemindedByDayOfStart == RemindersSpec => RemindersAreTimely
  <1>1. TypeOK /\ DatesInv /\ CalendarInv /\ [RemindersNext]_<<vars, calendar>>
            => [\A r \in due' \ due : \/ job[r].tour \in touched
                                    \/ Ahead(job[r].tour, dawn + Sweep)]_<<vars, calendar>>
    <2> SUFFICES ASSUME TypeOK, DatesInv, CalendarInv, RemindersNext,
                        NEW r \in due' \ due, job[r].tour \notin touched
                 PROVE  Ahead(job[r].tour, dawn + Sweep)
      OBVIOUS
    <2>1. Remind
      <3>1. ASSUME NEW q \in Requests, Serve(q) \/ Mail(q) PROVE due' \subseteq due
        BY <3>1 DEF Serve, Mail
      <3>2. ASSUME NEW c \in CronRuns, Midnight(c) PROVE due' \subseteq due
        BY <3>2 DEF Midnight, calendar
      <3>3. Morning \/ Pass \/ Night \/ Dies => due' \subseteq due
        BY DEF Morning, Pass, Night, Dies, calendar
      <3>. QED
        BY <3>1, <3>2, <3>3 DEF RemindersNext
    <2>2. hour = "day" /\ now = dawn + Afternoon /\ r \in On(Announced)
      BY <2>1 DEF Remind
    <2>3. job[r].tour \in Announced /\ job[r].tour \in Tours
      BY <2>2 DEF On, Announced
    <2>. QED
      BY <2>2, <2>3, StatusIsEnough
  <1>. QED
    BY <1>1, CalendarHolds, PTL DEF RemindersSpec, RemindersAreTimely
================================================================================
