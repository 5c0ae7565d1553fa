------------------------------- MODULE Reminders -------------------------------
(****************************************************************************)
(* The manager's calendar around TourBooking: every minute of the hour      *)
(* after midnight the status job, at two in the afternoon                   *)
(* autoSendMailingToOrder, which mails whoever is booked on a tour that is  *)
(* closed for registration and about to start.  A tour may close or start   *)
(* at any moment of the day, between the two jobs as well.  The handlers of *)
(* TourBooking run at any moment, and the manager may die at any moment and *)
(* stay down until its next job is over.                                    *)
(*                                                                          *)
(* The reminder finds an order through the link bookingTour stores in it    *)
(* after the detail row; the first detail without an order throws, and the  *)
(* mails after it are never started.                                        *)
(****************************************************************************)
EXTENDS TourBooking

CONSTANTS
    PerDay,     \* moments in a day
    Sweep,      \* 00:59: the moment of the day at which the status job runs last
    Afternoon,  \* 14:00: the moment at which the reminders go out
    Notice      \* whole days before the start: 3 in the code

ASSUME CalendarAssumption ==
    /\ PerDay \in Nat /\ Sweep \in Nat /\ Afternoon \in Nat /\ Notice \in Nat
    /\ Sweep < Afternoon /\ Afternoon < PerDay

VARIABLES
    dawn,       \* the midnight that today began with
    hour,       \* "midnight", "day" and "evening": before the jobs and after
    due,        \* orders whose mail was started today and not yet taken
    mailed, bounced,    \* history: orders mailed, or refused by the mail server
    touched,    \* history: tours whose status or dates a request saved since
                \*   midnight, or all of them when the job's hour was missed
    chances     \* history: orders that nothing kept from a reminder on some day

calendar == <<dawn, hour, due, mailed, bounced, touched, chances>>

RemindersInit ==
    /\ Init
    /\ dawn = 0 /\ hour = "midnight" /\ due = {} /\ mailed = {} /\ bounced = {}
    /\ touched = {} /\ chances = {}

--------------------------------------------------------------------------------
(* TourBooking's steps, with the status job in its hour *)

Shaping == {"status", "baseQuantity", "lastRegisterDate"}

(* Which tours a step of request r gives a status or dates. *)
Saving(r) == IF pc[r] = "save" /\ mem[r].dirty \cap Shaping # {}
             THEN {mem[r].want.id} ELSE {}

Serve(r) ==
    /\ Arrival(r) \/ Booking(r) \/ BookMail(r) \/ Editing(r)
    /\ touched' = touched \cup Saving(r)
               \cup {t \in Tours : tour[t].status = "absent" /\ tour'[t].status # "absent"}
    /\ UNCHANGED <<dawn, hour, due, mailed, bounced, chances>>

Midnight(c) == /\ hour = "midnight"
               /\ Cron(c)
               /\ UNCHANGED calendar

(* The job's last run of the night ends: another would save the rows as     *)
(* they are.                                                                *)
Morning == /\ hour = "midnight" /\ now = dawn + Sweep
           /\ \A c \in CronRuns : pc[c] = "idle"
           /\ \A e \in Saves : e = tour[e.id]
           /\ hour' = "day"
           /\ UNCHANGED <<vars, dawn, due, mailed, bounced, touched, chances>>

(* Time passes, up to the hour of the next job or the last moment of today. *)
Close == [midnight |-> Sweep, day |-> Afternoon, evening |-> PerDay - 1]

Pass == /\ now < dawn + Close[hour]
        /\ Tick
        /\ UNCHANGED calendar

Night == /\ hour = "evening" /\ now + 1 = dawn + PerDay
         /\ Tick
         /\ dawn' = now' /\ hour' = "midnight" /\ touched' = {}
         /\ UNCHANGED <<due, mailed, bounced, chances>>

--------------------------------------------------------------------------------
(* autoSendMailingToOrder *)

Linked    == {r \in Requests : order[r] \in {"linked", "complete"}}
Half      == {r \in Requests : order[r] = "detailed"}
On(T)     == {r \in Requests : job[r].tour \in T}

(* Math.floor(days from now to the start) <= Notice, no lower bound: a tour *)
(* that started this morning counts as soon.                                *)
Soon(t) == tour[t].startDate - now < (Notice + 1) * PerDay

AnnouncedByDateSlip == {t \in Tours : tour[t].status # "absent" /\ Soon(t)}

Announced == {t \in Tours : tour[t].status = "LAST" /\ Soon(t)}

(* At moment m the tour has neither started nor ended. *)
Ahead(t, m) == m < tour[t].startDate /\ m <= tour[t].endDate

(* Tours for which the dates call for a reminder today, whatever the row's  *)
(* status says: closed when the status job ran last, not yet started.       *)
Departing == {t \in Tours : /\ tour[t].status \notin {"absent", "Delete"}
                            /\ tour[t].lastRegisterDate <= dawn + Sweep
                            /\ Ahead(t, now) /\ Soon(t)}

(* The query with its relations, then the loop that starts the mails; half  *)
(* an order ends it, wherever in the loop it comes.                         *)
Remind ==
    /\ hour = "day" /\ now = dawn + Afternoon
    /\ hour' = "evening"
    /\ \/ /\ Half \cap On(Announced) = {}
          /\ due' = due \cup (Linked \cap On(Announced))
          /\ chances' = chances \cup (Linked \cap On(Departing \ touched))
       \/ /\ Half \cap On(Announced) # {}
          /\ \E first \in SUBSET (Linked \cap On(Announced)) : due' = due \cup first
          /\ UNCHANGED chances
    /\ UNCHANGED <<vars, dawn, mailed, bounced, touched>>

Mail(r) ==
    /\ r \in due
    /\ due' = due \ {r}
    /\ \/ mailed' = mailed \cup {r} /\ UNCHANGED bounced
       \/ bounced' = bounced \cup {r} /\ UNCHANGED mailed
    /\ UNCHANGED <<vars, dawn, hour, touched, chances>>

--------------------------------------------------------------------------------
(* The manager dies, and is back at once or after the hour of its next job. *)
Dies ==
    /\ Crash
    /\ due' = {} /\ chances' = chances \ due
    /\ \/ UNCHANGED <<hour, touched>>
       \/ hour = "midnight" /\ hour' = "day" /\ touched' = Tours
       \/ hour = "day" /\ hour' = "evening" /\ UNCHANGED touched
    /\ UNCHANGED <<dawn, mailed, bounced>>

RemindersNext ==
    \/ \E r \in Requests : Serve(r) \/ Mail(r)
    \/ \E c \in CronRuns : Midnight(c)
    \/ Morning \/ Pass \/ Remind \/ Night \/ Dies

RemindersSpec == RemindersInit /\ [][RemindersNext]_<<vars, calendar>>

--------------------------------------------------------------------------------
(* Properties *)

(* Whoever is booked at two in the afternoon on a tour that was closed for  *)
(* registration when the status job ran last, has not started and starts    *)
(* soon, is mailed that day unless the manager dies over it, when no seller *)
(* or booking has saved that tour since midnight and no booking stopped     *)
(* half way: the job has every such tour LAST in time, sold out or not.  A  *)
(* tour that closes between the two jobs is still AVAILABLE and left out.   *)
ChancesAreTaken == chances \subseteq due \cup mailed \cup bounced

(* A reminder is started only for a tour that was still ahead when the      *)
(* status job ran last, unless a request saved that tour or the job was     *)
(* missed that day: no later than the day of its start, but perhaps after   *)
(* the start, for a tour that starts between the two jobs is still LAST.    *)
(* (Whether its registration is over by its date is another matter: a save  *)
(* of updateTour that began while the tour was AVAILABLE leaves the LAST    *)
(* which the job wrote meanwhile beside a later lastRegisterDate, for good.)*)
RemindersAreTimely ==
    [][\A r \in due' \ due : \/ job[r].tour \in touched
                            \/ Ahead(job[r].tour, dawn + Sweep)]_<<vars, calendar>>
================================================================================
