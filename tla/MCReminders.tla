------------------------------ MODULE MCReminders ------------------------------
(****************************************************************************)
(* Days of three moments: the status job runs at the first, the reminders  *)
(* go out at the last.  A tour closes at the job's moment or between the    *)
(* jobs, and starts at the job's moment of the next day, between its jobs,  *)
(* or on the day after; two requests book, edit or vote at any moment.      *)
(****************************************************************************)
EXTENDS Reminders, TLC

CONSTANTS trip, seller, buyer, cr, r1, r2, c1           \* model values

Base == [kind |-> "book", tour |-> trip, user |-> buyer, party |-> 0, seats |-> 0,
         last |-> 0, start |-> 0, end |-> 0, days |-> 0, price |-> 1,
         omits |-> {}, fault |-> "none"]

Tour(last, start) == [Base EXCEPT !.kind = "create", !.user = seller, !.seats = 1,
                           !.last = last, !.start = start, !.end = start, !.days = 1]
Book(f)    == [Base EXCEPT !.party = 1, !.fault = f]
Edit       == [Base EXCEPT !.kind = "update", !.user = seller, !.seats = 1, !.last = 1]
Vote       == [Base EXCEPT !.kind = "vote"]

AsksEve == cr :> {Tour(0, 3), Tour(0, 4), Tour(3, 7), Tour(4, 7)}
           @@ r1 :> {Book("none")}
           @@ r2 :> {Edit, Vote, Book("row"), Book("order")}
================================================================================
