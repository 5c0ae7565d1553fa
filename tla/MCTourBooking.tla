---------------------------- MODULE MCTourBooking ----------------------------
(****************************************************************************)
(* Small instances of TourBooking.  Request cr creates the tour; the others   *)
(* carry one of the jobs offered to them by the configuration.              *)
(****************************************************************************)
EXTENDS TourBooking, TLC

CONSTANTS trip, seller, buyer, cr, r1, r2, r3, c1   \* model values

Base == [kind |-> "book", tour |-> trip, user |-> buyer, party |-> 0, seats |-> 0,
         last |-> 0, start |-> 0, end |-> 0, days |-> 0, price |-> 1,
         omits |-> {}, fault |-> "none"]

Create(n)  == [Base EXCEPT !.kind = "create", !.user = seller, !.seats = n,
                           !.last = 0, !.start = 1, !.end = 1, !.days = 1]
Book(n, f) == [Base EXCEPT !.party = n, !.fault = f]
Edit(n, d, o, f) == [Base EXCEPT !.kind = "update", !.user = seller, !.seats = n,
                                 !.days = d, !.omits = o, !.fault = f]
Vote(u)    == [Base EXCEPT !.kind = "vote", !.user = u]
Remove(u)  == [Base EXCEPT !.kind = "delete", !.user = u]
Cart(k, u) == [Base EXCEPT !.kind = k, !.user = u]

Edits == {Edit(1, 0, {}, "none"), Edit(3, 0, {"baseQuantity"}, "none"),
          Vote(buyer), Remove(seller)}

(* Two bookings against each other and against one edit. *)
AsksCore == LET b == {Book(1, "none"), Book(2, "none"), Book(1, "row")}
            IN  cr :> {Create(2)} @@ r1 :> b @@ r2 :> b @@ r3 :> Edits
Alike    == Permutations({r1, r2})

(* Anything may follow anything, one request at a time. *)
Anything == {Book(1, "none"), Book(2, "none"), Edit(1, 2, {}, "none"),
             Edit(3, 1, {"lastRegisterDate"}, "none"), Remove(seller), Remove(buyer),
             Vote(buyer), Cart("addToCart", buyer), Cart("dropFromCart", buyer),
             Cart("emptyCart", buyer), Create(2)}
AsksSerial == [r \in {r1, r2, r3} |-> Anything] @@ cr :> {Create(2), Create(0)}
Alike3 == Permutations({r1, r2, r3})

(* Two bookings of a tour with one seat. *)
AsksOverbook == cr :> {Create(1)} @@ r1 :> {Book(1, "none")} @@ r2 :> {Book(1, "none")}

(* A tour sold out, then removed by its owner. *)
AsksDelete == cr :> {Create(1)} @@ r1 :> {Book(1, "none")} @@ r2 :> {Remove(seller)}

(* A booking, an edit or a vote races the job, and the manager may die; a   *)
(* tour with a negative number of seats, a party of fewer than nobody.      *)
AsksLive == cr :> {Create(1), Create(-1), [Create(1) EXCEPT !.fault = "row"]}
            @@ r1 :> {Book(1, "none"), Book(-1, "none"), Book(1, "row"),
                      Edit(1, 2, {}, "row"), Vote(buyer)}
================================================================================
