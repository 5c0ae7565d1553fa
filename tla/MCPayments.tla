------------------------------ MODULE MCPayments ------------------------------
(****************************************************************************)
(* Small instances of Payments and Statistics: a year of two months, the    *)
(* first the shorter one, so that its missing day runs over into the second *)
(* as 30 February does into March, and orders whose 17 % is an integer      *)
(* (100) or not (50).                                                       *)
(****************************************************************************)
EXTENDS Statistics, TLC

CONSTANTS s1, s2, r0, r1, r2, r3      \* model values

TwoMonths == <<2, 3>>

Ask(kind, stores, months, prices) ==
    [kind : {kind}, store : stores, month : months, price : prices]

Bookings(stores) == Ask("order", stores, {1}, {50, 100})
Confirms(stores) == Ask("confirm", stores, Months, {0})
Edits(stores)    == Ask("edit", stores, {1}, {0})

Shows == Ask("chart", {s1}, {1}, {0}) \cup Ask("income", {s1}, {2}, {0})
         \cup Ask("dashboard", {s1}, {1}, {0}) \cup Ask("profits", {s1}, {1}, {0})

AsksBilling == r0 :> Bookings({s1}) @@ r1 :> (Ask("order", {s1, s2}, {1}, {100}) \cup Edits({s1}))
               @@ r2 :> (Confirms({s1}) \cup Shows) @@ r3 :> (Confirms({s1}) \cup Shows)

(* Not two views; a view beside two bookings, of two stores only for income; *)
(* cents beside an edit.                                                     *)
Telling ==
    /\ \/ \A r \in {r2, r3} : job[r].kind = "confirm"
       \/ /\ \E r \in {r2, r3} : job[r].kind = "confirm"
          /\ job[r0].price = 100 /\ job[r1].kind = "order"
    /\ job[r1].store = s2 => \E r \in {r2, r3} : job[r].kind = "income"
    /\ job[r0].price = 50 => job[r1].kind = "edit"

Alike       == Permutations({r2, r3})
AsksTwice   == r0 :> Ask("order", {s1}, {1}, {100})
               @@ r1 :> Ask("confirm", {s1}, {1}, {0}) @@ r2 :> Ask("confirm", {s1}, {1}, {0})
================================================================================
