------------------------------ MODULE SeatCounter ------------------------------
(****************************************************************************)
(* What the seat counter of a tour promises while bookings, edits, votes,   *)
(* the status job and crashes overlap: persons once sold stay sold, and the *)
(* number shown is at most the number sold.  It may fall behind, and even   *)
(* go down.                                                                 *)
(****************************************************************************)
EXTENDS Integers

CONSTANT Tours

VARIABLES sold,   \* persons on confirmed orders
          shown   \* the quantity column

Init == /\ sold = [t \in Tours |-> 0]
        /\ shown = [t \in Tours |-> 0]

Sell(t) == /\ sold'[t] >= sold[t]
           /\ sold' = [sold EXCEPT ![t] = sold'[t]]
           /\ UNCHANGED shown

Show(t) == /\ shown'[t] <= sold[t]
           /\ shown' = [shown EXCEPT ![t] = shown'[t]]
           /\ UNCHANGED sold

Next == \E t \in Tours : Sell(t) \/ Show(t)

Spec == Init /\ [][Next]_<<sold, shown>>
================================================================================
