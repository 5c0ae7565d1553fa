-------------------------------- MODULE SeatSale -------------------------------
(****************************************************************************)
(* What booking promises when requests do not overlap: a tour has a         *)
(* capacity, seats are sold while they last, and the capacity never drops   *)
(* below what is sold.                                                      *)
(****************************************************************************)
EXTENDS Integers

CONSTANT Tours

VARIABLES capacity, taken

Init == /\ capacity = [t \in Tours |-> 0]
        /\ taken = [t \in Tours |-> 0]

Sell(t) == /\ \E n \in 0..(capacity[t] - taken[t]) :
                 taken' = [taken EXCEPT ![t] = @ + n]
           /\ UNCHANGED capacity

Resize(t) == /\ capacity'[t] >= taken[t]
             /\ capacity' = [capacity EXCEPT ![t] = capacity'[t]]
             /\ UNCHANGED taken

Next == \E t \in Tours : Sell(t) \/ Resize(t)

Spec == Init /\ [][Next]_<<capacity, taken>>
================================================================================
