---------------------------------- MODULE MCRpc --------------------------------
(****************************************************************************)
(* Two calls: one for any route of the gateway, one that registers, whose    *)
(* handlers wait for each other in a circle.                                 *)
(****************************************************************************)
EXTENDS Rpc, TLC

CONSTANTS c1, c2      \* model values

AllRoutes == PublicRoutes \cup AdminRoutes \cup MemberRoutes \cup SellerRoutes
             \cup CartRoutes \cup TourRoutes \cup AuthRoutes

AsksAny == c1 :> AllRoutes @@ c2 :> {Register}
================================================================================
