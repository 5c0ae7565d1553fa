------------------------------- MODULE MCListings ------------------------------
(****************************************************************************)
(* Three listings: a search, which returns its errors as results, and the   *)
(* stores with their income of one month or another, whose key names only   *)
(* the page.                                                                *)
(****************************************************************************)
EXTENDS Listings, FiniteSets, TLC

CONSTANTS r1, r2, v1, v2                                \* model values
CONSTANTS search, january, may                          \* model values: listings
CONSTANTS stores, incomeJanuary, incomeMay              \* model values: queries

RunsOf == search  :> {stores}
       @@ january :> {stores, incomeJanuary}
       @@ may     :> {stores, incomeMay}
KeyOf  == search :> "search" @@ january :> "getAllStorePage" @@ may :> "getAllStorePage"

(* Bound: how often the tables change or a query fails. *)
CONSTANT MaxEvents
FewEvents == Cardinality(facts) <= Cardinality(Queries) * (now + 1) + MaxEvents

Alike == Permutations({r1, r2}) \cup Permutations({v1, v2})
================================================================================
