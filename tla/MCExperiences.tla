----------------------------- MODULE MCExperiences -----------------------------
(****************************************************************************)
(* One post, then comments and votes on it by two users, while two clients  *)
(* list all experiences, or search the title of the post or another.        *)
(****************************************************************************)
EXTENDS Experiences, Functions, TLC

CONSTANTS u1, u2, w1, w2, w3, r1, r2           \* model values
CONSTANTS beach, food, all                     \* model values: titles, a query

MatchesOf == all :> {beach, food} @@ beach :> {beach} @@ food :> {food}

On(kinds, users) == {[kind |-> k, user |-> u, title |-> food, of |-> w1] :
                        k \in kinds, u \in users}

AsksPost == w1 :> {[kind |-> "create", user |-> u1, title |-> t, of |-> w1] : t \in {beach, food}}
         @@ w2 :> On({"comment"}, {u1}) \cup On({"vote"}, {u1, u2})
         @@ w3 :> On({"vote"}, {u1})

(* At most one refusal, failed query or death of the manager; and no second *)
(* listing beside two votes.                                                *)
FewEvents ==
    /\ job[w2].kind = "vote" => \E r \in Requests : pc[r] = "new"
    /\ Cardinality({r \in Requests : pc[r] = "error"})
       + Cardinality({w \in Writes : reply[w] = "error"})
       + Cardinality({f \in facts : f.val = Failed})
       + (IF \E x \in Range(at) \cup Range(pc) : x = "lost" THEN 1 ELSE 0) <= 1

Alike == Permutations({r1, r2})
================================================================================
