------------------------------ MODULE MCAccounts ------------------------------
(****************************************************************************)
(* Small instances of Accounts: one user (users share no row), request r0   *)
(* registers, the others carry one of the jobs offered to them.             *)
(****************************************************************************)
EXTENDS Accounts, TLC

CONSTANTS u1, r0, r1, r2, r3, r4      \* model values

Of(kinds) == {[kind |-> k, user |-> u1] : k \in kinds}

AsksMixed == r0 :> Of({"register"}) @@ r1 :> Of({"validate"})
             @@ [r \in {r2, r3, r4} |-> Of(Kinds \ {"validate"})]
Alike     == Permutations({r2, r3, r4})
================================================================================
