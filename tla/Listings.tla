-------------------------------- MODULE Listings -------------------------------
(****************************************************************************)
(* The listings of the manager that are read through Redis: a handler looks *)
(* for its key, answers what it finds there, and otherwise runs its queries *)
(* one after the other, stores the result for two seconds and answers it.   *)
(* Nothing that writes the tables removes a key, requests for one key run   *)
(* at once, and the result is stored some time after it was read.           *)
(*                                                                          *)
(* What the queries would answer is the variable truth, which others change *)
(* in any way and at any time.                                              *)
(****************************************************************************)
EXTENDS Integers

CONSTANTS
    Queries,      \* SQL queries with their parameters
    Values,       \* what a query may find
    Failed,       \* what is answered for a query that failed
    Args,         \* a listing with the arguments a client may give it
    Runs,         \* Runs[a]: the queries its handler runs
    Key,          \* Key[a]: the Redis key its handler makes of them
    Swallows,     \* listings that return the errors of their queries as results
    Requests,     \* messages to the manager, each handled once
    TTL,          \* how long Redis keeps an entry
    MaxTime       \* bound: the last moment modelled

ASSUME ListingsAssumption ==
    /\ \A a \in Args : Runs[a] \subseteq Queries
    /\ Swallows \subseteq Args
    /\ TTL \in Nat \ {0} /\ MaxTime \in Nat
    /\ Failed \notin Values

Finding == [query : Queries, val : Values \cup {Failed}]
Fact    == [query : Queries, val : Values \cup {Failed}, at : Nat]
Keys    == {Key[a] : a \in Args}
Entry   == [key : Keys, found : SUBSET Finding, till : Nat]

VARIABLES
    truth,               \* what each query would find now
    cache,               \* the entries in Redis
    now,
    pc, asked, found,    \* of each request: where it stands, its listing, its findings
    since,               \* when it began to query or, done, when it was answered
    facts,               \* history: what a query would have found, or failed, when
    slowest              \* history: the longest time from first query to storing

vars == <<truth, cache, now, pc, asked, found, since, facts, slowest>>

Sees(t, n) == {[query |-> q, val |-> t[q], at |-> n] : q \in Queries}

Init ==
    /\ truth \in [Queries -> Values]
    /\ cache = {} /\ now = 0
    /\ pc = [r \in Requests |-> "new"]
    /\ asked \in [Requests -> Args]
    /\ found = [r \in Requests |-> {}]
    /\ since = [r \in Requests |-> 0]
    /\ facts = Sees(truth, 0) /\ slowest = 0

(* Definitions named ...Slip are mistakes one could make in the code they   *)
(* precede; each is caught by a property of this module.                    *)

Goto(r, l) == pc' = [pc EXCEPT ![r] = l]

Stamp(r) == since' = [since EXCEPT ![r] = now]

--------------------------------------------------------------------------------
(* A handler *)

Refused(r) == /\ Goto(r, "error")
              /\ found' = [found EXCEPT ![r] = {}]

(* redisService.get: the entry is the answer, without one the tables are    *)
(* asked, and without Redis the handler throws.                             *)
Get(r) ==
    /\ pc[r] = "new"
    /\ Stamp(r)
    /\ \/ \E e \in cache :
             /\ e.key = Key[asked[r]]
             /\ found' = [found EXCEPT ![r] = e.found]
             /\ Goto(r, "done")
       \/ /\ \A e \in cache : e.key # Key[asked[r]]
          /\ Goto(r, "query")
          /\ UNCHANGED found
       \/ Refused(r)
    /\ UNCHANGED <<truth, cache, now, asked, facts, slowest>>

Left(r) == {q \in Runs[asked[r]] : \A f \in found[r] : f.query # q}

(* An error of a query is a result, whatever the listing. *)
QueryFailsSlip(r, q) ==
    /\ found' = [found EXCEPT ![r] = {[query |-> q, val |-> Failed]}]
    /\ facts' = facts \cup {[query |-> q, val |-> Failed, at |-> now]}
    /\ Goto(r, "put")
    /\ UNCHANGED <<truth, cache, now, asked, since, slowest>>

QueryFails(r, q) ==
    /\ \/ /\ asked[r] \in Swallows
          /\ found' = [found EXCEPT ![r] = {[query |-> q, val |-> Failed]}]
          /\ Goto(r, "put")
       \/ /\ asked[r] \notin Swallows
          /\ Refused(r)
    /\ facts' = facts \cup {[query |-> q, val |-> Failed, at |-> now]}
    /\ UNCHANGED <<truth, cache, now, asked, since, slowest>>

QueryFinds(r, q) ==
    /\ found' = [found EXCEPT ![r] = @ \cup {[query |-> q, val |-> truth[q]]}]
    /\ Goto(r, IF Left(r) = {q} THEN "put" ELSE "query")
    /\ UNCHANGED <<truth, cache, now, asked, since, facts, slowest>>

Query(r) == /\ pc[r] = "query"
            /\ \E q \in Left(r) : QueryFinds(r, q) \/ QueryFails(r, q)

(* The entry is stored without a time to live. *)
PutForeverSlip(r) ==
    /\ pc[r] = "put"
    /\ cache' = {e \in cache : e.key # Key[asked[r]]}
                \cup {[key |-> Key[asked[r]], found |-> found[r], till |-> MaxTime + 1]}
    /\ slowest' = IF now - since[r] > slowest THEN now - since[r] ELSE slowest
    /\ Goto(r, "done") /\ Stamp(r)
    /\ UNCHANGED <<truth, now, asked, facts, found>>

(* redisService.set with its default of 2000 ms, and the answer *)
Put(r) ==
    /\ pc[r] = "put"
    /\ \/ /\ cache' = {e \in cache : e.key # Key[asked[r]]}
                      \cup {[key |-> Key[asked[r]], found |-> found[r], till |-> now + TTL]}
          /\ slowest' = IF now - since[r] > slowest THEN now - since[r] ELSE slowest
          /\ Goto(r, "done") /\ Stamp(r)
          /\ UNCHANGED found
       \/ /\ Refused(r)
          /\ UNCHANGED <<cache, slowest, since>>
    /\ UNCHANGED <<truth, now, asked, facts>>

--------------------------------------------------------------------------------
(* Around the handlers *)

(* The manager dies; Redis does not. *)
Crash ==
    /\ \E r \in Requests : pc[r] \in {"query", "put"}
    /\ pc' = [r \in Requests |-> IF pc[r] \in {"query", "put"} THEN "lost" ELSE pc[r]]
    /\ found' = [r \in Requests |-> IF pc[r] \in {"query", "put"} THEN {} ELSE found[r]]
    /\ UNCHANGED <<truth, cache, now, asked, since, facts, slowest>>

(* Somebody writes the tables. *)
Change ==
    /\ truth' \in [Queries -> Values]
    /\ facts' = facts \cup Sees(truth', now)
    /\ UNCHANGED <<cache, now, pc, asked, found, since, slowest>>

Expired(n) == {e \in cache : e.till <= n}

(* Time passes, and Redis drops what has expired. *)
Tick ==
    /\ now < MaxTime
    /\ now' = now + 1
    /\ cache' = cache \ Expired(now + 1)
    /\ facts' = facts \cup Sees(truth, now + 1)
    /\ UNCHANGED <<truth, pc, asked, found, since, slowest>>

Handle(r) == Get(r) \/ Query(r) \/ Put(r)

Next == (\E r \in Requests : Handle(r)) \/ Crash \/ Change \/ Tick

Spec == Init /\ [][Next]_vars

--------------------------------------------------------------------------------
(* Properties *)

(* Redis holds at most one entry for a key, none that has expired, and only *)
(* requests at work or answered have findings.                              *)
TypeOK ==
    /\ truth \in [Queries -> Values]
    /\ cache \subseteq Entry /\ now \in Nat
    /\ pc \in [Requests -> {"new", "query", "put", "done", "error", "lost"}]
    /\ asked \in [Requests -> Args]
    /\ found \in [Requests -> SUBSET Finding]
    /\ since \in [Requests -> Nat]
    /\ facts \subseteq Fact /\ slowest \in Nat
    /\ \A d, e \in cache : d.key = e.key => d = e
    /\ \A e \in cache : now < e.till
    /\ \A r \in Requests : pc[r] \in {"new", "error", "lost"} => found[r] = {}

(* Every part of an answer was true at some time no longer ago than an      *)
(* entry lives, plus the longest time any handler took from its first query *)
(* to storing: hits, overlapping fills, a fill overwritten by an older one  *)
(* and crashes never make it older.  The same goes for an error.            *)
ServedWasTrue ==
    \A r \in Requests : pc[r] = "done" =>
        \A f \in found[r] : \E g \in facts :
            /\ g.query = f.query /\ g.val = f.val
            /\ since[r] - TTL - slowest <= g.at /\ g.at <= since[r]

Whole(F, a) == {f.query : f \in F} = Runs[a] /\ \A f \in F : f.val # Failed
Error(F, a) == \E q \in Runs[a] : F = {[query |-> q, val |-> Failed]}

(* An answer is a whole listing, or one error of a listing that returns its *)
(* errors; it is the listing that was asked for, or another for which the   *)
(* handler makes the same key.                                              *)
ServedUnderItsKey ==
    \A r \in Requests : pc[r] = "done" =>
        \E a \in Args : /\ Key[a] = Key[asked[r]]
                        /\ \/ Whole(found[r], a)
                           \/ a \in Swallows /\ Error(found[r], a)
================================================================================
