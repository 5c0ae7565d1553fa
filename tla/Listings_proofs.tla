----------------------------- MODULE Listings_proofs ---------------------------
(****************************************************************************)
(* What a cached listing serves was true not long ago, and is a listing of  *)
(* its key: for any tables, queries, keys, requests and time to live.  The  *)
(* invariant behind it says of every entry and of every result on its way   *)
(* to Redis how old its findings may be.                                    *)
(****************************************************************************)
EXTENDS Listings, TLAPS

(* By the facts P, the findings F were true, or failed, at some time from   *)
(* lo to hi.                                                                *)
Witnessed(F, P, lo, hi) ==
    \A f \in F : \E g \in P :
        g.query = f.query /\ g.val = f.val /\ lo <= g.at /\ g.at <= hi

(* What is on its way was seen since its handler began to query. *)
FreshWork == \A r \in Requests : pc[r] \in {"query", "put"} =>
                 since[r] <= now /\ Witnessed(found[r], facts, since[r], now)

FreshCache == \A e \in cache :
                  Witnessed(e.found, facts, e.till - TTL - slowest, now)

FreshAnswers == \A r \in Requests : pc[r] = "done" =>
                    Witnessed(found[r], facts, since[r] - TTL - slowest, since[r])

Recorded == Sees(truth, now) \subseteq facts

(* Findings are partial only while queries are left. *)
Listing(F, a) == Whole(F, a) \/ (a \in Swallows /\ Error(F, a))

Sorted ==
    /\ \A r \in Requests : pc[r] = "query" =>
           \A f \in found[r] : f.query \in Runs[asked[r]] /\ f.val # Failed
    /\ \A r \in Requests : pc[r] = "put" => Listing(found[r], asked[r])
    /\ \A e \in cache : \E a \in Args : Key[a] = e.key /\ Listing(e.found, a)

AgeInv == TypeOK /\ Recorded /\ FreshWork /\ FreshCache /\ FreshAnswers

--------------------------------------------------------------------------------
LEMMA WitnessedStays ==
    ASSUME NEW F, NEW P \in SUBSET Fact, NEW Q, P \subseteq Q,
           NEW lo \in Int, NEW hi \in Int, NEW lo1 \in Int, NEW hi1 \in Int,
           Witnessed(F, P, lo, hi), lo1 <= lo, hi <= hi1
    PROVE  Witnessed(F, Q, lo1, hi1)
<1> SUFFICES ASSUME NEW f \in F
             PROVE  \E g \in Q : g.query = f.query /\ g.val = f.val
                                  /\ lo1 <= g.at /\ g.at <= hi1
    BY DEF Witnessed
<1>1. PICK g \in P : g.query = f.query /\ g.val = f.val /\ lo <= g.at /\ g.at <= hi
    BY DEF Witnessed
<1>2. g.at \in Int /\ g \in Q
    BY DEF Fact
<1>3. lo1 <= g.at /\ g.at <= hi1
    BY <1>1, <1>2
<1>4. QED  BY <1>1, <1>2, <1>3

(* Facts and the longest delay only grow. *)
LEMMA GrowingPast ==
    ASSUME TypeOK, [Next]_vars
    PROVE  /\ facts \subseteq facts'
           /\ slowest \in Nat /\ slowest' \in Nat /\ slowest <= slowest'
           /\ now \in Nat /\ now' \in Nat /\ now <= now'
<1> USE DEF TypeOK
<1>1. CASE \E r \in Requests : Get(r)
    BY <1>1 DEF Get
<1>2. CASE \E r \in Requests : Query(r)
    BY <1>2 DEF Query, QueryFinds, QueryFails
<1>3. CASE \E r \in Requests : Put(r)
    BY <1>3 DEF Put
<1>4. CASE Crash   BY <1>4 DEF Crash
<1>5. CASE Change  BY <1>5 DEF Change
<1>6. CASE Tick    BY <1>6 DEF Tick
<1>7. CASE UNCHANGED vars  BY <1>7 DEF vars
<1>8. QED  BY <1>1, <1>2, <1>3, <1>4, <1>5, <1>6, <1>7 DEF Next, Handle

--------------------------------------------------------------------------------
(* The types are kept; Redis keeps one entry for a key and none too long.   *)
LEMMA InitType == Init => TypeOK
<1> SUFFICES ASSUME Init PROVE TypeOK
    OBVIOUS
<1>1. Sees(truth, 0) \subseteq Fact
    BY DEF Init, Sees, Fact
<1>2. QED  BY <1>1 DEF Init, TypeOK

LEMMA GetType == ASSUME TypeOK, NEW r \in Requests, Get(r) PROVE TypeOK'
<1> USE DEF TypeOK, Get, Goto, Stamp, Refused
<1>1. since' \in [Requests -> Nat]  OBVIOUS
<1>2. CASE \E e \in cache :
             /\ e.key = Key[asked[r]]
             /\ found' = [found EXCEPT ![r] = e.found]
             /\ Goto(r, "done")
    <2>1. PICK e \in cache : /\ found' = [found EXCEPT ![r] = e.found]
                             /\ Goto(r, "done")
        BY <1>2
    <2>2. e.found \in SUBSET Finding
        BY DEF Entry
    <2>3. QED  BY <1>1, <2>1, <2>2
<1>3. CASE Goto(r, "query") /\ UNCHANGED found
    BY <1>1, <1>3
<1>4. CASE Refused(r)
    BY <1>1, <1>4
<1>5. QED  BY <1>2, <1>3, <1>4

LEMMA QueryType == ASSUME TypeOK, NEW r \in Requests, Query(r) PROVE TypeOK'
<1> USE DEF TypeOK, Goto
<1>1. PICK q \in Left(r) : QueryFinds(r, q) \/ QueryFails(r, q)
    BY DEF Query
<1>2. q \in Queries
    BY <1>1, ListingsAssumption DEF Left
<1>3. pc[r] = "query"
    BY DEF Query
<1>4. CASE QueryFinds(r, q)
    <2>1. [query |-> q, val |-> truth[q]] \in Finding
        BY <1>2 DEF Finding
    <2>2. found' \in [Requests -> SUBSET Finding]
        BY <1>4, <2>1 DEF QueryFinds
    <2>3. pc' \in [Requests -> {"new", "query", "put", "done", "error", "lost"}]
        BY <1>4 DEF QueryFinds
    <2>4. \A s \in Requests : pc'[s] \in {"new", "error", "lost"} => found'[s] = {}
        BY <1>4 DEF QueryFinds
    <2>5. QED  BY <1>4, <2>2, <2>3, <2>4 DEF QueryFinds
<1>5. CASE QueryFails(r, q)
    <2>1. [query |-> q, val |-> Failed] \in Finding
        BY <1>2 DEF Finding
    <2>2. [query |-> q, val |-> Failed, at |-> now] \in Fact
        BY <1>2 DEF Fact
    <2>3. found' \in [Requests -> SUBSET Finding]
        BY <1>5, <2>1 DEF QueryFails, Refused
    <2>4. pc' \in [Requests -> {"new", "query", "put", "done", "error", "lost"}]
        BY <1>5 DEF QueryFails, Refused
    <2>5. \A s \in Requests : pc'[s] \in {"new", "error", "lost"} => found'[s] = {}
        BY <1>5 DEF QueryFails, Refused
    <2>6. QED  BY <1>5, <2>2, <2>3, <2>4, <2>5 DEF QueryFails
<1>6. QED  BY <1>1, <1>4, <1>5

LEMMA PutType == ASSUME TypeOK, NEW r \in Requests, Put(r) PROVE TypeOK'
<1> USE DEF TypeOK, Goto, Stamp
<1>1. CASE Refused(r) /\ UNCHANGED <<cache, slowest, since>>
    BY <1>1 DEF Put, Refused
<1>2. CASE /\ cache' = {e \in cache : e.key # Key[asked[r]]}
                      \cup {[key |-> Key[asked[r]], found |-> found[r], till |-> now + TTL]}
           /\ slowest' = IF now - since[r] > slowest THEN now - since[r] ELSE slowest
           /\ Goto(r, "done") /\ Stamp(r)
           /\ UNCHANGED found
    <2> DEFINE new == [key |-> Key[asked[r]], found |-> found[r], till |-> now + TTL]
    <2>1. new \in Entry
        BY ListingsAssumption DEF Entry, Keys
    <2>2. cache' \subseteq Entry
        BY <1>2, <2>1
    <2>3. \A d, e \in cache' : d.key = e.key => d = e
        BY <1>2
    <2>4. \A e \in cache' : now' < e.till
        BY <1>2, ListingsAssumption DEF Put
    <2>5. slowest' \in Nat /\ since' \in [Requests -> Nat]
        BY <1>2
    <2>6. QED  BY <1>2, <2>2, <2>3, <2>4, <2>5 DEF Put
<1>3. QED  BY <1>1, <1>2 DEF Put

LEMMA TypeStep == ASSUME TypeOK, [Next]_vars PROVE TypeOK'
<1>1. CASE \E r \in Requests : Get(r)    BY <1>1, GetType
<1>2. CASE \E r \in Requests : Query(r)  BY <1>2, QueryType
<1>3. CASE \E r \in Requests : Put(r)    BY <1>3, PutType
<1>4. CASE Crash
    BY <1>4 DEF Crash, TypeOK
<1>5. CASE Change
    <2>1. Sees(truth', now) \subseteq Fact
        BY <1>5 DEF Change, Sees, Fact, TypeOK
    <2>2. QED  BY <1>5, <2>1 DEF Change, TypeOK
<1>6. CASE Tick
    <2>1. Sees(truth, now + 1) \subseteq Fact
        BY DEF Sees, Fact, TypeOK
    <2>2. \A e \in cache' : now' < e.till
        BY <1>6 DEF Tick, Expired, TypeOK, Entry
    <2>3. QED  BY <1>6, <2>1, <2>2 DEF Tick, TypeOK
<1>7. CASE UNCHANGED vars
    BY <1>7 DEF vars, TypeOK
<1>8. QED  BY <1>1, <1>2, <1>3, <1>4, <1>5, <1>6, <1>7 DEF Next, Handle

(* The caches, clocks and handlers of the listings have their types, for    *)
(* every instance: one entry for a key, none past its time.                 *)
THEOREM Types == Spec => []TypeOK
<1>1. QED  BY InitType, TypeStep, PTL DEF Spec

--------------------------------------------------------------------------------
(* The age of findings *)

LEMMA RecordedStep == ASSUME TypeOK, Recorded, [Next]_vars PROVE Recorded'
<1>1. CASE \E r \in Requests : Get(r)
    BY <1>1 DEF Get, Recorded, Sees
<1>2. CASE \E r \in Requests : Query(r)
    BY <1>2 DEF Query, QueryFinds, QueryFails, Recorded, Sees
<1>3. CASE \E r \in Requests : Put(r)
    BY <1>3 DEF Put, Recorded, Sees
<1>4. CASE Crash   BY <1>4 DEF Crash, Recorded, Sees
<1>5. CASE Change  BY <1>5 DEF Change, Recorded, Sees
<1>6. CASE Tick    BY <1>6 DEF Tick, Recorded, Sees
<1>7. CASE UNCHANGED vars  BY <1>7 DEF vars, Recorded, Sees
<1>8. QED  BY <1>1, <1>2, <1>3, <1>4, <1>5, <1>6, <1>7 DEF Next, Handle

(* What a step keeps, keeps its witnesses. *)
LEMMA KeptWork ==
    ASSUME TypeOK, FreshWork, [Next]_vars, NEW s \in Requests,
           pc[s] \in {"query", "put"}, since'[s] = since[s], found'[s] = found[s]
    PROVE  since'[s] <= now' /\ Witnessed(found'[s], facts', since'[s], now')
<1>1. /\ since[s] \in Nat /\ facts \in SUBSET Fact
      /\ facts \subseteq facts' /\ now \in Nat /\ now' \in Nat /\ now <= now'
    BY GrowingPast DEF TypeOK
<1>2. since[s] <= now /\ Witnessed(found[s], facts, since[s], now)
    BY DEF FreshWork
<1>3. QED  BY <1>1, <1>2, WitnessedStays

LEMMA KeptAnswer ==
    ASSUME TypeOK, FreshAnswers, [Next]_vars, NEW s \in Requests,
           pc[s] = "done", since'[s] = since[s], found'[s] = found[s]
    PROVE  Witnessed(found'[s], facts', since'[s] - TTL - slowest', since'[s])
<1>1. /\ since[s] \in Nat /\ facts \in SUBSET Fact /\ facts \subseteq facts'
      /\ slowest \in Nat /\ slowest' \in Nat /\ slowest <= slowest' /\ TTL \in Nat
    BY GrowingPast, ListingsAssumption DEF TypeOK
<1>2. Witnessed(found[s], facts, since[s] - TTL - slowest, since[s])
    BY DEF FreshAnswers
<1>3. /\ since[s] - TTL - slowest \in Int /\ since[s] - TTL - slowest' \in Int
      /\ since[s] - TTL - slowest' <= since[s] - TTL - slowest
    BY <1>1
<1>4. QED  BY <1>1, <1>2, <1>3, WitnessedStays

LEMMA KeptEntry ==
    ASSUME TypeOK, FreshCache, [Next]_vars, NEW e \in cache
    PROVE  Witnessed(e.found, facts', e.till - TTL - slowest', now')
<1>1. /\ e.till \in Nat /\ facts \in SUBSET Fact /\ facts \subseteq facts'
      /\ slowest \in Nat /\ slowest' \in Nat /\ slowest <= slowest' /\ TTL \in Nat
      /\ now \in Nat /\ now' \in Nat /\ now <= now'
    BY GrowingPast, ListingsAssumption DEF TypeOK, Entry
<1>2. Witnessed(e.found, facts, e.till - TTL - slowest, now)
    BY DEF FreshCache
<1>3. /\ e.till - TTL - slowest \in Int /\ e.till - TTL - slowest' \in Int
      /\ e.till - TTL - slowest' <= e.till - TTL - slowest
    BY <1>1
<1>4. QED  BY <1>1, <1>2, <1>3, WitnessedStays

(* A hit answers an entry that is still alive; a miss begins with nothing.  *)
LEMMA GetAge == ASSUME AgeInv, NEW r \in Requests, Get(r) PROVE FreshWork' /\ FreshAnswers'
<1> USE DEF AgeInv
<1>1. [Next]_vars
    BY DEF Next, Handle
<1>2. /\ \A s \in Requests \ {r} : pc'[s] = pc[s] /\ since'[s] = since[s] /\ found'[s] = found[s]
      /\ since'[r] = now /\ now' = now /\ facts' = facts /\ slowest' = slowest
      /\ now \in Nat /\ slowest \in Nat /\ TTL \in Nat
    BY ListingsAssumption DEF Get, Goto, Stamp, Refused, TypeOK
<1>3. CASE \E e \in cache : found'[r] = e.found /\ pc'[r] = "done"
    <2>1. PICK e \in cache : found'[r] = e.found /\ pc'[r] = "done"
        BY <1>3
    <2>2. e.till \in Nat /\ now < e.till /\ facts \in SUBSET Fact
        BY DEF TypeOK, Entry
    <2>3. Witnessed(e.found, facts, e.till - TTL - slowest, now)
        BY DEF FreshCache
    <2>4. /\ e.till - TTL - slowest \in Int /\ now - TTL - slowest \in Int
          /\ now - TTL - slowest <= e.till - TTL - slowest
        BY <1>2, <2>2
    <2>5. Witnessed(e.found, facts, now - TTL - slowest, now)
        BY <1>2, <2>2, <2>3, <2>4, WitnessedStays
    <2>6. FreshAnswers'
        BY <1>1, <1>2, <2>1, <2>5, KeptAnswer DEF FreshAnswers
    <2>7. FreshWork'
        BY <1>1, <1>2, <2>1, KeptWork DEF FreshWork
    <2>8. QED  BY <2>6, <2>7
<1>4. CASE found'[r] = {} /\ pc'[r] \in {"query", "error"}
    <2>1. FreshAnswers'
        BY <1>1, <1>2, <1>4, KeptAnswer DEF FreshAnswers
    <2>2. Witnessed(found'[r], facts', since'[r], now') /\ since'[r] <= now'
        BY <1>2, <1>4 DEF Witnessed
    <2>3. FreshWork'
        BY <1>1, <1>2, <2>2, KeptWork DEF FreshWork
    <2>4. QED  BY <2>1, <2>3
<1>5. QED
    BY <1>3, <1>4 DEF Get, Goto, Refused, TypeOK

(* A query sees what is true, or fails, while the handler is at work. *)
LEMMA QueryAge ==
    ASSUME AgeInv, NEW r \in Requests, Query(r) PROVE FreshWork' /\ FreshAnswers'
<1> USE DEF AgeInv
<1>1. [Next]_vars
    BY DEF Next, Handle
<1>2. PICK q \in Left(r) : QueryFinds(r, q) \/ QueryFails(r, q)
    BY DEF Query
<1>3. q \in Queries /\ pc[r] = "query" /\ since[r] <= now /\ since[r] \in Nat /\ now \in Nat
    BY <1>2, ListingsAssumption DEF Left, Query, FreshWork, TypeOK
<1>4. /\ \A s \in Requests \ {r} : pc'[s] = pc[s] /\ since'[s] = since[s] /\ found'[s] = found[s]
      /\ since' = since /\ now' = now /\ slowest' = slowest /\ pc'[r] # "done"
    BY <1>2 DEF QueryFinds, QueryFails, Goto, Refused, TypeOK
<1>5. FreshAnswers'
    BY <1>1, <1>4, KeptAnswer DEF FreshAnswers
<1>6. Witnessed(found'[r], facts', since'[r], now')
    <2>1. CASE QueryFinds(r, q)
        <3>1. [query |-> q, val |-> truth[q], at |-> now] \in facts
            BY <1>3 DEF Recorded, Sees
        <3>2. Witnessed(found[r], facts, since[r], now)
            BY <1>3 DEF FreshWork
        <3>3. found'[r] = found[r] \cup {[query |-> q, val |-> truth[q]]} /\ facts' = facts
            BY <2>1 DEF QueryFinds, TypeOK
        <3>4. QED  BY <1>3, <1>4, <3>1, <3>2, <3>3 DEF Witnessed
    <2>2. CASE QueryFails(r, q)
        <3>1. found'[r] \subseteq {[query |-> q, val |-> Failed]}
            BY <2>2 DEF QueryFails, Refused, TypeOK
        <3>2. [query |-> q, val |-> Failed, at |-> now] \in facts'
            BY <2>2 DEF QueryFails
        <3>3. QED  BY <1>3, <1>4, <3>1, <3>2 DEF Witnessed
    <2>3. QED  BY <1>2, <2>1, <2>2
<1>7. since'[r] <= now'
    BY <1>3, <1>4
<1>8. FreshWork'
    BY <1>1, <1>4, <1>6, <1>7, KeptWork DEF FreshWork
<1>9. QED  BY <1>5, <1>8

(* What is stored lives for TTL and is no older than the delay of its handler. *)
LEMMA PutAge ==
    ASSUME AgeInv, NEW r \in Requests, Put(r)
    PROVE  FreshWork' /\ FreshAnswers' /\ FreshCache'
<1> USE DEF AgeInv
<1>1. [Next]_vars
    BY DEF Next, Handle
<1>2. /\ pc[r] = "put" /\ since[r] <= now /\ since[r] \in Nat /\ now \in Nat
      /\ slowest \in Nat /\ TTL \in Nat /\ facts \in SUBSET Fact
      /\ Witnessed(found[r], facts, since[r], now)
    BY ListingsAssumption DEF Put, FreshWork, TypeOK
<1>3. /\ \A s \in Requests \ {r} : pc'[s] = pc[s] /\ since'[s] = since[s] /\ found'[s] = found[s]
      /\ now' = now /\ facts' = facts
    BY DEF Put, Goto, Stamp, Refused, TypeOK
<1>4. pc'[r] \in {"done", "error"}
    BY DEF Put, Goto, Refused, TypeOK
<1>5. FreshWork'
    BY <1>1, <1>3, <1>4, KeptWork DEF FreshWork
<1>6. CASE Refused(r) /\ UNCHANGED <<cache, slowest, since>>
    <2>1. FreshAnswers'
        <3>1. pc'[r] = "error"
            BY <1>6 DEF Refused, Goto, TypeOK
        <3>2. QED  BY <1>1, <1>3, <3>1, KeptAnswer DEF FreshAnswers
    <2>2. FreshCache'
        BY <1>1, <1>6, KeptEntry DEF FreshCache
    <2>3. QED  BY <1>5, <2>1, <2>2
<1>7. CASE /\ cache' = {e \in cache : e.key # Key[asked[r]]}
                      \cup {[key |-> Key[asked[r]], found |-> found[r], till |-> now + TTL]}
           /\ slowest' = IF now - since[r] > slowest THEN now - since[r] ELSE slowest
           /\ Goto(r, "done") /\ Stamp(r)
           /\ UNCHANGED found
    <2>1. slowest' \in Nat /\ now - since[r] <= slowest'
        BY <1>2, <1>7
    <2>2. /\ now - TTL - slowest' \in Int /\ now - TTL - slowest' <= since[r]
          /\ now + TTL - TTL - slowest' \in Int /\ now + TTL - TTL - slowest' <= since[r]
        BY <1>2, <2>1
    <2>3. /\ Witnessed(found[r], facts, now - TTL - slowest', now)
          /\ Witnessed(found[r], facts, now + TTL - TTL - slowest', now)
        BY <1>2, <2>2, WitnessedStays
    <2>4. since'[r] = now /\ found' = found
        BY <1>7 DEF Stamp, TypeOK
    <2>5. FreshAnswers'
        BY <1>1, <1>3, <2>3, <2>4, KeptAnswer DEF FreshAnswers
    <2>6. ASSUME NEW e \in cache'
          PROVE  Witnessed(e.found, facts', e.till - TTL - slowest', now')
        <3>1. CASE e \in cache
            BY <1>1, <3>1, KeptEntry
        <3>2. CASE e = [key |-> Key[asked[r]], found |-> found[r], till |-> now + TTL]
            <4>1. e.found = found[r] /\ e.till = now + TTL
                BY <3>2
            <4>2. e.till - TTL - slowest' = now + TTL - TTL - slowest'
                BY <1>2, <2>1, <4>1
            <4>3. facts' = facts /\ now' = now
                BY <1>3
            <4>4. QED  BY <2>3, <4>1, <4>2, <4>3
        <3>3. QED  BY <1>7, <2>6, <3>1, <3>2
    <2>7. FreshCache'
        BY <2>6 DEF FreshCache
    <2>8. QED  BY <1>5, <2>5, <2>7
<1>8. QED  BY <1>6, <1>7 DEF Put

LEMMA AgeStep == ASSUME AgeInv, [Next]_vars PROVE AgeInv'
<1> USE DEF AgeInv
<1>1. TypeOK' /\ Recorded'
    BY TypeStep, RecordedStep
<1>2. CASE \E r \in Requests : Get(r)
    <2>1. cache' = cache  BY <1>2 DEF Get
    <2>2. FreshCache'     BY <2>1, KeptEntry DEF FreshCache
    <2>3. QED  BY <1>1, <1>2, <2>2, GetAge
<1>3. CASE \E r \in Requests : Query(r)
    <2>1. cache' = cache  BY <1>3 DEF Query, QueryFinds, QueryFails
    <2>2. FreshCache'     BY <2>1, KeptEntry DEF FreshCache
    <2>3. QED  BY <1>1, <1>3, <2>2, QueryAge
<1>4. CASE \E r \in Requests : Put(r)
    BY <1>1, <1>4, PutAge
<1>5. CASE Crash
    <2>1. /\ cache' = cache /\ since' = since
          /\ \A s \in Requests : pc'[s] \in {"query", "put"} => FALSE
          /\ \A s \in Requests : pc'[s] = "done" => pc[s] = "done" /\ found'[s] = found[s]
        BY <1>5 DEF Crash, TypeOK
    <2>2. FreshCache'    BY <2>1, KeptEntry DEF FreshCache
    <2>3. FreshWork'     BY <2>1 DEF FreshWork
    <2>4. FreshAnswers'  BY <2>1, KeptAnswer DEF FreshAnswers
    <2>5. QED  BY <1>1, <2>2, <2>3, <2>4
<1>6. CASE Change \/ Tick \/ UNCHANGED vars
    <2>1. cache' \subseteq cache /\ since' = since /\ pc' = pc /\ found' = found
        BY <1>6 DEF Change, Tick, vars
    <2>2. FreshCache'    BY <2>1, KeptEntry DEF FreshCache
    <2>3. FreshWork'     BY <2>1, KeptWork DEF FreshWork
    <2>4. FreshAnswers'  BY <2>1, KeptAnswer DEF FreshAnswers
    <2>5. QED  BY <1>1, <2>2, <2>3, <2>4
<1>7. QED  BY <1>2, <1>3, <1>4, <1>5, <1>6 DEF Next, Handle

(* Every part of an answer was true no longer ago than an entry lives, plus *)
(* the slowest handler: ServedWasTrue, for every instance.                  *)
THEOREM Staleness == Spec => []ServedWasTrue
<1>1. Init => AgeInv
    BY InitType DEF Init, AgeInv, Recorded, FreshWork, FreshCache, FreshAnswers
<1>2. AgeInv => ServedWasTrue
    BY DEF AgeInv, FreshAnswers, Witnessed, ServedWasTrue
<1>3. QED  BY <1>1, <1>2, AgeStep, PTL DEF Spec

--------------------------------------------------------------------------------
(* Listings and keys *)

KeyInv == TypeOK /\ Sorted /\ ServedUnderItsKey

LEMMA KeyStep == ASSUME KeyInv, [Next]_vars PROVE KeyInv'
<1> USE DEF KeyInv
<1>0. TypeOK'
    BY TypeStep
<1>1. ASSUME NEW r \in Requests, Get(r)  PROVE Sorted' /\ ServedUnderItsKey'
    <2>1. /\ \A s \in Requests \ {r} : pc'[s] = pc[s] /\ found'[s] = found[s]
          /\ asked' = asked /\ cache' = cache
        BY <1>1 DEF Get, Goto, Refused, TypeOK
    <2>2. \/ \E e \in cache : e.key = Key[asked[r]] /\ found'[r] = e.found /\ pc'[r] = "done"
          \/ found'[r] = {} /\ pc'[r] \in {"query", "error"}
        BY <1>1 DEF Get, Goto, Refused, TypeOK
    <2>3. Sorted'
        BY <2>1, <2>2 DEF Sorted
    <2>4. pc'[r] = "done" => \E a \in Args : Key[a] = Key[asked'[r]] /\ Listing(found'[r], a)
        BY <2>1, <2>2 DEF Sorted
    <2>5. ServedUnderItsKey'
        BY <2>1, <2>4 DEF ServedUnderItsKey, Listing
    <2>6. QED  BY <2>3, <2>5
<1>2. ASSUME NEW r \in Requests, Query(r)  PROVE Sorted' /\ ServedUnderItsKey'
    <2>1. PICK q \in Left(r) : QueryFinds(r, q) \/ QueryFails(r, q)
        BY <1>2 DEF Query
    <2>2. /\ \A s \in Requests \ {r} : pc'[s] = pc[s] /\ found'[s] = found[s]
          /\ asked' = asked /\ cache' = cache /\ pc[r] = "query" /\ pc'[r] # "done"
        BY <1>2, <2>1 DEF Query, QueryFinds, QueryFails, Goto, Refused, TypeOK
    <2>3. q \in Runs[asked[r]]
        BY <2>1 DEF Left
    <2>4. CASE QueryFails(r, q)
        <3>1. \/ pc'[r] = "error"
              \/ /\ pc'[r] = "put" /\ asked[r] \in Swallows
                 /\ found'[r] = {[query |-> q, val |-> Failed]}
            BY <2>4 DEF QueryFails, Goto, Refused, TypeOK
        <3>2. pc'[r] = "put" => Listing(found'[r], asked'[r])
            BY <2>2, <2>3, <3>1 DEF Listing, Error
        <3>3. Sorted'
            BY <2>2, <3>1, <3>2 DEF Sorted
        <3>4. QED  BY <2>2, <3>3 DEF ServedUnderItsKey
    <2>5. CASE QueryFinds(r, q)
        <3>1. found'[r] = found[r] \cup {[query |-> q, val |-> truth[q]]}
            BY <2>5 DEF QueryFinds, TypeOK
        <3>2. pc'[r] = IF Left(r) = {q} THEN "put" ELSE "query"
            BY <2>5 DEF QueryFinds, Goto, TypeOK
        <3>3. \A f \in found[r] : f.query \in Runs[asked[r]] /\ f.val # Failed
            BY <2>2 DEF Sorted
        <3>4. truth[q] # Failed
            BY <2>3, ListingsAssumption DEF TypeOK
        <3>5. \A f \in found'[r] : f.query \in Runs[asked[r]] /\ f.val # Failed
            BY <2>3, <3>1, <3>3, <3>4
        <3>6. Left(r) = {q} => Whole(found'[r], asked[r])
            <4>1. SUFFICES ASSUME Left(r) = {q}
                           PROVE  {f.query : f \in found'[r]} = Runs[asked[r]]
                BY <3>5 DEF Whole
            <4>2. ASSUME NEW p \in Runs[asked[r]]
                  PROVE  \E f \in found'[r] : f.query = p
                <5>1. CASE p = q
                    <6>1. [query |-> q, val |-> truth[q]] \in found'[r]
                        BY <3>1
                    <6>2. [query |-> q, val |-> truth[q]].query = p
                        BY <5>1
                    <6>3. QED  BY <6>1, <6>2
                <5>2. CASE p # q
                    <6>1. \E f \in found[r] : f.query = p
                        <7>1. p \notin Left(r)
                            BY <4>1, <5>2
                        <7>2. QED  BY <4>2, <7>1 DEF Left
                    <6>2. QED  BY <3>1, <6>1
                <5>3. QED  BY <5>1, <5>2
            <4>3. \A f \in found'[r] : f.query \in Runs[asked[r]]
                BY <3>5
            <4>4. QED  BY <4>2, <4>3
        <3>7. Sorted'
            BY <2>2, <3>2, <3>5, <3>6 DEF Sorted, Listing
        <3>8. QED  BY <2>2, <3>7 DEF ServedUnderItsKey
    <2>6. QED  BY <2>1, <2>4, <2>5
<1>3. ASSUME NEW r \in Requests, Put(r)  PROVE Sorted' /\ ServedUnderItsKey'
    <2>1. /\ \A s \in Requests \ {r} : pc'[s] = pc[s] /\ found'[s] = found[s]
          /\ asked' = asked /\ pc'[r] \in {"done", "error"}
          /\ pc'[r] = "done" => found'[r] = found[r]
          /\ cache' \subseteq cache \cup {[key |-> Key[asked[r]], found |-> found[r],
                                            till |-> now + TTL]}
        BY <1>3 DEF Put, Goto, Refused, TypeOK
    <2>2. Listing(found[r], asked[r]) /\ asked[r] \in Args
        BY <1>3 DEF Put, Sorted, TypeOK
    <2>3. Sorted'
        BY <2>1, <2>2 DEF Sorted
    <2>4. ServedUnderItsKey'
        BY <2>1, <2>2 DEF ServedUnderItsKey, Listing
    <2>5. QED  BY <2>3, <2>4
<1>4. CASE Crash
    <2>1. /\ cache' = cache /\ asked' = asked
          /\ \A s \in Requests : pc'[s] \notin {"query", "put"}
          /\ \A s \in Requests : pc'[s] = "done" => pc[s] = "done" /\ found'[s] = found[s]
        BY <1>4 DEF Crash, TypeOK
    <2>2. QED  BY <1>0, <2>1 DEF Sorted, ServedUnderItsKey
<1>5. CASE Change \/ Tick \/ UNCHANGED vars
    <2>1. cache' \subseteq cache /\ asked' = asked /\ pc' = pc /\ found' = found
        BY <1>5 DEF Change, Tick, vars
    <2>2. QED  BY <1>0, <2>1 DEF Sorted, ServedUnderItsKey
<1>6. QED  BY <1>0, <1>1, <1>2, <1>3, <1>4, <1>5 DEF Next, Handle

(* An answer is a whole listing of its key, or one error of a listing that  *)
(* returns errors: ServedUnderItsKey, for every instance.                   *)
THEOREM KeysKept == Spec => []ServedUnderItsKey
<1>1. Init => KeyInv
    BY InitType DEF Init, KeyInv, Sorted, ServedUnderItsKey
<1>2. KeyInv => ServedUnderItsKey
    BY DEF KeyInv
<1>3. QED  BY <1>1, <1>2, KeyStep, PTL DEF Spec
================================================================================
